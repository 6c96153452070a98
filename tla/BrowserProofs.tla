---------------------------- MODULE BrowserProofs ----------------------------
(* What the browser keeps, for every number of jobs, versions, configurations,*)
(* sources, rows, requests and faults: the pages about jobs (JobTab) and the  *)
(* editor of a configuration (ConfigEditor). The two modules share their      *)
(* lemmas about sequences, which come first; then the tab, then the editor.   *)
EXTENDS JobTab, Checklist, FiniteSetTheorems, WellFoundedInduction, SequenceTheorems, TLAPS

-----------------------------------------------------------------------------
(* Numbers, and sequences made step by step. The induction theorems of the    *)
(* library cannot be instantiated; these lemmas use well-founded sets instead.*)

(* Every non-empty set of numbers has a least one.                            *)
LEMMA LeastNumber ==
  ASSUME NEW I \in SUBSET Nat, I # {}
  PROVE  \E n \in I : \A m \in I : n <= m
<1> DEFINE R == OpToRel(<, Nat)
<1>1. IsWellFoundedOn(R, Nat)
  BY NatLessThanWellFounded
<1>2. \A x, y \in Nat : y < x => <<y, x>> \in R
  BY DEF OpToRel
<1> HIDE DEF R
<1>3. PICK n \in I : \A m \in I : ~ (<<m, n>> \in R)
  BY <1>1, WFMin
<1>4. \A m \in I : ~ (m < n)
  BY <1>2, <1>3, Zenon
<1> QED  BY <1>4, SMT

(* A set of numbers that contains 0 and, with a number below n, the next one, *)
(* has every number up to n.                                                  *)
LEMMA Counting ==
  ASSUME NEW n \in Nat, NEW I, 0 \in I, \A i \in 0..n : i \in I /\ i < n => i + 1 \in I
  PROVE  \A i \in 0..n : i \in I
<1> DEFINE Out == {i \in 0..n : i \notin I}
<1>1. SUFFICES ASSUME Out # {} PROVE FALSE
  OBVIOUS
<1>2. PICK m \in Out : \A i \in Out : m <= i
  <2>1. Out \in SUBSET Nat
    OBVIOUS
  <2> HIDE DEF Out
  <2> QED  BY <1>1, <2>1, LeastNumber
<1>3. m # 0 /\ m \in 0..n /\ m \notin I
  OBVIOUS
<1>4. m - 1 \in 0..n /\ m - 1 < n
  BY <1>3
<1>5. m - 1 \in I
  BY <1>2, <1>4
<1> QED  BY <1>3, <1>4, <1>5

(* The values f of n steps from `base`, each made of the one before it.       *)
Run(f, n, base, step) == f[0] = base /\ \A i \in 1..n : f[i] = step[i][f[i - 1]]

(* A function defined step by step up to n exists.                            *)
LEMMA Recursion ==
  ASSUME NEW n \in Nat, NEW X, NEW base \in X, NEW step \in [1..n -> [X -> X]]
  PROVE  \E f \in [0..n -> X] : Run(f, n, base, step)
<1> DEFINE R(f, m) == Run(f, m, base, step)
           I == {m \in 0..n : \E f \in [0..m -> X] : R(f, m)}
<1>1. 0 \in I
  <2> DEFINE f == [i \in 0..0 |-> base]
  <2>1. f \in [0..0 -> X] /\ R(f, 0)
    BY DEF Run
  <2> HIDE DEF f, R
  <2> QED  BY <2>1
<1>2. ASSUME NEW m \in 0..n, m \in I, m < n
      PROVE  m + 1 \in I
  <2>1. PICK f \in [0..m -> X] : R(f, m)
    BY <1>2
  <2> DEFINE g == [i \in 0..(m + 1) |-> IF i = m + 1 THEN step[m + 1][f[m]] ELSE f[i]]
  <2>2. m + 1 \in 1..n /\ m \in 0..m
    BY <1>2
  <2>3. step[m + 1][f[m]] \in X
    <3>1. f[m] \in X /\ step[m + 1] \in [X -> X]
      BY <2>2
    <3> QED  BY <3>1
  <2>4. g \in [0..(m + 1) -> X]
    BY <2>3
  <2>5. g[0] = base
    BY <2>1 DEF Run
  <2>6. ASSUME NEW i \in 1..(m + 1)
        PROVE  g[i] = step[i][g[i - 1]]
    <3>1. CASE i = m + 1
      BY <3>1
    <3>2. CASE i \in 1..m
      BY <2>1, <3>2 DEF Run
    <3> QED  BY <3>1, <3>2
  <2>7. R(g, m + 1)
    BY <2>5, <2>6 DEF Run
  <2> HIDE DEF g, R
  <2> QED  BY <2>2, <2>4, <2>7
<1>3. n \in I
  <2> HIDE DEF I
  <2>1. \A m \in 0..n : m \in I /\ m < n => m + 1 \in I
    BY <1>2
  <2>2. \A m \in 0..n : m \in I
    BY <1>1, <2>1, Counting
  <2> QED  BY <2>2
<1> QED  BY <1>3

(* Picked collects its elements one by one.                                   *)
Collects(upto, seq, places) ==
    /\ upto[0] = <<>>
    /\ \A n \in 1..Len(seq) :
          upto[n] = IF n \in places THEN Append(upto[n - 1], seq[n]) ELSE upto[n - 1]
    /\ Picked(seq, places) = upto[Len(seq)]

(* The function that Picked is defined by exists.                             *)
LEMMA PickedRun ==
  ASSUME NEW S, NEW seq \in Seq(S), NEW places
  PROVE  \E upto \in [0..Len(seq) -> Seq(S)] : Collects(upto, seq, places)
<1> DEFINE N == Len(seq)
           X == Seq(S)
           base == <<>>
           More(q, i) == IF i \in places THEN Append(q, seq[i]) ELSE q
           Value(f, i) == IF i = 0 THEN base ELSE More(f[i - 1], i)
           Is(f) == f = [i \in 0..N |-> Value(f, i)]
           F == CHOOSE f : Is(f)
           step == [i \in 1..N |-> [q \in X |-> More(q, i)]]
<1>1. N \in Nat /\ base \in X
  OBVIOUS
<1>2. Picked(seq, places) = F[N]
  BY DEF Picked
<1>3. ASSUME NEW i \in 1..N, NEW q \in X
      PROVE  More(q, i) \in X
  OBVIOUS
<1>4. ASSUME NEW upto \in [0..N -> X], upto[0] = base, \A i \in 1..N : upto[i] = More(upto[i - 1], i),
             Picked(seq, places) = upto[N]
      PROVE  upto \in [0..Len(seq) -> Seq(S)] /\ Collects(upto, seq, places)
  BY <1>4 DEF Collects
<1> HIDE DEF N, X, base, More
<1>5. step \in [1..N -> [X -> X]]
  BY <1>3
<1>s. \A i \in 1..N : \A q \in X : step[i][q] = More(q, i)
  OBVIOUS
<1> HIDE DEF step
<1>6. PICK f \in [0..N -> X] : Run(f, N, base, step)
  BY <1>1, <1>5, Recursion, SMT
<1>7. \A i \in 1..N : f[i] = More(f[i - 1], i)
  <2>1. \A i \in 1..N : i - 1 \in 0..N
    BY <1>1
  <2> QED  BY <1>s, <1>6, <2>1 DEF Run
<1>8. Is(f)
  <2>1. \A i \in 0..N : f[i] = Value(f, i)
    BY <1>1, <1>6, <1>7 DEF Run
  <2> HIDE DEF Value
  <2> QED  BY <2>1
<1>9. Is(F)
  <2> HIDE DEF Is
  <2> QED  BY <1>8
<1> HIDE DEF F
<1>10. F[0] = base /\ \A i \in 1..N : F[i] = More(F[i - 1], i)
  <2>1. \A i \in 0..N : F[i] = Value(F, i)
    <3> HIDE DEF Value
    <3> QED  BY <1>9
  <2> HIDE DEF Is
  <2> QED  BY <1>1, <2>1
<1>11. \A i \in 0..N : F[i] = f[i]
  <2> DEFINE J == {i \in 0..N : F[i] = f[i]}
  <2> HIDE DEF Is, Value
  <2>1. 0 \in J
    BY <1>1, <1>6, <1>10 DEF Run
  <2>2. ASSUME NEW i \in 0..N, i \in J, i < N
        PROVE  i + 1 \in J
    <3>1. i + 1 \in 1..N /\ F[i] = f[i] /\ (i + 1) - 1 = i
      BY <1>1, <2>2
    <3>2. F[i + 1] = More(F[i], i + 1) /\ f[i + 1] = More(f[i], i + 1)
      BY <1>7, <1>10, <3>1
    <3> QED  BY <3>1, <3>2
  <2>3. \A i \in 0..N : i \in J /\ i < N => i + 1 \in J
    BY <2>2
  <2> HIDE DEF J
  <2>4. \A i \in 0..N : i \in J
    BY <1>1, <2>1, <2>3, Counting
  <2> QED  BY <2>4 DEF J
<1>12. Picked(seq, places) = f[N]
  BY <1>1, <1>2, <1>11
<1> QED  BY <1>4, <1>6, <1>7, <1>12, Zenon DEF Run

(* What is picked are the elements at those places, in a sequence no longer   *)
(* than the one they come from.                                               *)
LEMMA PickedElements ==
  ASSUME NEW S, NEW seq \in Seq(S), NEW places
  PROVE  /\ Picked(seq, places) \in Seq(S)
         /\ Len(Picked(seq, places)) <= Len(seq)
         /\ \A k \in DOMAIN Picked(seq, places) :
               \E i \in DOMAIN seq : i \in places /\ Picked(seq, places)[k] = seq[i]
         /\ \A i \in DOMAIN seq : i \in places =>
               \E k \in DOMAIN Picked(seq, places) : Picked(seq, places)[k] = seq[i]
<1> DEFINE N == Len(seq)
           Holds(q, n) ==
             /\ Len(q) <= n
             /\ \A k \in 1..Len(q) : \E i \in 1..n : i \in places /\ q[k] = seq[i]
             /\ \A i \in 1..n : i \in places => \E k \in 1..Len(q) : q[k] = seq[i]
<1>0. PICK upto \in [0..Len(seq) -> Seq(S)] : Collects(upto, seq, places)
  BY PickedRun
<1>1. /\ upto \in [0..N -> Seq(S)] /\ upto[0] = <<>>
      /\ \A n \in 1..N :
           upto[n] = IF n \in places THEN Append(upto[n - 1], seq[n]) ELSE upto[n - 1]
      /\ Picked(seq, places) = upto[N]
  BY <1>0 DEF Collects
<1>2. N \in Nat /\ \A i \in 1..N : seq[i] \in S
  OBVIOUS
<1> HIDE DEF N
<1> DEFINE J == {n \in 0..N : Holds(upto[n], n)}
<1>3. 0 \in J
  BY <1>1, <1>2
<1>4. ASSUME NEW n \in 0..N, n \in J, n < N
      PROVE  n + 1 \in J
  <2> DEFINE q == upto[n]
             r == upto[n + 1]
  <2>1. n + 1 \in 1..N /\ n \in Nat /\ (n + 1) - 1 = n
    BY <1>2, <1>4
  <2>2. q \in Seq(S) /\ Holds(q, n)
    BY <1>4
  <2>3. r = IF n + 1 \in places THEN Append(q, seq[n + 1]) ELSE q
    BY <1>1, <2>1
  <2>4. seq[n + 1] \in S
    BY <1>2, <2>1
  <2>7. Holds(r, n + 1) => n + 1 \in J
    BY <2>1
  <2> HIDE DEF q, r, J
  <2>5. CASE n + 1 \notin places
    <3>1. r = q
      BY <2>3, <2>5
    <3>2. Len(q) <= n + 1
      BY <2>1, <2>2
    <3>3. \A k \in 1..Len(q) : \E i \in 1..(n + 1) : i \in places /\ q[k] = seq[i]
      BY <2>1, <2>2
    <3>4. ASSUME NEW i \in 1..(n + 1), i \in places
          PROVE  \E k \in 1..Len(q) : q[k] = seq[i]
      <4>1. i \in 1..n
        BY <2>1, <2>5, <3>4
      <4> QED  BY <2>2, <3>4, <4>1
    <3>5. Holds(r, n + 1)
      BY <3>1, <3>2, <3>3, <3>4
    <3> QED  BY <2>7, <3>5
  <2>6. CASE n + 1 \in places
    <3>1. r = Append(q, seq[n + 1])
      BY <2>3, <2>6
    <3>2. /\ Len(r) = Len(q) + 1 /\ Len(q) \in Nat
          /\ r[Len(q) + 1] = seq[n + 1]
          /\ \A k \in 1..Len(q) : r[k] = q[k]
      BY <2>2, <2>4, <3>1
    <3>3. Len(r) <= n + 1
      BY <2>1, <2>2, <3>2
    <3>4. ASSUME NEW k \in 1..Len(r)
          PROVE  \E i \in 1..(n + 1) : i \in places /\ r[k] = seq[i]
      <4>1. CASE k = Len(q) + 1
        BY <2>1, <2>6, <3>2, <4>1
      <4>2. CASE k \in 1..Len(q)
        <5>1. PICK i \in 1..n : i \in places /\ q[k] = seq[i]
          BY <2>2, <4>2
        <5>2. i \in 1..(n + 1) /\ r[k] = seq[i]
          BY <2>1, <3>2, <4>2, <5>1
        <5> QED  BY <5>1, <5>2
      <4> QED  BY <3>2, <4>1, <4>2
    <3>5. ASSUME NEW i \in 1..(n + 1), i \in places
          PROVE  \E k \in 1..Len(r) : r[k] = seq[i]
      <4>1. CASE i = n + 1
        <5>1. Len(q) + 1 \in 1..Len(r)
          BY <3>2
        <5> QED  BY <3>2, <4>1, <5>1
      <4>2. CASE i \in 1..n
        <5>1. PICK k \in 1..Len(q) : q[k] = seq[i]
          BY <2>2, <3>5, <4>2
        <5>2. k \in 1..Len(r) /\ r[k] = seq[i]
          BY <3>2, <5>1
        <5> QED  BY <5>2
      <4> QED  BY <2>1, <4>1, <4>2
    <3>6. Holds(r, n + 1)
      BY <3>3, <3>4, <3>5
    <3> QED  BY <2>7, <3>6
  <2> QED  BY <2>5, <2>6
<1>5. N \in J
  <2> HIDE DEF J
  <2>1. \A n \in 0..N : n \in J /\ n < N => n + 1 \in J
    BY <1>4
  <2>2. \A n \in 0..N : n \in J
    BY <1>2, <1>3, <2>1, Counting
  <2> QED  BY <1>2, <2>2
<1>6. upto[N] \in Seq(S)
  BY <1>1, <1>2
<1> DEFINE picked == Picked(seq, places)
<1>7. picked \in Seq(S) /\ Holds(picked, N)
  <2>1. Holds(upto[N], N)
    BY <1>5
  <2> QED  BY <1>1, <1>6, <2>1
<1> HIDE DEF picked
<1>d. DOMAIN picked = 1..Len(picked) /\ DOMAIN seq = 1..Len(seq)
  BY <1>7
<1>8. /\ Len(picked) <= Len(seq)
      /\ \A k \in DOMAIN picked : \E i \in DOMAIN seq : i \in places /\ picked[k] = seq[i]
      /\ \A i \in DOMAIN seq : i \in places => \E k \in DOMAIN picked : picked[k] = seq[i]
  BY <1>7, <1>d, Zenon DEF N
<1>9. picked \in Seq(S)
  BY <1>7
<1> QED  BY <1>8, <1>9 DEF picked

(* Elements that differ are still different when picked.                      *)
LEMMA PickedDiffer ==
  ASSUME NEW S, NEW seq \in Seq(S), NEW places,
         \A i, j \in DOMAIN seq : i \in places /\ j \in places /\ i # j => seq[i] # seq[j]
  PROVE  \A k, l \in DOMAIN Picked(seq, places) :
            k # l => Picked(seq, places)[k] # Picked(seq, places)[l]
<1> DEFINE N == Len(seq)
           Holds(q, n) ==
             /\ \A k \in 1..Len(q) : \E i \in 1..n : i \in places /\ q[k] = seq[i]
             /\ \A k, l \in 1..Len(q) : k # l => q[k] # q[l]
<1>0. PICK upto \in [0..Len(seq) -> Seq(S)] : Collects(upto, seq, places)
  BY PickedRun
<1>1. /\ upto \in [0..N -> Seq(S)] /\ upto[0] = <<>>
      /\ \A n \in 1..N :
           upto[n] = IF n \in places THEN Append(upto[n - 1], seq[n]) ELSE upto[n - 1]
      /\ Picked(seq, places) = upto[N]
  BY <1>0 DEF Collects
<1>2. N \in Nat /\ \A i \in 1..N : seq[i] \in S
  OBVIOUS
<1>3. \A i, j \in 1..N : i \in places /\ j \in places /\ i # j => seq[i] # seq[j]
  OBVIOUS
<1> HIDE DEF N
<1> DEFINE J == {n \in 0..N : Holds(upto[n], n)}
<1>4. 0 \in J
  BY <1>1, <1>2
<1>5. ASSUME NEW n \in 0..N, n \in J, n < N
      PROVE  n + 1 \in J
  <2> DEFINE q == upto[n]
             r == upto[n + 1]
  <2>1. n + 1 \in 1..N /\ n \in Nat /\ (n + 1) - 1 = n
    BY <1>2, <1>5
  <2>2. q \in Seq(S) /\ Holds(q, n)
    BY <1>5
  <2>3. r = IF n + 1 \in places THEN Append(q, seq[n + 1]) ELSE q
    BY <1>1, <2>1
  <2>4. seq[n + 1] \in S
    BY <1>2, <2>1
  <2>7. Holds(r, n + 1) => n + 1 \in J
    BY <2>1
  <2> HIDE DEF q, r, J
  <2>5. CASE n + 1 \notin places
    <3>1. r = q
      BY <2>3, <2>5
    <3>2. Holds(q, n + 1)
      BY <2>1, <2>2
    <3> QED  BY <2>7, <3>1, <3>2
  <2>6. CASE n + 1 \in places
    <3>1. r = Append(q, seq[n + 1])
      BY <2>3, <2>6
    <3>2. /\ Len(r) = Len(q) + 1 /\ Len(q) \in Nat
          /\ r[Len(q) + 1] = seq[n + 1]
          /\ \A k \in 1..Len(q) : r[k] = q[k]
      BY <2>2, <2>4, <3>1
    <3>3. ASSUME NEW k \in 1..Len(r)
          PROVE  \E i \in 1..(n + 1) : i \in places /\ r[k] = seq[i]
      <4>1. CASE k = Len(q) + 1
        BY <2>1, <2>6, <3>2, <4>1
      <4>2. CASE k \in 1..Len(q)
        <5>1. PICK i \in 1..n : i \in places /\ q[k] = seq[i]
          BY <2>2, <4>2
        <5>2. i \in 1..(n + 1) /\ r[k] = seq[i]
          BY <2>1, <3>2, <4>2, <5>1
        <5> QED  BY <5>1, <5>2
      <4> QED  BY <3>2, <4>1, <4>2
    <3>4. \A k \in 1..Len(q) : q[k] # seq[n + 1]
      <4> SUFFICES ASSUME NEW k \in 1..Len(q) PROVE q[k] # seq[n + 1]
        OBVIOUS
      <4>1. PICK i \in 1..n : i \in places /\ q[k] = seq[i]
        BY <2>2
      <4>2. i \in 1..N /\ i # n + 1
        BY <1>2, <2>1
      <4> QED  BY <1>3, <2>1, <2>6, <4>1, <4>2
    <3>5. ASSUME NEW k \in 1..Len(r), NEW l \in 1..Len(r), k # l
          PROVE  r[k] # r[l]
      <4>1. CASE k \in 1..Len(q) /\ l \in 1..Len(q)
        BY <2>2, <3>2, <3>5, <4>1
      <4>2. CASE k = Len(q) + 1
        <5>1. l \in 1..Len(q)
          BY <3>2, <3>5, <4>2
        <5> QED  BY <3>2, <3>4, <4>2, <5>1
      <4>3. CASE l = Len(q) + 1
        <5>1. k \in 1..Len(q)
          BY <3>2, <3>5, <4>3
        <5> QED  BY <3>2, <3>4, <4>3, <5>1
      <4> QED  BY <3>2, <4>1, <4>2, <4>3
    <3>6. Holds(r, n + 1)
      BY <3>3, <3>5
    <3> QED  BY <2>7, <3>6
  <2> QED  BY <2>5, <2>6
<1>6. N \in J
  <2> HIDE DEF J
  <2>1. \A n \in 0..N : n \in J /\ n < N => n + 1 \in J
    BY <1>5
  <2>2. \A n \in 0..N : n \in J
    BY <1>2, <1>4, <2>1, Counting
  <2> QED  BY <1>2, <2>2
<1> DEFINE picked == Picked(seq, places)
<1>7. Holds(picked, N)
  BY <1>1, <1>2, <1>6
<1>8. picked \in Seq(S)
  BY PickedElements
<1> HIDE DEF picked
<1>9. \A k, l \in DOMAIN picked : k # l => picked[k] # picked[l]
  BY <1>7, <1>8
<1> QED  BY <1>9 DEF picked
(* All of a sequence picked is the sequence.                                  *)
LEMMA PickedAll ==
  ASSUME NEW S, NEW seq \in Seq(S), NEW places, DOMAIN seq \subseteq places
  PROVE  Picked(seq, places) = seq
<1> DEFINE N == Len(seq)
           Holds(q, n) == Len(q) = n /\ \A i \in 1..n : q[i] = seq[i]
<1>0. PICK upto \in [0..Len(seq) -> Seq(S)] : Collects(upto, seq, places)
  BY PickedRun
<1>1. /\ upto \in [0..N -> Seq(S)] /\ upto[0] = <<>>
      /\ \A n \in 1..N : upto[n] = Append(upto[n - 1], seq[n])
      /\ Picked(seq, places) = upto[N]
  <2>1. \A n \in 1..N : n \in places
    OBVIOUS
  <2> QED  BY <1>0, <2>1 DEF Collects
<1>2. N \in Nat /\ \A i \in 1..N : seq[i] \in S
  OBVIOUS
<1> DEFINE J == {n \in 0..N : Holds(upto[n], n)}
<1>3. 0 \in J
  BY <1>1, <1>2
<1>4. ASSUME NEW n \in 0..N, n \in J, n < N
      PROVE  n + 1 \in J
  <2>0. n + 1 \in 1..N /\ (n + 1) - 1 = n /\ n + 1 \in 0..N
    BY <1>2, <1>4
  <2>1. upto[n] \in Seq(S) /\ seq[n + 1] \in S
    BY <1>1, <1>2, <2>0
  <2>2. upto[n + 1] = Append(upto[n], seq[n + 1]) /\ Holds(upto[n], n)
    BY <1>1, <1>4, <2>0
  <2>3. Holds(upto[n + 1], n + 1)
    BY <2>0, <2>1, <2>2
  <2> HIDE DEF Holds
  <2> QED  BY <2>0, <2>3
<1>5. Holds(upto[N], N)
  <2>1. \A n \in 0..N : n \in J /\ n < N => n + 1 \in J
    BY <1>4
  <2> HIDE DEF J, Holds
  <2>2. \A n \in 0..N : n \in J
    BY <1>2, <1>3, <2>1, Counting
  <2> QED  BY <1>2, <2>2 DEF J
<1>6. upto[N] \in Seq(S)
  BY <1>1, <1>2
<1>7. upto[N] = seq
  <2> DEFINE r == upto[N]
  <2>1. r \in Seq(S) /\ Len(r) = Len(seq) /\ \A i \in 1..Len(r) : r[i] = seq[i]
    BY <1>5, <1>6
  <2> HIDE DEF r
  <2>2. r = seq
    BY <2>1, SeqEqual
  <2> QED  BY <2>2 DEF r
<1> QED  BY <1>1, <1>7

-----------------------------------------------------------------------------
(* Sequences of elements of their own, and what is made of them               *)
IsSeq(q) == q \in Seq(ToSet(q))

LEMMA SeqIsSeq ==
  ASSUME NEW S, NEW q \in Seq(S)
  PROVE  /\ IsSeq(q) /\ Len(q) \in Nat /\ DOMAIN q = 1..Len(q)
         /\ \A i \in DOMAIN q : q[i] \in S
<1>1. Len(q) \in Nat /\ DOMAIN q = 1..Len(q) /\ \A i \in DOMAIN q : q[i] \in S
  OBVIOUS
<1>2. q \in Seq(ToSet(q))
  <2>1. \A i \in 1..Len(q) : q[i] \in ToSet(q)
    BY <1>1 DEF ToSet
  <2>2. q = [i \in 1..Len(q) |-> q[i]]
    OBVIOUS
  <2> DEFINE T == ToSet(q)
             n == Len(q)
  <2>3. n \in Nat /\ \A i \in 1..n : q[i] \in T
    BY <1>1, <2>1
  <2> HIDE DEF T, n
  <2>4. [i \in 1..n |-> q[i]] \in Seq(T)
    BY <2>3
  <2> QED  BY <2>2, <2>4 DEF T, n
<1> QED  BY <1>1, <1>2 DEF IsSeq

(* What the set of its elements says of such a sequence.                      *)
LEMMA SeqShape ==
  ASSUME NEW q, IsSeq(q)
  PROVE  Len(q) \in Nat /\ DOMAIN q = 1..Len(q)
BY DEF IsSeq

LEMMA SeqElements ==
  ASSUME NEW q, IsSeq(q), NEW S, \A i \in DOMAIN q : q[i] \in S
  PROVE  q \in Seq(S)
<1>1. ToSet(q) \subseteq S
  BY DEF ToSet
<1> DEFINE T == ToSet(q)
<1> HIDE DEF T
<1> QED  BY <1>1 DEF IsSeq, T

(* Every function on 1..n is one.                                             *)
LEMMA SeqMade ==
  ASSUME NEW n \in Nat, NEW f, f = [i \in 1..n |-> f[i]]
  PROVE  IsSeq(f) /\ Len(f) = n /\ DOMAIN f = 1..n
<1> DEFINE T == {f[i] : i \in 1..n}
<1>1. \A i \in 1..n : f[i] \in T
  OBVIOUS
<1> HIDE DEF T
<1>2. [i \in 1..n |-> f[i]] \in Seq(T) /\ Len([i \in 1..n |-> f[i]]) = n
  BY <1>1
<1> QED  BY <1>2, SeqIsSeq

(* Appending, replacing and removing an element.                              *)
LEMMA SeqExtended ==
  ASSUME NEW q, IsSeq(q), NEW x
  PROVE  /\ IsSeq(Append(q, x)) /\ Len(Append(q, x)) = Len(q) + 1
         /\ Append(q, x)[Len(q) + 1] = x
         /\ \A i \in DOMAIN q : Append(q, x)[i] = q[i]
         /\ \A i \in DOMAIN Append(q, x) : i \in DOMAIN q \/ i = Len(q) + 1
<1> DEFINE T == ToSet(q) \cup {x}
<1>1. q \in Seq(T) /\ x \in T
  <2>1. \A i \in DOMAIN q : q[i] \in T
    BY DEF ToSet
  <2> HIDE DEF T
  <2>2. q \in Seq(T)
    BY <2>1, SeqElements
  <2> QED  BY <2>2 DEF T
<1> HIDE DEF T
<1>2. Append(q, x) \in Seq(T)
  BY <1>1
<1>3. IsSeq(Append(q, x))
  BY <1>2, SeqIsSeq
<1> QED  BY <1>1, <1>2, <1>3

LEMMA SeqReplaced ==
  ASSUME NEW q, IsSeq(q), NEW n \in DOMAIN q, NEW x
  PROVE  /\ IsSeq([q EXCEPT ![n] = x]) /\ Len([q EXCEPT ![n] = x]) = Len(q)
         /\ DOMAIN [q EXCEPT ![n] = x] = DOMAIN q
         /\ \A i \in DOMAIN q : [q EXCEPT ![n] = x][i] = IF i = n THEN x ELSE q[i]
<1> DEFINE r == [q EXCEPT ![n] = x]
<1>1. DOMAIN q = 1..Len(q) /\ Len(q) \in Nat
  BY SeqShape
<1>2. r = [i \in 1..Len(q) |-> r[i]] /\ \A i \in DOMAIN q : r[i] = IF i = n THEN x ELSE q[i]
  BY <1>1
<1> HIDE DEF r
<1>3. IsSeq(r) /\ Len(r) = Len(q) /\ DOMAIN r = 1..Len(q)
  BY <1>1, <1>2, SeqMade
<1> QED  BY <1>1, <1>2, <1>3 DEF r

LEMMA SeqShortened ==
  ASSUME NEW q, IsSeq(q), NEW n \in DOMAIN q
  PROVE  /\ IsSeq(RemoveAt(q, n)) /\ Len(RemoveAt(q, n)) = Len(q) - 1
         /\ \A i \in DOMAIN RemoveAt(q, n) :
               RemoveAt(q, n)[i] = IF i < n THEN q[i] ELSE q[i + 1]
<1> DEFINE T == ToSet(q)
<1>1. q \in Seq(T)
  BY DEF IsSeq
<1> HIDE DEF T
<1>2. Len(q) \in Nat /\ DOMAIN q = 1..Len(q) /\ n \in 1..Len(q)
  BY <1>1
<1> DEFINE a == SubSeq(q, 1, n - 1)
           b == SubSeq(q, n + 1, Len(q))
<1>3. a \in Seq(T) /\ Len(a) = n - 1 /\ \A i \in 1..(n - 1) : a[i] = q[i]
  <2>1. \A i \in 1..(n - 1) : q[i] \in T
    BY <1>1, <1>2
  <2>2. n - 1 \in Int /\ (1 <= n - 1 => (n - 1) - 1 + 1 = n - 1) /\ (~(1 <= n - 1) => n - 1 = 0)
    BY <1>2
  <2> QED  BY <2>1, <2>2, SubSeqProperties
<1>4. b \in Seq(T) /\ Len(b) = Len(q) - n /\ \A i \in 1..(Len(q) - n) : b[i] = q[n + i]
  BY <1>1, <1>2
<1>5. RemoveAt(q, n) = a \o b
  BY DEF RemoveAt
<1> HIDE DEF a, b
<1>6. /\ a \o b \in Seq(T) /\ Len(a \o b) = Len(q) - 1
      /\ \A i \in 1..(Len(q) - 1) : (a \o b)[i] = IF i <= n - 1 THEN a[i] ELSE b[i - (n - 1)]
  <2>1. Len(a) + Len(b) = Len(q) - 1
    BY <1>2, <1>3, <1>4
  <2>2. /\ a \o b \in Seq(T) /\ Len(a \o b) = Len(a) + Len(b)
        /\ \A i \in 1..(Len(a) + Len(b)) :
              (a \o b)[i] = IF i <= Len(a) THEN a[i] ELSE b[i - Len(a)]
    BY <1>3, <1>4, ConcatProperties
  <2>3. Len(a) = n - 1
    BY <1>3
  <2> QED  BY ONLY <2>1, <2>2, <2>3
<1>7. \A i \in 1..(Len(q) - 1) : (a \o b)[i] = IF i < n THEN q[i] ELSE q[i + 1]
  <2> SUFFICES ASSUME NEW i \in 1..(Len(q) - 1)
               PROVE  (a \o b)[i] = IF i < n THEN q[i] ELSE q[i + 1]
    OBVIOUS
  <2>1. CASE i < n
    <3>1. i \in 1..(n - 1) /\ i <= n - 1
      BY <1>2, <2>1
    <3> QED  BY <1>3, <1>6, <2>1, <3>1
  <2>2. CASE ~(i < n)
    <3>1. i - (n - 1) \in 1..(Len(q) - n) /\ ~(i <= n - 1) /\ n + (i - (n - 1)) = i + 1
      BY <1>2, <2>2
    <3> QED  BY <1>4, <1>6, <2>2, <3>1
  <2> QED  BY <2>1, <2>2
<1>8. IsSeq(a \o b)
  BY <1>6, SeqIsSeq
<1>9. DOMAIN (a \o b) = 1..(Len(q) - 1)
  BY <1>6
<1> QED  BY <1>5, <1>6, <1>7, <1>8, <1>9

(* r is p followed by q.                                                      *)
Joins(r, p, q) ==
    /\ IsSeq(r) /\ DOMAIN p \subseteq DOMAIN r
    /\ \A i \in DOMAIN p : r[i] = p[i]
    /\ \A i \in DOMAIN q : Len(p) + i \in DOMAIN r /\ r[Len(p) + i] = q[i]
    /\ \A i \in DOMAIN r : i \in DOMAIN p \/ (i - Len(p) \in DOMAIN q /\ r[i] = q[i - Len(p)])

LEMMA SeqJoined ==
  ASSUME NEW p, IsSeq(p), NEW q, IsSeq(q)
  PROVE  Joins(p \o q, p, q)
<1> DEFINE T == ToSet(p) \cup ToSet(q)
<1>1. p \in Seq(T) /\ q \in Seq(T)
  <2>1. \A i \in DOMAIN p : p[i] \in T
    BY DEF ToSet
  <2>2. \A i \in DOMAIN q : q[i] \in T
    BY DEF ToSet
  <2> HIDE DEF T
  <2> QED  BY <2>1, <2>2, SeqElements
<1> HIDE DEF T
<1>2. p \o q \in Seq(T)
  BY <1>1
<1>3. IsSeq(p \o q)
  BY <1>2, SeqIsSeq
<1>4. /\ Len(p) \in Nat /\ Len(q) \in Nat /\ Len(p \o q) = Len(p) + Len(q)
      /\ DOMAIN p = 1..Len(p) /\ DOMAIN q = 1..Len(q) /\ DOMAIN (p \o q) = 1..(Len(p) + Len(q))
      /\ \A i \in 1..(Len(p) + Len(q)) :
            (p \o q)[i] = IF i <= Len(p) THEN p[i] ELSE q[i - Len(p)]
  BY <1>1, <1>2
<1>5. \A i \in DOMAIN q : Len(p) + i \in DOMAIN (p \o q) /\ (p \o q)[Len(p) + i] = q[i]
  BY <1>4
<1>6. \A i \in DOMAIN (p \o q) :
        i \in DOMAIN p \/ (i - Len(p) \in DOMAIN q /\ (p \o q)[i] = q[i - Len(p)])
  BY <1>4
<1>7. DOMAIN p \subseteq DOMAIN (p \o q)
  BY <1>4
<1>8. \A i \in DOMAIN p : (p \o q)[i] = p[i]
  BY <1>4
<1> QED  BY <1>3, <1>5, <1>6, <1>7, <1>8 DEF Joins

LEMMA EmptyIsSeq == IsSeq(<<>>) /\ DOMAIN <<>> = {} /\ Len(<<>>) = 0
<1> DEFINE q == <<>>
<1>1. q \in Seq({}) /\ Len(q) = 0
  OBVIOUS
<1> HIDE DEF q
<1>2. IsSeq(q) /\ DOMAIN q = 1..0
  BY <1>1, SeqIsSeq
<1> QED  BY <1>1, <1>2 DEF q

-----------------------------------------------------------------------------
(* THE TAB: streams, the job shown, and the slots of a batch                  *)

Snapshots == Versions \cup {None, Gone}
Sub == [job : Jobs, closed : BOOLEAN, phase : Phases, snap : Snapshots,
        chan : Seq(Snapshots), mounted : BOOLEAN]

ServerOK == server \in [Jobs -> Snapshots]
SubsOK == subs \in Seq(Sub)
JobOK == job \in Jobs \cup {None}

(* A subscription is closed as soon as its page is left or shows another job; *)
(* a closed one has no connection, and the page's own one is for its job.     *)
LeftIsClosed == \A s \in DOMAIN subs : ~Alive(s) => subs[s].closed
ClosedIsOver == \A s \in DOMAIN subs : subs[s].closed => ~Live(subs[s].phase)
OwnIsLast == job # None => Current \in DOMAIN subs /\ subs[Current].job = job
StreamInv == ServerOK /\ SubsOK /\ JobOK /\ LeftIsClosed /\ ClosedIsOver /\ OwnIsLast

(* A page's first request is dropped with its page: what is in flight is for  *)
(* the page on screen, or a refetch.                                          *)
GetsOK == \A g \in gets :
    /\ g = [kind |-> g.kind, sub |-> g.sub, v |-> g.v, n |-> g.n]
    /\ g.sub \in DOMAIN subs
    /\ g.kind = "first" => Alive(g.sub)
    /\ g.kind # "first" => g.kind = "refetch"

-----------------------------------------------------------------------------
(* The streams                                                                *)

LEMMA ClosingASub ==
  ASSUME NEW sub \in Sub
  PROVE  /\ Closed(sub) \in Sub
         /\ Closed(sub).closed
         /\ ~Live(Closed(sub).phase)
         /\ Closed(sub).job = sub.job
<1>1. <<>> \in Seq(Snapshots)
  OBVIOUS
<1> DEFINE after == IF Live(sub.phase) THEN "over" ELSE sub.phase
<1>2. after \in Phases /\ ~Live(after)
  BY DEF Sub, Live, Phases
<1>3. Closed(sub) = [sub EXCEPT !.closed = TRUE, !.phase = after, !.chan = <<>>]
  BY DEF Closed, Sub
<1> HIDE DEF after
<1> QED BY <1>1, <1>2, <1>3 DEF Sub

LEMMA FreshSub ==
  ASSUME NEW j \in Jobs
  PROVE  /\ Subscription(j) \in Sub
         /\ Subscription(j).job = j
         /\ ~Subscription(j).closed
BY DEF Subscription, Sub, Snapshots, Phases

(* A page that opens closes the stream of the job it showed before, and       *)
(* subscribes to its own.                                                     *)
LEMMA OpeningSubs ==
  ASSUME StreamInv, NEW j \in Jobs
  PROVE  /\ OpenedSubs(j) \in Seq(Sub)
         /\ Len(OpenedSubs(j)) = Len(subs) + 1
         /\ OpenedSubs(j)[Len(subs) + 1] = Subscription(j)
         /\ \A s \in DOMAIN subs :
              OpenedSubs(j)[s] = IF s = Current /\ job # None THEN Closed(subs[s]) ELSE subs[s]
<1> DEFINE kept == IF job = None THEN subs ELSE [subs EXCEPT ![Current] = Closed(@)]
<1>1. kept \in Seq(Sub) /\ Len(kept) = Len(subs)
  <2>1. CASE job = None
    BY <2>1 DEF StreamInv, SubsOK
  <2>2. CASE job # None
    <3>1. subs \in Seq(Sub) /\ Current \in DOMAIN subs
      BY <2>2 DEF StreamInv, SubsOK, OwnIsLast
    <3>2. subs[Current] \in Sub
      BY <3>1
    <3>3. Closed(subs[Current]) \in Sub
      BY <3>2, ClosingASub
    <3>4. kept = [subs EXCEPT ![Current] = Closed(subs[Current])]
      BY <2>2
    <3> HIDE DEF kept
    <3> QED BY <3>1, <3>3, <3>4
  <2> QED BY <2>1, <2>2
<1>2. OpenedSubs(j) = Append(kept, Subscription(j))
  BY DEF OpenedSubs
<1>3. subs \in Seq(Sub)
  BY DEF StreamInv, SubsOK
<1>4. \A s \in DOMAIN subs :
        kept[s] = IF s = Current /\ job # None THEN Closed(subs[s]) ELSE subs[s]
  BY <1>3
<1> HIDE DEF kept
<1> QED BY <1>1, <1>2, <1>3, <1>4, FreshSub

LEMMA OpenKeepsStreams ==
  ASSUME StreamInv, NEW j \in Jobs, OpenJob(j)
  PROVE  StreamInv'
<1>1. /\ job' = j /\ subs' = OpenedSubs(j) /\ server' = server
  BY DEF OpenJob, sharedVars
<1>2. j # None
  BY JobsAssumption
<1>3. subs \in Seq(Sub) /\ subs' \in Seq(Sub) /\ Len(subs') = Len(subs) + 1
  BY <1>1, OpeningSubs DEF StreamInv, SubsOK
<1>4. Current' = Len(subs) + 1 /\ subs'[Current'].job = j
  BY <1>1, <1>3, OpeningSubs, FreshSub DEF Current
<1>5. ASSUME NEW s \in DOMAIN subs', s # Current'
      PROVE  subs'[s].closed /\ ~Live(subs'[s].phase)
  <2>1. s \in DOMAIN subs /\ subs[s] \in Sub
    BY <1>3, <1>4, <1>5
  <2>2. CASE s = Current /\ job # None
    BY <1>1, <2>1, <2>2, OpeningSubs, ClosingASub
  <2>3. CASE ~(s = Current /\ job # None)
    BY <1>1, <2>1, <2>3, OpeningSubs DEF StreamInv, LeftIsClosed, ClosedIsOver, Alive
  <2> QED BY <2>2, <2>3
<1>6. ~subs'[Current'].closed
  BY <1>1, <1>4, OpeningSubs, FreshSub
<1>7. LeftIsClosed' /\ ClosedIsOver'
  BY <1>1, <1>2, <1>5, <1>6 DEF LeftIsClosed, ClosedIsOver, Alive
<1>8. OwnIsLast'
  BY <1>1, <1>3, <1>4 DEF OwnIsLast
<1> QED BY <1>1, <1>3, <1>7, <1>8 DEF StreamInv, ServerOK, SubsOK, JobOK

LEMMA CloseKeepsStreams ==
  ASSUME StreamInv, CloseJob
  PROVE  StreamInv'
<1> DEFINE left(s) == [(IF s = Current THEN Closed(subs[s]) ELSE subs[s]) EXCEPT !.mounted = FALSE]
<1>1. /\ job # None /\ job' = None /\ server' = server
      /\ subs' = [s \in DOMAIN subs |-> left(s)]
  BY DEF CloseJob, sharedVars
<1>2. subs \in Seq(Sub)
  BY DEF StreamInv, SubsOK
<1>3. ASSUME NEW s \in DOMAIN subs
      PROVE  left(s) \in Sub /\ left(s).closed /\ ~Live(left(s).phase)
  <2>1. subs[s] \in Sub
    BY <1>2
  <2>2. CASE s = Current
    <3>1. Closed(subs[s]) \in Sub /\ Closed(subs[s]).closed /\ ~Live(Closed(subs[s]).phase)
      BY <2>1, ClosingASub
    <3> QED BY <2>2, <3>1 DEF Sub
  <2>3. CASE s # Current
    <3>1. subs[s].closed /\ ~Live(subs[s].phase)
      BY <2>3 DEF StreamInv, LeftIsClosed, ClosedIsOver, Alive
    <3> QED BY <2>1, <2>3, <3>1 DEF Sub
  <2> QED BY <2>2, <2>3
<1> HIDE DEF left
<1>4. subs' \in Seq(Sub) /\ DOMAIN subs' = DOMAIN subs
  BY <1>1, <1>2, <1>3
<1>5. LeftIsClosed' /\ ClosedIsOver'
  BY <1>1, <1>3, <1>4 DEF LeftIsClosed, ClosedIsOver
<1> QED BY <1>1, <1>4, <1>5 DEF StreamInv, ServerOK, SubsOK, JobOK, OwnIsLast

(* A step that moves one stream on, and connects none that is closed.         *)
LEMMA MovingASub ==
  ASSUME StreamInv, NEW s \in DOMAIN subs, NEW sub \in Sub,
         subs' = [subs EXCEPT ![s] = sub], job' = job, server' = server,
         sub.job = subs[s].job, sub.closed = subs[s].closed,
         sub.closed => ~Live(sub.phase)
  PROVE  StreamInv'
<1>1. subs \in Seq(Sub)
  BY DEF StreamInv, SubsOK
<1>2. subs' \in Seq(Sub) /\ DOMAIN subs' = DOMAIN subs /\ Len(subs') = Len(subs)
  BY <1>1
<1>3. \A t \in DOMAIN subs : subs'[t] = IF t = s THEN sub ELSE subs[t]
  BY <1>1
<1>4. \A t \in DOMAIN subs : subs'[t].job = subs[t].job /\ subs'[t].closed = subs[t].closed
  BY <1>3
<1>5. LeftIsClosed'
  BY <1>2, <1>4 DEF StreamInv, LeftIsClosed, Alive, Current
<1>6. ClosedIsOver'
  BY <1>2, <1>3 DEF StreamInv, ClosedIsOver
<1>7. OwnIsLast'
  BY <1>2, <1>4 DEF StreamInv, OwnIsLast, Current
<1> QED BY <1>2, <1>5, <1>6, <1>7 DEF StreamInv, ServerOK, SubsOK, JobOK

(* The steps of the page, its streams and its requests.                       *)
LEMMA PageKeepsStreams ==
  ASSUME StreamInv, JobPageStep
  PROVE  StreamInv'
<1>0. /\ subs \in Seq(Sub) /\ server \in [Jobs -> Snapshots]
      /\ \A s \in DOMAIN subs : subs[s] \in Sub /\ subs[s].job \in Jobs
  <2>1. subs \in Seq(Sub) /\ server \in [Jobs -> Snapshots]
    BY DEF StreamInv, SubsOK, ServerOK
  <2>2. \A s \in DOMAIN subs : subs[s] \in Sub
    BY <2>1
  <2> QED BY <2>1, <2>2 DEF Sub
<1>1. CASE StreamRead
  <2>1. PICK s \in DOMAIN subs :
          /\ subs[s].phase = "connecting"
          /\ subs' = [subs EXCEPT ![s].phase = "read", ![s].snap = server[subs[s].job]]
          /\ job' = job /\ server' = server
    BY <1>1 DEF StreamRead, sharedVars
  <2> DEFINE sub == [subs[s] EXCEPT !.phase = "read", !.snap = server[subs[s].job]]
  <2>2. subs' = [subs EXCEPT ![s] = sub]
    BY <1>0, <2>1
  <2>3. ~subs[s].closed
    BY <2>1 DEF StreamInv, ClosedIsOver, Live
  <2>4. /\ sub \in Sub /\ sub.job = subs[s].job /\ sub.closed = subs[s].closed
    BY <1>0 DEF Sub, Phases
  <2> QED BY <2>1, <2>2, <2>3, <2>4, MovingASub
<1>2. CASE StreamOpens
  <2>1. PICK s \in DOMAIN subs :
          /\ subs[s].phase = "read"
          /\ subs' = [subs EXCEPT ![s].phase = "open", ![s].snap = None,
                                  ![s].chan = <<subs[s].snap>>]
          /\ job' = job /\ server' = server
    BY <1>2 DEF StreamOpens, sharedVars
  <2> DEFINE sub == [subs[s] EXCEPT !.phase = "open", !.snap = None, !.chan = <<subs[s].snap>>]
  <2>2. subs' = [subs EXCEPT ![s] = sub]
    BY <1>0, <2>1
  <2>3. ~subs[s].closed
    BY <2>1 DEF StreamInv, ClosedIsOver, Live
  <2>4. <<subs[s].snap>> \in Seq(Snapshots) /\ None \in Snapshots
    BY <1>0 DEF Sub, Snapshots
  <2>5. /\ sub \in Sub /\ sub.job = subs[s].job /\ sub.closed = subs[s].closed
    BY <1>0, <2>4 DEF Sub, Phases
  <2> QED BY <2>1, <2>2, <2>3, <2>5, MovingASub
<1>3. CASE StreamFails
  <2>1. PICK s \in DOMAIN subs :
          subs' = [subs EXCEPT ![s] = Dropped(@)] /\ job' = job /\ server' = server
    BY <1>3 DEF StreamFails
  <2>2. subs' = [subs EXCEPT ![s] = Dropped(subs[s])]
    BY <1>0, <2>1
  <2>3. /\ Dropped(subs[s]) \in Sub
        /\ Dropped(subs[s]).job = subs[s].job /\ Dropped(subs[s]).closed = subs[s].closed
        /\ ~Live(Dropped(subs[s]).phase)
    <3>1. <<>> \in Seq(Snapshots) /\ None \in Snapshots /\ "waiting" \in Phases
      BY DEF Snapshots, Phases
    <3>2. subs[s] \in Sub
      BY <1>0
    <3> QED BY <3>1, <3>2 DEF Dropped, Sub, Live
  <2> QED BY <2>1, <2>2, <2>3, MovingASub
<1>4. CASE TimerFires
  <2>1. PICK s \in DOMAIN subs :
          /\ subs' = [subs EXCEPT ![s].phase = IF subs[s].closed THEN "over" ELSE "connecting"]
          /\ job' = job /\ server' = server
    BY <1>4 DEF TimerFires, sharedVars
  <2> DEFINE sub == [subs[s] EXCEPT !.phase = IF subs[s].closed THEN "over" ELSE "connecting"]
  <2>2. subs' = [subs EXCEPT ![s] = sub]
    BY <1>0, <2>1
  <2>3. /\ sub \in Sub /\ sub.job = subs[s].job /\ sub.closed = subs[s].closed
        /\ sub.closed => ~Live(sub.phase)
    BY <1>0 DEF Sub, Phases, Live
  <2> QED BY <2>1, <2>2, <2>3, MovingASub
<1>5. CASE Deliver
  <2>1. PICK s \in DOMAIN subs :
          /\ subs[s].phase = "open" /\ subs[s].chan # <<>>
          /\ subs' = [subs EXCEPT ![s].chan = Tail(@)]
          /\ job' = job /\ server' = server
    BY <1>5 DEF Deliver, sharedVars
  <2> DEFINE sub == [subs[s] EXCEPT !.chan = Tail(subs[s].chan)]
  <2>2. subs' = [subs EXCEPT ![s] = sub]
    BY <1>0, <2>1
  <2>3. ~subs[s].closed
    BY <2>1 DEF StreamInv, ClosedIsOver, Live
  <2>4. Tail(subs[s].chan) \in Seq(Snapshots)
    BY <1>0, <2>1 DEF Sub
  <2>5. /\ sub \in Sub /\ sub.job = subs[s].job /\ sub.closed = subs[s].closed
    BY <1>0, <2>4 DEF Sub
  <2> QED BY <2>1, <2>2, <2>3, <2>5, MovingASub
<1>6. CASE PollState \/ Serve \/ Arrives \/ GetFails
  <2>1. job' = job /\ subs' = subs /\ server' = server
    BY <1>6 DEF PollState, Serve, Arrives, GetFails, sharedVars
  <2> QED BY <2>1 DEF StreamInv, ServerOK, SubsOK, JobOK, LeftIsClosed, ClosedIsOver,
                      OwnIsLast, Alive, Current
<1> QED BY <1>1, <1>2, <1>3, <1>4, <1>5, <1>6 DEF JobPageStep

(* A change of a job only puts an update into the open streams.               *)
LEMMA ChangeKeepsStreams ==
  ASSUME StreamInv, NEW j \in Jobs, Change(j)
  PROVE  StreamInv'
<1> DEFINE notified(s) == IF subs[s].job = j /\ subs[s].phase = "open"
                          THEN [subs[s] EXCEPT !.chan = Append(@, None)] ELSE subs[s]
<1>1. /\ subs' = [s \in DOMAIN subs |-> notified(s)] /\ job' = job
      /\ server' = [server EXCEPT ![j] = @ + 1] /\ server[j] \in 0..(LastVersion - 1)
  BY DEF Change
<1>2. subs \in Seq(Sub) /\ server \in [Jobs -> Snapshots] /\ LastVersion \in Nat
  BY JobsAssumption DEF StreamInv, SubsOK, ServerOK
<1>3. ServerOK'
  BY <1>1, <1>2 DEF ServerOK, Snapshots, Versions
<1>4. ASSUME NEW s \in DOMAIN subs
      PROVE  /\ notified(s) \in Sub /\ notified(s).job = subs[s].job
             /\ notified(s).closed = subs[s].closed /\ notified(s).phase = subs[s].phase
  <2>1. subs[s] \in Sub
    BY <1>2
  <2>2. Append(subs[s].chan, None) \in Seq(Snapshots)
    BY <2>1 DEF Sub, Snapshots
  <2> QED BY <2>1, <2>2 DEF Sub
<1> HIDE DEF notified
<1>5. subs' \in Seq(Sub) /\ DOMAIN subs' = DOMAIN subs /\ Len(subs') = Len(subs)
  BY <1>1, <1>2, <1>4
<1>6. LeftIsClosed' /\ ClosedIsOver'
  BY <1>1, <1>4, <1>5 DEF StreamInv, LeftIsClosed, ClosedIsOver, Alive, Current
<1>7. OwnIsLast'
  BY <1>1, <1>4, <1>5 DEF StreamInv, OwnIsLast, Current
<1> QED BY <1>1, <1>3, <1>5, <1>6, <1>7 DEF StreamInv, SubsOK, JobOK

(* Where the subscriptions, the job shown and the server's jobs stay as they  *)
(* are, so does the invariant.                                                *)
LEMMA StreamsStay ==
  ASSUME StreamInv, subs' = subs, job' = job, ServerOK'
  PROVE  StreamInv'
BY DEF StreamInv, SubsOK, JobOK, LeftIsClosed, ClosedIsOver, OwnIsLast, Alive, Current

LEMMA RemovingAJob ==
  ASSUME ServerOK, CleanUp
  PROVE  ServerOK'
BY DEF CleanUp, ServerOK, Snapshots, Created

LEMMA CreatingAJob ==
  ASSUME ServerOK, BatchStep
  PROVE  ServerOK'
<1>1. CASE ServePost
  <2> DEFINE j == CHOOSE k \in Jobs \ Created : TRUE
  <2>1. Created # Jobs /\ server' = [server EXCEPT ![j] = 0]
    BY <1>1 DEF ServePost
  <2>2. LastVersion \in Nat
    BY JobsAssumption
  <2>3. 0 \in Snapshots
    BY <2>2 DEF Snapshots, Versions
  <2> HIDE DEF j
  <2> QED BY <2>1, <2>3 DEF ServerOK
<1>2. CASE ~ServePost
  <2>1. server' = server
    BY <1>2 DEF BatchStep, SelectName, FetchArrives, ChooseInline, InlineRead, Submit,
                PostSucceeds, PostFails, AskPoll, PollArrives, PollFails, RemoveListed,
                sharedVars
  <2> QED BY <2>1 DEF ServerOK
<1> QED BY <1>1, <1>2

LEMMA StreamsInit ==
  ASSUME Init
  PROVE  StreamInv
<1>1. server \in [Jobs -> Snapshots]
  BY JobsAssumption DEF Init, Snapshots, Versions
<1>2. subs = <<>> /\ job = None
  BY DEF Init, JobPageInit
<1>3. subs \in Seq(Sub) /\ DOMAIN subs = {}
  BY <1>2
<1> QED BY <1>1, <1>2, <1>3 DEF StreamInv, ServerOK, SubsOK, JobOK, LeftIsClosed,
                               ClosedIsOver, OwnIsLast

LEMMA StreamsStep ==
  ASSUME StreamInv, [Next]_vars
  PROVE  StreamInv'
<1>0. ServerOK
  BY DEF StreamInv
<1>1. CASE ShowJob
  <2>1. PICK j \in Created : OpenJob(j)
    BY <1>1 DEF ShowJob
  <2>2. j \in Jobs
    BY DEF Created
  <2> QED BY <2>1, <2>2, OpenKeepsStreams
<1>2. CASE ShowBatch
  BY <1>0, <1>2, StreamsStay DEF ShowBatch, OpenBatch, jobPageVars, sharedVars, ServerOK
<1>3. CASE ShowOther
  <2>1. CASE CloseJob
    BY <2>1, CloseKeepsStreams
  <2>2. CASE LeaveBatch /\ UNCHANGED jobPageVars
    BY <1>0, <2>2, StreamsStay DEF LeaveBatch, jobPageVars, sharedVars, ServerOK
  <2> QED BY <1>3, <2>1, <2>2 DEF ShowOther
<1>4. CASE RemoveElsewhere
  BY <1>0, <1>4, StreamsStay DEF RemoveElsewhere, jobPageVars, ServerOK
<1>5. CASE Progress
  <2>1. PICK j \in Created : Change(j)
    BY <1>5 DEF Progress
  <2>2. j \in Jobs
    BY DEF Created
  <2> QED BY <2>1, <2>2, ChangeKeepsStreams
<1>6. CASE CleanUp
  BY <1>0, <1>6, StreamsStay, RemovingAJob DEF CleanUp, jobPageVars
<1>7. CASE JobPageStep /\ UNCHANGED <<visits, batchVars>>
  BY <1>7, PageKeepsStreams
<1>8. CASE BatchStep /\ UNCHANGED <<visits, jobPageVars>>
  BY <1>0, <1>8, StreamsStay, CreatingAJob DEF jobPageVars
<1>9. CASE UNCHANGED vars
  BY <1>0, <1>9, StreamsStay DEF vars, jobPageVars, sharedVars, ServerOK
<1> QED BY <1>1, <1>2, <1>3, <1>4, <1>5, <1>6, <1>7, <1>8, <1>9 DEF Next

(* However pages are opened and left while connections break and timers are   *)
(* armed, a connection belongs to the page on screen and to its job.          *)
THEOREM StreamsAreOwn == Spec => []OnlyOwnStream
<1>1. Init => StreamInv
  BY StreamsInit
<1>2. StreamInv /\ [Next]_vars => StreamInv'
  BY StreamsStep
<1>3. StreamInv => OnlyOwnStream
  BY DEF StreamInv, LeftIsClosed, ClosedIsOver, OwnIsLast, OnlyOwnStream, Alive
<1> QED BY <1>1, <1>2, <1>3, PTL DEF Spec

-----------------------------------------------------------------------------
(* The snapshot shown                                                         *)

LEMMA PageShowsItsJob ==
  ASSUME StreamInv, GetsOK, ShownIsOfThisJob, JobPageStep
  PROVE  GetsOK' /\ ShownIsOfThisJob'
<1>0. /\ \A s \in DOMAIN subs : Live(subs[s].phase) => Alive(s) /\ subs[s].job = job
      /\ \A s : Alive(s) => subs[s].job = job
      /\ subs \in Seq(Sub)
  BY DEF StreamInv, LeftIsClosed, ClosedIsOver, OwnIsLast, Alive, SubsOK
<1>s. ASSUME StreamRead \/ StreamOpens \/ StreamFails \/ TimerFires \/ Deliver
      PROVE  job' = job /\ DOMAIN subs' = DOMAIN subs /\ Len(subs') = Len(subs)
             /\ UNCHANGED <<error, loading, behind>>
  <2>1. /\ UNCHANGED <<job, error, loading, behind>>
        /\ DOMAIN subs' = DOMAIN subs
    BY <1>s DEF StreamRead, StreamOpens, StreamFails, TimerFires, Deliver
  <2>2. subs' \in Seq(Sub)
    BY PageKeepsStreams DEF StreamInv, SubsOK
  <2> QED BY <1>0, <2>1, <2>2
<1>1. CASE StreamRead \/ StreamOpens \/ StreamFails \/ TimerFires
  <2>1. gets' = gets /\ shown' = shown
    BY <1>1 DEF StreamRead, StreamOpens, StreamFails, TimerFires
  <2> QED BY <1>1, <1>s, <2>1 DEF GetsOK, ShownIsOfThisJob, Alive, Current
<1>2. CASE Deliver
  <2>1. PICK s \in DOMAIN subs :
          /\ subs[s].phase = "open"
          /\ \/ shown' = View(subs[s].job, Head(subs[s].chan)) /\ gets' = gets
             \/ shown' = shown /\ gets' = gets \cup {Ask("refetch", s)}
    BY <1>2 DEF Deliver
  <2>2. subs[s].job = job
    BY <1>0, <2>1 DEF Live
  <2>3. View(subs[s].job, Head(subs[s].chan)).job = job
    BY <2>2 DEF View
  <2>4. ShownIsOfThisJob'
    BY <1>2, <1>s, <2>1, <2>3 DEF ShownIsOfThisJob
  <2> DEFINE h == Ask("refetch", s)
  <2>5. /\ h = [kind |-> h.kind, sub |-> h.sub, v |-> h.v, n |-> h.n]
        /\ h.kind = "refetch" /\ h.sub = s
    BY DEF Ask
  <2> HIDE DEF h
  <2>6. gets' \subseteq gets \cup {h}
    BY <2>1 DEF h
  <2>7. GetsOK'
    BY <1>2, <1>s, <2>5, <2>6 DEF GetsOK, Alive, Current
  <2> QED BY <2>4, <2>7
<1>3. CASE PollState
  BY <1>3 DEF PollState, GetsOK, ShownIsOfThisJob, Alive, Current
<1>4. CASE Serve
  <2>1. PICK g \in gets :
          /\ gets' = (gets \ {g}) \cup {[g EXCEPT !.v = server[subs[g.sub].job]]}
          /\ UNCHANGED <<job, subs, shown, loading, error, behind>>
    BY <1>4 DEF Serve
  <2> DEFINE h == [g EXCEPT !.v = server[subs[g.sub].job]]
  <2>2. g = [kind |-> g.kind, sub |-> g.sub, v |-> g.v, n |-> g.n]
    BY DEF GetsOK
  <2>3. /\ h = [kind |-> h.kind, sub |-> h.sub, v |-> h.v, n |-> h.n]
        /\ h.kind = g.kind /\ h.sub = g.sub
    BY <2>2
  <2> HIDE DEF h
  <2>4. GetsOK'
    BY <2>1, <2>3 DEF GetsOK, Alive, Current, h
  <2> QED BY <2>1, <2>4 DEF ShownIsOfThisJob
<1>5. CASE Arrives
  <2>1. PICK g \in gets :
          /\ gets' = gets \ {g}
          /\ shown' = IF g.v # Gone THEN View(subs[g.sub].job, g.v) ELSE shown
          /\ error \/ (g.kind = "first" /\ g.v = Gone) => error'
          /\ loading /\ g.kind # "first" => loading'
          /\ behind => behind'
          /\ g.v # Gone /\ g.kind = "refetch" /\ subs[g.sub].job # job => behind'
          /\ job' = job /\ subs' = subs
    BY <1>5, Zenon DEF Arrives
  <2>2. GetsOK'
    BY <2>1 DEF GetsOK, Alive, Current
  <2>3. g.sub \in DOMAIN subs /\ (g.kind = "first" => Alive(g.sub))
        /\ (g.kind # "first" => g.kind = "refetch")
    BY DEF GetsOK
  <2>4. CASE g.v # Gone
    <3>1. shown'.job = subs[g.sub].job
      BY <2>1, <2>4 DEF View
    <3>2. CASE g.kind = "first"
      <4>1. shown'.job = job'
        BY <1>0, <2>1, <2>3, <3>1, <3>2
      <4> QED BY <2>2, <4>1 DEF ShownIsOfThisJob
    <3>3. CASE g.kind = "refetch"
      <4>1. ~behind' => subs[g.sub].job = job
        BY <2>1, <2>4, <3>3
      <4>2. ~behind' => shown'.job = job'
        BY <2>1, <3>1, <4>1
      <4> QED BY <2>2, <4>2 DEF ShownIsOfThisJob
    <3> QED BY <2>3, <3>2, <3>3
  <2>5. CASE g.v = Gone
    <3>1. shown' = shown /\ job' = job /\ (behind => behind') /\ (error => error')
      BY <2>1, <2>5
    <3>2. g.kind = "first" => error'
      BY <2>1, <2>5
    <3>3. g.kind # "first" /\ loading => loading'
      BY <2>1
    <3>4. ~error' /\ ~loading' /\ ~behind' => ~error /\ ~loading /\ ~behind
      BY <3>1, <3>2, <3>3
    <3> QED BY <2>2, <3>1, <3>4 DEF ShownIsOfThisJob
  <2> QED BY <2>2, <2>4, <2>5
<1>6. CASE GetFails
  <2>1. PICK g \in gets :
          /\ gets' = gets \ {g}
          /\ error \/ g.kind = "first" => error'
          /\ loading /\ g.kind # "first" => loading'
          /\ behind \/ g.kind = "refetch" => behind'
          /\ job' = job /\ subs' = subs /\ shown' = shown
    BY <1>6, Zenon DEF GetFails
  <2>2. GetsOK'
    BY <2>1 DEF GetsOK, Alive, Current
  <2>3. ShownIsOfThisJob'
    BY <2>1 DEF ShownIsOfThisJob
  <2> QED BY <2>2, <2>3
<1> QED BY <1>1, <1>2, <1>3, <1>4, <1>5, <1>6 DEF JobPageStep

(* Another job on the same page: the requests of the job before are dropped,  *)
(* and the page is loading until its own is answered.                         *)
LEMMA OpenShowsNothingOld ==
  ASSUME StreamInv, GetsOK, NEW j \in Jobs, OpenJob(j)
  PROVE  GetsOK' /\ ShownIsOfThisJob'
<1> DEFINE h == Ask("first", Len(subs) + 1)
<1>1. /\ job' = j /\ subs' = OpenedSubs(j) /\ loading'
      /\ gets' = (gets \ Forgotten) \cup {h}
  BY DEF OpenJob
<1>2. j # None
  BY JobsAssumption
<1>3. /\ Len(subs') = Len(subs) + 1 /\ subs \in Seq(Sub) /\ subs' \in Seq(Sub)
  BY <1>1, OpeningSubs DEF StreamInv, SubsOK
<1>4. /\ h = [kind |-> h.kind, sub |-> h.sub, v |-> h.v, n |-> h.n]
      /\ h.kind = "first" /\ h.sub = Len(subs')
  BY <1>3 DEF Ask
<1> HIDE DEF h
<1>5. \A g \in gets \ Forgotten : g \in gets /\ g.kind = "refetch"
  BY DEF Forgotten, Refetches
<1>6. DOMAIN subs \subseteq DOMAIN subs' /\ Len(subs') \in DOMAIN subs'
  BY <1>3
<1>7. GetsOK'
  BY <1>1, <1>2, <1>4, <1>5, <1>6 DEF GetsOK, Alive, Current
<1> QED BY <1>1, <1>7 DEF ShownIsOfThisJob

LEMMA ShownStays ==
  ASSUME GetsOK, ShownIsOfThisJob, DOMAIN subs' = DOMAIN subs, Len(subs') = Len(subs),
         UNCHANGED <<job, gets, shown, loading, error>>, behind => behind'
  PROVE  GetsOK' /\ ShownIsOfThisJob'
<1>1. GetsOK'
  BY DEF GetsOK, Alive, Current
<1>2. ShownIsOfThisJob'
  BY DEF ShownIsOfThisJob
<1> QED BY <1>1, <1>2

LEMMA ShownStep ==
  ASSUME StreamInv, GetsOK, ShownIsOfThisJob, [Next]_vars
  PROVE  GetsOK' /\ ShownIsOfThisJob'
<1>1. CASE ShowJob
  <2>1. PICK j \in Created : OpenJob(j)
    BY <1>1 DEF ShowJob
  <2>2. j \in Jobs
    BY DEF Created
  <2> QED BY <2>1, <2>2, OpenShowsNothingOld
<1>2. CASE ShowBatch
  BY <1>2, ShownStays DEF ShowBatch, jobPageVars
<1>3. CASE ShowOther
  <2>1. CASE CloseJob
    <3>1. gets' = {} /\ job' = None
      BY <2>1 DEF CloseJob
    <3> QED BY <3>1 DEF GetsOK, ShownIsOfThisJob
  <2>2. CASE LeaveBatch /\ UNCHANGED jobPageVars
    BY <2>2, ShownStays DEF jobPageVars
  <2> QED BY <1>3, <2>1, <2>2 DEF ShowOther
<1>4. CASE RemoveElsewhere
  BY <1>4, ShownStays DEF RemoveElsewhere, jobPageVars
<1>5. CASE Progress
  <2>1. PICK j \in Created : Change(j)
    BY <1>5 DEF Progress
  <2>2. subs \in Seq(Sub) /\ subs' \in Seq(Sub)
    BY StreamsStep DEF StreamInv, SubsOK
  <2>3. DOMAIN subs' = DOMAIN subs
    BY <2>1 DEF Change
  <2>4. Len(subs') = Len(subs)
    BY <2>2, <2>3
  <2>5. UNCHANGED <<job, gets, shown, loading, error>> /\ (behind => behind')
    BY <2>1 DEF Change
  <2> QED BY <2>3, <2>4, <2>5, ShownStays
<1>6. CASE CleanUp
  BY <1>6, ShownStays DEF CleanUp, jobPageVars
<1>7. CASE JobPageStep /\ UNCHANGED <<visits, batchVars>>
  BY <1>7, PageShowsItsJob
<1>8. CASE BatchStep /\ UNCHANGED <<visits, jobPageVars>>
  BY <1>8, ShownStays DEF jobPageVars
<1>9. CASE UNCHANGED vars
  BY <1>9, ShownStays DEF vars, jobPageVars
<1> QED BY <1>1, <1>2, <1>3, <1>4, <1>5, <1>6, <1>7, <1>8, <1>9 DEF Next

(* A loaded page shows the job of its address, not the one shown before on    *)
(* the same page, unless a refetch for that one was still on its way.         *)
THEOREM PageShowsOwnJob == Spec => []ShownIsOfThisJob
<1> DEFINE IInv == StreamInv /\ GetsOK /\ ShownIsOfThisJob
<1>1. Init => IInv
  <2> SUFFICES ASSUME Init PROVE IInv
    OBVIOUS
  <2>1. StreamInv
    BY StreamsInit
  <2>2. GetsOK /\ ShownIsOfThisJob
    BY DEF Init, JobPageInit, GetsOK, ShownIsOfThisJob
  <2> QED BY <2>1, <2>2
<1>2. IInv /\ [Next]_vars => IInv'
  BY StreamsStep, ShownStep
<1>3. IInv => ShownIsOfThisJob
  OBVIOUS
<1> HIDE DEF IInv
<1> QED BY <1>1, <1>2, <1>3, PTL DEF Spec

-----------------------------------------------------------------------------
(* The slots of the batch page                                                *)

(* What is known and being read are configurations of their kind, and the     *)
(* slots are the resolved configuration's unless something came in between.   *)
ChoiceOK ==
    /\ known \subseteq Names /\ fetching \subseteq Names /\ reading \subseteq Inlines
    /\ name \in Names \cup {None} /\ inline \in Inlines \cup {None}
    /\ name # None => inline = None
SlotsFollow == ~crossed => slots = resolved
ChoiceInv == ChoiceOK /\ SlotsFollow /\ SlotsAreOfChosen

(* Where choice, slots and page stay as they are, so does the invariant.      *)
LEMMA ChoiceStays ==
  ASSUME ChoiceInv,
         UNCHANGED <<onBatch, name, inline, known, fetching, reading, resolved, slots>>,
         crossed => crossed'
  PROVE  ChoiceInv'
<1>1. ChoiceOK'
  BY DEF ChoiceInv, ChoiceOK
<1>2. SlotsFollow'
  BY DEF ChoiceInv, SlotsFollow
<1>3. Chosen' = Chosen
  BY DEF Chosen
<1>4. SlotsAreOfChosen'
  BY <1>3 DEF ChoiceInv, SlotsAreOfChosen
<1> QED BY <1>1, <1>2, <1>4 DEF ChoiceInv

LEMMA BatchKeepsChoice ==
  ASSUME ChoiceInv, BatchStep
  PROVE  ChoiceInv'
<1>0. /\ Readable \subseteq Inlines /\ Names \cap Inlines = {} /\ None \notin Names \cup Inlines
  BY BatchAssumption
<1>1. CASE SelectName
  <2>1. PICK n \in (Names \cup {None}) \ {name} :
          /\ onBatch /\ name' = n /\ inline' = None
          /\ IF n \in known THEN ResolveName(n) ELSE UNCHANGED <<resolved, slots, crossed>>
          /\ fetching' = IF n \in Names \ known THEN fetching \cup {n} ELSE fetching
          /\ UNCHANGED <<onBatch, known, reading>>
    BY <1>1 DEF SelectName
  <2>2. ChoiceOK'
    BY <2>1 DEF ChoiceInv, ChoiceOK
  <2>3. Chosen' = n
    BY <2>1 DEF Chosen
  <2>4. CASE n \in known
    <3>1. ResolveName(n)
      BY <2>1, <2>4
    <3>2. SlotsFollow' /\ (~crossed' => resolved' = n /\ slots' = n)
      BY <2>1, <3>1 DEF ResolveName, Resolve, ChoiceInv, SlotsFollow
    <3> QED BY <2>2, <2>3, <3>2 DEF ChoiceInv, SlotsAreOfChosen
  <2>5. CASE n \notin known
    <3>1. SlotsFollow'
      BY <2>1, <2>5 DEF ChoiceInv, SlotsFollow
    <3>2. n \notin known' \cup (Readable' \ reading')
      BY <1>0, <2>1, <2>5
    <3> QED BY <2>2, <2>3, <3>1, <3>2 DEF ChoiceInv, SlotsAreOfChosen
  <2> QED BY <2>4, <2>5
<1>2. CASE FetchArrives
  <2>1. PICK n \in fetching :
          /\ fetching' = fetching \ {n} /\ known' = known \cup {n}
          /\ IF name = n THEN ResolveName(n) ELSE UNCHANGED <<resolved, slots, crossed>>
          /\ UNCHANGED <<onBatch, name, inline, reading>>
    BY <1>2 DEF FetchArrives
  <2>2. ChoiceOK'
    BY <2>1 DEF ChoiceInv, ChoiceOK
  <2>3. Chosen' = Chosen
    BY <2>1 DEF Chosen
  <2>4. n \in Names /\ n # None
    BY <1>0, <2>1 DEF ChoiceInv, ChoiceOK
  <2>5. CASE name = n
    <3>1. ResolveName(n) /\ Chosen = n
      BY <2>1, <2>4, <2>5 DEF Chosen
    <3>2. SlotsFollow' /\ (onBatch /\ ~crossed' => resolved' = n /\ slots' = n)
      BY <2>1, <3>1 DEF ResolveName, Resolve, ChoiceInv, SlotsFollow
    <3> QED BY <2>1, <2>2, <2>3, <3>1, <3>2 DEF ChoiceInv, SlotsAreOfChosen
  <2>6. CASE name # n
    <3>1. UNCHANGED <<resolved, slots, crossed>>
      BY <2>1, <2>6
    <3>2. Chosen # n
      BY <1>0, <2>4, <2>6 DEF Chosen, ChoiceInv, ChoiceOK
    <3>3. SlotsFollow'
      BY <3>1 DEF ChoiceInv, SlotsFollow
    <3> QED BY <2>1, <2>2, <2>3, <3>1, <3>2, <3>3 DEF ChoiceInv, SlotsAreOfChosen
  <2> QED BY <2>5, <2>6
<1>3. CASE ChooseInline
  <2>1. PICK f \in Inlines \ {inline} :
          /\ name = None /\ inline' = f /\ reading' = reading \cup {f}
          /\ UNCHANGED <<onBatch, name, known, fetching, resolved, slots, crossed>>
    BY <1>3 DEF ChooseInline
  <2>2. ChoiceOK'
    BY <2>1 DEF ChoiceInv, ChoiceOK
  <2>3. Chosen' = f /\ f \notin known' \cup (Readable \ reading')
    BY <1>0, <2>1 DEF Chosen, ChoiceInv, ChoiceOK
  <2>4. SlotsFollow'
    BY <2>1 DEF ChoiceInv, SlotsFollow
  <2> QED BY <2>2, <2>3, <2>4 DEF ChoiceInv, SlotsAreOfChosen
<1>4. CASE InlineRead
  <2>1. PICK f \in reading :
          /\ reading' = reading \ {f}
          /\ IF f \in Readable THEN resolved' = f /\ slots' = f /\ crossed' = (f # Chosen)
             ELSE UNCHANGED <<resolved, slots, crossed>>
          /\ UNCHANGED <<onBatch, name, inline, known, fetching>>
    BY <1>4 DEF InlineRead
  <2>2. ChoiceOK'
    BY <2>1 DEF ChoiceInv, ChoiceOK
  <2>3. Chosen' = Chosen
    BY <2>1 DEF Chosen
  <2>4. CASE f \in Readable
    <3>1. resolved' = f /\ slots' = f /\ (~crossed' => f = Chosen)
      BY <2>1, <2>4
    <3> QED BY <2>2, <2>3, <3>1 DEF ChoiceInv, SlotsFollow, SlotsAreOfChosen
  <2>5. CASE f \notin Readable
    <3>1. UNCHANGED <<resolved, slots, crossed>> /\ Readable \ reading' = Readable \ reading
      BY <2>1, <2>5
    <3>2. SlotsFollow' /\ SlotsAreOfChosen'
      BY <2>1, <2>3, <3>1 DEF ChoiceInv, SlotsFollow, SlotsAreOfChosen
    <3> QED BY <2>2, <3>2 DEF ChoiceInv
  <2> QED BY <2>4, <2>5
<1>5. CASE PostSucceeds
  <2>1. UNCHANGED <<onBatch, name, inline, known, fetching, reading, resolved>>
    BY <1>5 DEF PostSucceeds
  <2>2. ~crossed' => ~crossed /\ slots' = slots
    BY <1>5 DEF PostSucceeds
  <2>3. ChoiceOK' /\ Chosen' = Chosen
    BY <2>1 DEF ChoiceInv, ChoiceOK, Chosen
  <2> QED BY <2>1, <2>2, <2>3 DEF ChoiceInv, SlotsFollow, SlotsAreOfChosen
<1>6. CASE Submit \/ ServePost \/ PostFails
  BY <1>6, ChoiceStays DEF Submit, ServePost, PostFails
<1>7. CASE AskPoll \/ PollArrives \/ PollFails \/ RemoveListed
  BY <1>7, ChoiceStays DEF AskPoll, PollArrives, PollFails, RemoveListed, formVars
<1> QED BY <1>1, <1>2, <1>3, <1>4, <1>5, <1>6, <1>7 DEF BatchStep

LEMMA MountingForgets ==
  ASSUME ChoiceInv, OpenBatch \/ LeaveBatch
  PROVE  ChoiceInv'
<1>1. /\ name' = None /\ inline' = None /\ resolved' = None /\ slots' = None
      /\ reading' = {} /\ known' = known /\ fetching' = fetching
  BY DEF OpenBatch, LeaveBatch
<1>2. Chosen' = None /\ None \notin known \cup Readable
  BY <1>1, BatchAssumption DEF Chosen, ChoiceInv, ChoiceOK
<1>3. ChoiceOK'
  BY <1>1 DEF ChoiceInv, ChoiceOK
<1> QED BY <1>1, <1>2, <1>3 DEF ChoiceInv, SlotsFollow, SlotsAreOfChosen

LEMMA ChoiceStep ==
  ASSUME ChoiceInv, [Next]_vars
  PROVE  ChoiceInv'
<1>1. CASE ShowBatch
  BY <1>1, MountingForgets DEF ShowBatch
<1>2. CASE LeaveBatch
  BY <1>2, MountingForgets
<1>3. CASE BatchStep
  BY <1>3, BatchKeepsChoice
<1>4. CASE UNCHANGED batchVars
  BY <1>4, ChoiceStays DEF batchVars, formVars
<1>5. CASE RemoveElsewhere
  BY <1>5, ChoiceStays DEF RemoveElsewhere, formVars
<1>6. ShowBatch \/ LeaveBatch \/ BatchStep \/ UNCHANGED batchVars \/ RemoveElsewhere
  BY DEF Next, ShowJob, ShowOther, Progress, CleanUp, vars
<1> QED BY <1>1, <1>2, <1>3, <1>4, <1>5, <1>6

(* The slots to fill are those of the configuration chosen last, and those of *)
(* the configuration a submit will send, unless the file of an earlier choice *)
(* was read after it or a submit emptied the form behind it.                  *)
THEOREM SlotsFollowTheChoice == Spec => []SlotsAreOfChosen
<1>1. Init => ChoiceInv
  BY BatchAssumption DEF Init, BatchInit, ChoiceInv, ChoiceOK, SlotsFollow, SlotsAreOfChosen
<1>2. ChoiceInv /\ [Next]_vars => ChoiceInv'
  BY ChoiceStep
<1>3. ChoiceInv => SlotsAreOfChosen
  BY DEF ChoiceInv
<1> QED BY <1>1, <1>2, <1>3, PTL DEF Spec
-----------------------------------------------------------------------------
(* The lists of jobs                                                          *)

ListOK(list) ==
    /\ list \in Seq(Jobs)
    /\ Len(list) <= MaxRecents
    /\ \A i, k \in DOMAIN list : i # k => list[i] # list[k]

(* Removing a job takes it out of the list, and nothing else.                 *)
LEMMA RemovedFromList ==
  ASSUME NEW list, ListOK(list), NEW j
  PROVE  /\ ListOK(Removed(j, list))
         /\ Entries(Removed(j, list)) = Entries(list) \ {j}
         /\ Len(Removed(j, list)) <= Len(list)
<1> DEFINE places == {i \in DOMAIN list : list[i] # j}
           rest == Removed(j, list)
<1>1. rest = Picked(list, places)
  BY DEF Removed
<1>2. list \in Seq(Jobs) /\ \A i, k \in DOMAIN list : i # k => list[i] # list[k]
  BY DEF ListOK
<1>3. /\ rest \in Seq(Jobs) /\ Len(rest) <= Len(list)
      /\ \A k \in DOMAIN rest : \E i \in DOMAIN list : i \in places /\ rest[k] = list[i]
      /\ \A i \in DOMAIN list : i \in places => \E k \in DOMAIN rest : rest[k] = list[i]
  <2> HIDE DEF places, rest
  <2> QED  BY <1>1, <1>2, PickedElements
<1>4. \A i, k \in DOMAIN rest : i # k => rest[i] # rest[k]
  <2> HIDE DEF places, rest
  <2> QED  BY <1>1, <1>2, PickedDiffer
<1>5. Len(rest) <= MaxRecents
  <2>1. Len(list) \in Nat /\ Len(rest) \in Nat /\ Len(list) <= MaxRecents /\ MaxRecents \in Nat
    BY <1>2, <1>3, JobsAssumption DEF ListOK
  <2> HIDE DEF rest
  <2> QED  BY <1>3, <2>1
<1>6. Entries(rest) = Entries(list) \ {j}
  <2> HIDE DEF rest
  <2> QED  BY <1>3 DEF Entries
<1> HIDE DEF rest
<1>7. ListOK(rest)
  BY <1>3, <1>4, <1>5 DEF ListOK
<1> QED  BY <1>3, <1>6, <1>7 DEF rest

(* A recorded job is in the list, which keeps its bound.                      *)
LEMMA RecordedInList ==
  ASSUME NEW list, ListOK(list), NEW j \in Jobs
  PROVE  ListOK(Recorded(j, list)) /\ j \in Entries(Recorded(j, list))
<1> DEFINE rest == Removed(j, list)
           next == <<j>> \o rest
<1>1. ListOK(rest) /\ Entries(rest) = Entries(list) \ {j}
  BY RemovedFromList
<1>2. rest \in Seq(Jobs) /\ \A i, k \in DOMAIN rest : i # k => rest[i] # rest[k]
  BY <1>1 DEF ListOK
<1>3. \A i \in DOMAIN rest : rest[i] # j
  BY <1>1 DEF Entries
<1> HIDE DEF rest
<1>4. /\ next \in Seq(Jobs) /\ Len(next) = Len(rest) + 1 /\ Len(rest) \in Nat
      /\ next[1] = j /\ \A i \in 1..Len(rest) : next[i + 1] = rest[i]
  BY <1>2
<1>5. \A i \in DOMAIN next : i = 1 \/ (i - 1 \in DOMAIN rest /\ next[i] = rest[i - 1])
  <2> SUFFICES ASSUME NEW i \in DOMAIN next, i # 1
               PROVE  i - 1 \in DOMAIN rest /\ next[i] = rest[i - 1]
    OBVIOUS
  <2>1. i - 1 \in 1..Len(rest) /\ (i - 1) + 1 = i
    BY <1>4
  <2> QED  BY <1>2, <1>4, <2>1
<1> HIDE DEF next
<1>6. \A i, k \in DOMAIN next : i # k => next[i] # next[k]
  <2> SUFFICES ASSUME NEW i \in DOMAIN next, NEW k \in DOMAIN next, i # k
               PROVE  next[i] # next[k]
    OBVIOUS
  <2>1. i \in Int /\ k \in Int
    BY <1>4
  <2>2. CASE i = 1
    BY <1>3, <1>4, <1>5, <2>2
  <2>3. CASE k = 1
    BY <1>3, <1>4, <1>5, <2>3
  <2>4. CASE i # 1 /\ k # 1
    <3>1. i - 1 # k - 1
      BY <2>1
    <3>2. /\ i - 1 \in DOMAIN rest /\ next[i] = rest[i - 1]
          /\ k - 1 \in DOMAIN rest /\ next[k] = rest[k - 1]
      BY <1>5, <2>4
    <3> QED  BY <1>2, <3>1, <3>2
  <2> QED  BY <2>2, <2>3, <2>4
<1>7. MaxRecents \in Nat \ {0}
  BY JobsAssumption
<1>8. 1 \in DOMAIN next
  BY <1>4
<1>9. CASE Len(next) <= MaxRecents
  <2>1. Recorded(j, list) = next
    BY <1>9 DEF Recorded, next, rest
  <2> QED  BY <1>4, <1>6, <1>8, <1>9, <2>1 DEF ListOK, Entries
<1>10. CASE ~(Len(next) <= MaxRecents)
  <2> DEFINE cut == SubSeq(next, 1, MaxRecents)
  <2>1. Recorded(j, list) = cut
    BY <1>10 DEF Recorded, next, rest
  <2>2. /\ cut \in Seq(Jobs) /\ Len(cut) = MaxRecents
        /\ \A i \in 1..MaxRecents : cut[i] = next[i] /\ i \in DOMAIN next
    BY <1>4, <1>7, <1>10
  <2> HIDE DEF cut
  <2>3. DOMAIN cut = 1..MaxRecents /\ 1 \in DOMAIN cut
    BY <1>7, <2>2
  <2>4. \A i, k \in DOMAIN cut : i # k => cut[i] # cut[k]
    BY <1>6, <2>2, <2>3
  <2>5. cut[1] = j
    BY <1>4, <2>2, <2>3
  <2> QED  BY <1>7, <2>1, <2>2, <2>3, <2>4, <2>5 DEF ListOK, Entries
<1> QED  BY <1>9, <1>10

(* The values of n places are n when they all differ, and only then.          *)
LEMMA CountOfValues ==
  ASSUME NEW n \in Nat, NEW T, NEW f \in [1..n -> T]
  PROVE  /\ IsFiniteSet({f[i] : i \in 1..n})
         /\ Cardinality({f[i] : i \in 1..n}) = n
               <=> \A i, k \in 1..n : f[i] = f[k] => i = k
<1> DEFINE values == {f[i] : i \in 1..n}
<1>1. IsFiniteSet(1..n) /\ Cardinality(1..n) = n
  BY FS_Interval
<1>2. f \in Surjection(1..n, values)
  BY DEF Surjection
<1>3. IsFiniteSet(values) /\ (Cardinality(values) = n <=> f \in Injection(1..n, values))
  <2> HIDE DEF values
  <2> QED  BY <1>1, <1>2, FS_Surjection
<1>4. f \in Injection(1..n, values) <=> \A i, k \in 1..n : f[i] = f[k] => i = k
  BY DEF Injection, IsInjective
<1> QED  BY <1>3, <1>4

(* No job is in a list twice: the list is as long as it has jobs.             *)
LEMMA ListedOnce ==
  ASSUME NEW list, ListOK(list)
  PROVE  Cardinality(Entries(list)) = Len(list)
<1>1. list \in Seq(Jobs) /\ \A i, k \in DOMAIN list : i # k => list[i] # list[k]
  BY DEF ListOK
<1>2. Len(list) \in Nat /\ DOMAIN list = 1..Len(list) /\ list \in [1..Len(list) -> Jobs]
  BY <1>1
<1>3. Cardinality({list[i] : i \in 1..Len(list)}) = Len(list)
        <=> \A i, k \in 1..Len(list) : list[i] = list[k] => i = k
  BY <1>2, CountOfValues
<1>4. \A i, k \in 1..Len(list) : list[i] = list[k] => i = k
  BY <1>1, <1>2
<1> QED  BY <1>2, <1>3, <1>4 DEF Entries

(* Recording a job in a full list only takes its last one off, and none when  *)
(* the list is not full.                                                      *)
LEMMA RecordedKeeps ==
  ASSUME NEW list, ListOK(list), NEW j \in Jobs, NEW k \in Entries(list),
         Len(list) = MaxRecents => k # list[MaxRecents]
  PROVE  k \in Entries(Recorded(j, list))
<1> DEFINE rest == Removed(j, list)
           next == <<j>> \o rest
<1>1. /\ ListOK(rest) /\ Entries(rest) = Entries(list) \ {j} /\ Len(rest) <= Len(list)
  BY RemovedFromList
<1>2. /\ list \in Seq(Jobs) /\ rest \in Seq(Jobs)
      /\ Len(list) \in Nat /\ Len(list) <= MaxRecents /\ Len(rest) \in Nat
  BY <1>1 DEF ListOK
<1>3. MaxRecents \in Nat \ {0}
  BY JobsAssumption
<1>4. CASE k = j
  BY <1>4, RecordedInList
<1>5. CASE k # j
  <2>1. PICK p \in DOMAIN rest : rest[p] = k
    <3>1. k \in Entries(rest)
      BY <1>1, <1>5
    <3> HIDE DEF rest
    <3> QED  BY <3>1 DEF Entries
  <2> DEFINE full == Len(rest) = MaxRecents
  <2>2. full => Len(list) = MaxRecents /\ rest = list
    <3> SUFFICES ASSUME full PROVE Len(list) = MaxRecents /\ rest = list
      OBVIOUS
    <3>1. Len(list) = MaxRecents /\ Len(rest) = MaxRecents
      BY <1>1, <1>2, <1>3
    <3>2. Cardinality(Entries(rest)) = MaxRecents /\ Cardinality(Entries(list)) = MaxRecents
      BY <1>1, <3>1, ListedOnce
    <3>3. IsFiniteSet(Entries(list))
      <4>1. DOMAIN list = 1..Len(list) /\ list \in [1..Len(list) -> Jobs]
        BY <1>2
      <4> QED  BY <1>2, <4>1, CountOfValues DEF Entries
    <3>4. j \notin Entries(list)
      <4> SUFFICES ASSUME j \in Entries(list) PROVE FALSE
        OBVIOUS
      <4>1. Cardinality(Entries(list) \ {j}) = Cardinality(Entries(list)) - 1
        BY <3>3, FS_RemoveElement
      <4> HIDE DEF rest
      <4> QED  BY <1>1, <1>3, <3>2, <4>1
    <3>5. DOMAIN list \subseteq {i \in DOMAIN list : list[i] # j}
      BY <3>4 DEF Entries
    <3>6. rest = list
      BY <1>2, <3>5, PickedAll DEF Removed
    <3> QED  BY <3>1, <3>6
  <2> HIDE DEF rest
  <2>3. /\ next \in Seq(Jobs) /\ Len(next) = Len(rest) + 1
        /\ p \in 1..Len(rest) /\ p + 1 \in 1..Len(next) /\ next[p + 1] = k
    BY <1>2, <2>1
  <2>4. p + 1 <= MaxRecents
    <3>1. CASE full
      BY <1>2, <1>3, <2>1, <2>2, <2>3, <3>1
    <3>2. CASE ~full
      <4>1. Len(rest) < MaxRecents
        BY <1>1, <1>2, <1>3, <3>2
      <4> QED  BY <1>2, <1>3, <2>3, <4>1
    <3> QED  BY <3>1, <3>2
  <2> HIDE DEF next
  <2>5. CASE Len(next) <= MaxRecents
    <3>1. Recorded(j, list) = next
      BY <2>5 DEF Recorded, next, rest
    <3> QED  BY <2>3, <3>1 DEF Entries
  <2>6. CASE ~(Len(next) <= MaxRecents)
    <3> DEFINE cut == SubSeq(next, 1, MaxRecents)
    <3>1. Recorded(j, list) = cut
      BY <2>6 DEF Recorded, next, rest
    <3>2. Len(cut) = MaxRecents /\ cut \in Seq(Jobs) /\ \A i \in 1..MaxRecents : cut[i] = next[i]
      BY <1>3, <2>3, <2>6
    <3> HIDE DEF cut
    <3>3. p + 1 \in DOMAIN cut /\ cut[p + 1] = k
      BY <1>3, <2>3, <2>4, <3>2
    <3> QED  BY <3>1, <3>3 DEF Entries
  <2> QED  BY <2>5, <2>6
<1> QED  BY <1>4, <1>5

LEMMA KeptIsListed ==
  ASSUME ListOK(recents), NEW j \in Jobs, NEW jobs \in SUBSET Entries(recents)
  PROVE  StillStored(jobs) \subseteq Entries(Recorded(j, recents))
<1> SUFFICES ASSUME NEW k \in StillStored(jobs) PROVE k \in Entries(Recorded(j, recents))
  OBVIOUS
<1>1. k \in Entries(recents) /\ (Len(recents) = MaxRecents => k # recents[MaxRecents])
  BY DEF StillStored
<1> QED  BY <1>1, RecordedKeeps
-----------------------------------------------------------------------------
(* The jobs the browser was told of                                           *)

(* The submits in flight bring jobs; what the browser was told of is stored,  *)
(* and what the page on screen was told of is in its list too.                *)
PostOK(post) ==
    /\ post = [valid |-> post.valid, slots |-> post.slots, own |-> post.own, job |-> post.job]
    /\ post.job \in Jobs \cup {None}
PostsOK == IsSeq(posts) /\ \A n \in DOMAIN posts : PostOK(posts[n])
MadeInv ==
    /\ ListOK(recents) /\ ListOK(listed)
    /\ PostsOK
    /\ told \subseteq Entries(recents)
    /\ made \subseteq told /\ made \subseteq Entries(listed)

LEMMA EmptyList == ListOK(<<>>) /\ Entries(<<>>) = {}
BY JobsAssumption DEF ListOK, Entries

(* A submit less in flight                                                    *)
LEMMA PostDone ==
  ASSUME PostsOK, NEW n, posts' = PostsBut(n)
  PROVE  PostsOK'
<1> DEFINE T == ToSet(posts)
           places == DOMAIN posts \ {n}
<1>1. posts \in Seq(T)
  BY DEF PostsOK, IsSeq
<1>2. posts' = Picked(posts, places)
  BY DEF PostsBut
<1> HIDE DEF T, places
<1>3. /\ posts' \in Seq(T)
      /\ \A k \in DOMAIN posts' : \E i \in DOMAIN posts : posts'[k] = posts[i]
  BY <1>1, <1>2, PickedElements
<1>4. IsSeq(posts')
  BY <1>3, SeqIsSeq
<1>5. \A k \in DOMAIN posts' : PostOK(posts'[k])
  BY <1>3 DEF PostsOK
<1> QED  BY <1>4, <1>5 DEF PostsOK, PostOK, IsSeq

(* What leaves lists, submits and jobs told of alone keeps the invariant.     *)
LEMMA MadeStays ==
  ASSUME MadeInv, UNCHANGED <<recents, listed, posts, told, made>>
  PROVE  MadeInv'
BY DEF MadeInv, PostsOK, PostOK, IsSeq, ListOK

(* The steps of the batch page keep the jobs listed.                          *)
LEMMA BatchKeepsMade ==
  ASSUME MadeInv, BatchStep
  PROVE  MadeInv'
<1>0. /\ ListOK(recents) /\ ListOK(listed) /\ PostsOK
      /\ told \subseteq Entries(recents)
      /\ made \subseteq told /\ made \subseteq Entries(listed)
  BY DEF MadeInv
<1>1. CASE Submit
  <2>1. posts' = Append(posts, Post) /\ UNCHANGED <<recents, listed, told, made>>
    BY <1>1 DEF Submit, listVars, histVars, sharedVars
  <2>2. PostOK(Post)
    BY DEF PostOK, Post
  <2>3. PostsOK'
    <3> DEFINE q == Append(posts, Post)
    <3>1. /\ IsSeq(q) /\ q[Len(posts) + 1] = Post
          /\ \A i \in DOMAIN posts : q[i] = posts[i]
          /\ \A i \in DOMAIN q : i \in DOMAIN posts \/ i = Len(posts) + 1
      BY <1>0, SeqExtended DEF PostsOK
    <3> HIDE DEF q
    <3>2. \A i \in DOMAIN q : PostOK(q[i])
      BY <1>0, <2>2, <3>1 DEF PostsOK
    <3>3. posts' = q
      BY <2>1 DEF q
    <3> QED  BY <3>1, <3>2, <3>3 DEF PostsOK
  <2> QED  BY <1>0, <2>1, <2>3 DEF MadeInv
<1>2. CASE ServePost
  <2> DEFINE j == CHOOSE k \in Jobs \ Created : TRUE
  <2>1. PICK n \in DOMAIN posts : Created # Jobs /\ posts' = [posts EXCEPT ![n].job = j]
    BY <1>2 DEF ServePost
  <2>2. UNCHANGED <<recents, listed, told, made>>
    BY <1>2 DEF ServePost, listVars, histVars
  <2>3. j \in Jobs
    BY <2>1 DEF Created
  <2> HIDE DEF j
  <2> DEFINE x == [posts[n] EXCEPT !.job = j]
             q == [posts EXCEPT ![n] = x]
  <2>4. posts' = q
    BY <2>1
  <2>5. PostOK(x)
    BY <1>0, <2>3 DEF PostsOK, PostOK
  <2> HIDE DEF x
  <2>6. IsSeq(q) /\ DOMAIN q = DOMAIN posts /\ \A i \in DOMAIN posts : q[i] = IF i = n THEN x ELSE posts[i]
    BY <1>0, SeqReplaced DEF PostsOK
  <2> HIDE DEF q
  <2>7. \A i \in DOMAIN q : PostOK(q[i])
    BY <1>0, <2>5, <2>6 DEF PostsOK
  <2>8. PostsOK'
    BY <2>4, <2>6, <2>7 DEF PostsOK
  <2> QED  BY <1>0, <2>2, <2>8 DEF MadeInv
<1>3. CASE PostSucceeds
  <2>1. PICK n \in DOMAIN posts :
          /\ posts[n].job # None /\ posts' = PostsBut(n)
          /\ recents' = Recorded(posts[n].job, recents)
          /\ told' = StillStored(told) \cup {posts[n].job}
          /\ IF posts[n].own
             THEN listed' = recents' /\ made' = StillStored(made) \cup {posts[n].job}
             ELSE made' = StillStored(made) /\ listed' = listed
    BY <1>3 DEF PostSucceeds
  <2> DEFINE j == posts[n].job
  <2>2. j \in Jobs
    BY <1>0, <2>1 DEF PostsOK, PostOK
  <2>3. ListOK(recents') /\ j \in Entries(recents')
    BY <1>0, <2>1, <2>2, RecordedInList
  <2>4. PostsOK'
    BY <1>0, <2>1, PostDone
  <2> HIDE DEF j
  <2>5. StillStored(told) \subseteq Entries(recents') /\ StillStored(made) \subseteq Entries(recents')
    <3>1. told \in SUBSET Entries(recents) /\ made \in SUBSET Entries(recents)
      BY <1>0
    <3>2. recents' = Recorded(j, recents)
      BY <2>1 DEF j
    <3> QED  BY <1>0, <2>2, <3>1, <3>2, KeptIsListed
  <2>6. StillStored(made) \subseteq StillStored(told) /\ StillStored(made) \subseteq made
    BY <1>0 DEF StillStored
  <2>7. told' = StillStored(told) \cup {j}
    BY <2>1 DEF j
  <2>8. CASE posts[n].own
    <3>1. listed' = recents' /\ made' = StillStored(made) \cup {j}
      BY <2>1, <2>8 DEF j
    <3> QED  BY <2>3, <2>4, <2>5, <2>6, <2>7, <3>1 DEF MadeInv
  <2>9. CASE ~posts[n].own
    <3>1. listed' = listed /\ made' = StillStored(made)
      BY <2>1, <2>9
    <3> QED  BY <1>0, <2>3, <2>4, <2>5, <2>6, <2>7, <3>1 DEF MadeInv, ListOK
  <2> QED  BY <2>8, <2>9
<1>4. CASE PostFails
  <2>1. PICK n \in DOMAIN posts : posts' = PostsBut(n)
    BY <1>4 DEF PostFails
  <2>2. UNCHANGED <<recents, listed, told, made>>
    BY <1>4 DEF PostFails, listVars, histVars, sharedVars
  <2>3. PostsOK'
    BY <1>0, <2>1, PostDone
  <2> QED  BY <1>0, <2>2, <2>3 DEF MadeInv
<1>5. CASE RemoveListed
  <2>1. PICK j \in Entries(listed) :
          /\ recents' = Removed(j, recents) /\ listed' = recents'
          /\ told' = told \ {j} /\ made' = made \ {j} /\ posts' = posts
    BY <1>5 DEF RemoveListed, formVars
  <2>2. ListOK(recents') /\ Entries(recents') = Entries(recents) \ {j}
    BY <1>0, <2>1, RemovedFromList
  <2>3. PostsOK'
    BY <1>0, <2>1 DEF PostsOK
  <2> QED  BY <1>0, <2>1, <2>2, <2>3 DEF MadeInv
<1>6. CASE SelectName \/ FetchArrives \/ ChooseInline \/ InlineRead
  <2>1. UNCHANGED <<recents, listed, posts, told, made>>
    BY <1>6 DEF SelectName, FetchArrives, ChooseInline, InlineRead, listVars, histVars, sharedVars
  <2> QED  BY <2>1, MadeStays
<1>7. CASE AskPoll \/ PollArrives \/ PollFails
  <2>1. UNCHANGED <<recents, listed, posts, told, made>>
    BY <1>7 DEF AskPoll, PollArrives, PollFails, formVars, histVars, sharedVars
  <2> QED  BY <2>1, MadeStays
<1> QED  BY <1>1, <1>2, <1>3, <1>4, <1>5, <1>6, <1>7 DEF BatchStep

LEMMA MadeInit ==
  ASSUME Init
  PROVE  MadeInv
<1>1. /\ recents = <<>> /\ listed = <<>> /\ posts = <<>> /\ told = {} /\ made = {}
  BY DEF Init, BatchInit
<1> QED  BY <1>1, EmptyList, EmptyIsSeq DEF MadeInv, PostsOK

(* So do all steps of the tab.                                                *)
LEMMA MadeStep ==
  ASSUME MadeInv, [Next]_vars
  PROVE  MadeInv'
<1>0. /\ ListOK(recents) /\ ListOK(listed) /\ PostsOK
      /\ told \subseteq Entries(recents)
      /\ made \subseteq told /\ made \subseteq Entries(listed)
  BY DEF MadeInv
<1>1. CASE OpenBatch
  <2>1. listed' = recents /\ made' = {} /\ UNCHANGED <<recents, posts, told>>
    BY <1>1 DEF OpenBatch, sharedVars
  <2>2. PostsOK'
    BY <1>0, <2>1 DEF PostsOK
  <2> QED  BY <1>0, <2>1, <2>2 DEF MadeInv
<1>2. CASE LeaveBatch
  <2> DEFINE x(n) == Disowned(posts[n])
             q == [n \in DOMAIN posts |-> x(n)]
  <2>1. listed' = <<>> /\ made' = {} /\ recents' = recents /\ told' = told /\ posts' = q
    BY <1>2 DEF LeaveBatch, sharedVars
  <2>2. \A n \in DOMAIN posts : PostOK(x(n))
    BY <1>0 DEF PostsOK, PostOK, Disowned
  <2> HIDE DEF x
  <2>3. Len(posts) \in Nat /\ DOMAIN posts = 1..Len(posts)
    BY <1>0, SeqShape DEF PostsOK
  <2>4. q = [n \in 1..Len(posts) |-> q[n]] /\ \A n \in DOMAIN posts : q[n] = x(n)
    BY <2>3
  <2> HIDE DEF q
  <2>5. IsSeq(q) /\ DOMAIN q = DOMAIN posts
    BY <2>3, <2>4, SeqMade
  <2>6. PostsOK'
    BY <2>1, <2>2, <2>4, <2>5 DEF PostsOK
  <2> QED  BY <1>0, <2>1, <2>6, EmptyList DEF MadeInv
<1>3. CASE RemoveElsewhere
  <2>1. PICK j \in Entries(recents) :
          /\ recents' = Removed(j, recents)
          /\ told' = told \ {j} /\ made' = made \ {j}
          /\ UNCHANGED <<listed, posts>>
    BY <1>3 DEF RemoveElsewhere, formVars, listVars
  <2>2. ListOK(recents') /\ Entries(recents') = Entries(recents) \ {j}
    BY <1>0, <2>1, RemovedFromList
  <2>3. PostsOK'
    BY <1>0, <2>1 DEF PostsOK
  <2> QED  BY <1>0, <2>1, <2>2, <2>3 DEF MadeInv
<1>4. CASE BatchStep
  BY <1>4, BatchKeepsMade
<1>5. CASE UNCHANGED <<recents, batchVars>>
  BY <1>5, MadeStays DEF batchVars, formVars, listVars, histVars
<1>6. OpenBatch \/ LeaveBatch \/ RemoveElsewhere \/ BatchStep \/ UNCHANGED <<recents, batchVars>>
  BY DEF Next, ShowJob, OpenJob, ShowBatch, ShowOther, CloseJob, Progress, Change, CleanUp,
         JobPageStep, StreamRead, StreamOpens, StreamFails, TimerFires, Deliver, PollState,
         Serve, Arrives, GetFails, vars, sharedVars
<1> QED  BY <1>1, <1>2, <1>3, <1>4, <1>5, <1>6

(* A job whose creation the browser was told of is in the stored list, and in *)
(* the list on screen when its page was told, until it is removed or falls off*)
(* the end, however pages are left and lists changed while any number of      *)
(* submits are in flight.                                                     *)
THEOREM MadeJobsAreListed == Spec => []CreatedIsListed
<1>1. Init => MadeInv
  BY MadeInit
<1>2. MadeInv /\ [Next]_vars => MadeInv'
  BY MadeStep
<1>3. MadeInv => CreatedIsListed
  BY DEF MadeInv, CreatedIsListed
<1> QED  BY <1>1, <1>2, <1>3, PTL DEF Spec
-----------------------------------------------------------------------------
(* The types of the tab                                                       *)

(* One of the two pages is mounted, the one the tab visits.                   *)
PlaceOK ==
    /\ visits \in {"batch", "jobs"} /\ faults \in 0..MaxFaults
    /\ onBatch \in BOOLEAN
    /\ onBatch => visits = "batch"
    /\ job # None => visits = "jobs"

(* What a stream carries are snapshots of a job that exists, and updates.     *)
SubFine(sub, created) ==
    /\ sub.job \in created
    /\ sub.snap \in Versions \cup {None}
    /\ sub.chan \in Seq(Versions \cup {None})
    /\ sub.phase # "open" => sub.chan = <<>>
SubsFine == \A s \in DOMAIN subs : SubFine(subs[s], Created)

(* A request is for a mounted page, and a loading page has its first one.     *)
OwnMounted == job # None => subs[Current].mounted
GetsFine == \A g \in gets : subs[g.sub].mounted /\ g.v \in Snapshots
LoadingAsks == loading => \E g \in gets : g.kind = "first" /\ Alive(g.sub)
ShownFine == shown \in Views /\ detail \in Jobs \cup {None}
PageFine == SubsFine /\ OwnMounted /\ GetsFine /\ LoadingAsks /\ ShownFine

(* One page at a time stays mounted.                                          *)
LEMMA PlaceStep ==
  ASSUME PlaceOK, [Next]_vars
  PROVE  PlaceOK'
<1>0. MaxFaults \in Nat
  BY JobsAssumption
<1>1. faults' \in 0..MaxFaults
  <2>1. faults' = faults \/ Fault
    BY DEF Next, ShowJob, OpenJob, ShowBatch, OpenBatch, ShowOther, LeaveBatch, CloseJob,
           RemoveElsewhere, Progress, Change, CleanUp, JobPageStep, StreamRead, StreamOpens,
           StreamFails, TimerFires, Deliver, PollState, Serve, Arrives, GetFails, BatchStep,
           SelectName, FetchArrives, ChooseInline, InlineRead, Submit, ServePost, PostSucceeds,
           PostFails, AskPoll, PollArrives, PollFails, RemoveListed, vars, sharedVars
  <2> QED  BY <1>0, <2>1 DEF Fault, PlaceOK
<1>2. visits' = visits
  BY DEF Next, ShowJob, ShowBatch, ShowOther, RemoveElsewhere, Progress, CleanUp, vars
<1>3. onBatch' = onBatch \/ (visits = "batch" /\ onBatch' = TRUE) \/ onBatch' = FALSE
  BY DEF Next, ShowJob, ShowBatch, OpenBatch, ShowOther, LeaveBatch, RemoveElsewhere, Progress,
         CleanUp, BatchStep, SelectName, FetchArrives, ChooseInline, InlineRead, Submit,
         ServePost, PostSucceeds, PostFails, AskPoll, PollArrives, PollFails, RemoveListed,
         vars, batchVars
<1>4. job' = job \/ visits = "jobs" \/ job' = None
  BY DEF Next, ShowJob, ShowBatch, ShowOther, CloseJob, RemoveElsewhere, Progress, Change,
         CleanUp, JobPageStep, StreamRead, StreamOpens, StreamFails, TimerFires, Deliver,
         PollState, Serve, Arrives, GetFails, vars, jobPageVars
<1>5. /\ visits \in {"batch", "jobs"} /\ onBatch \in BOOLEAN
      /\ onBatch => visits = "batch"
      /\ job # None => visits = "jobs"
  BY DEF PlaceOK
<1>6. onBatch' \in BOOLEAN
  BY <1>3, <1>5
<1>7. onBatch' => visits' = "batch"
  BY <1>2, <1>3, <1>5
<1>8. job' # None => visits' = "jobs"
  BY <1>2, <1>4, <1>5
<1> QED  BY <1>1, <1>2, <1>5, <1>6, <1>7, <1>8 DEF PlaceOK

(* Jobs are never uncreated.                                                  *)
LEMMA CreatedGrows ==
  ASSUME ServerOK, [Next]_vars
  PROVE  Created \subseteq Created'
<1>0. None \notin Nat /\ None # Gone /\ server \in [Jobs -> Snapshots] /\ LastVersion \in Nat
  BY JobsAssumption DEF ServerOK
<1>1. CASE Progress
  <2>1. PICK j \in Created : server[j] \in 0..(LastVersion - 1) /\ server' = [server EXCEPT ![j] = @ + 1]
    BY <1>1 DEF Progress, Change
  <2>2. server[j] + 1 \in Nat
    BY <1>0, <2>1
  <2> QED  BY <1>0, <2>1, <2>2 DEF Created
<1>2. CASE CleanUp
  BY <1>0, <1>2 DEF CleanUp, Created
<1>3. CASE ServePost
  <2>1. \E j : server' = [server EXCEPT ![j] = 0]
    BY <1>3 DEF ServePost
  <2>2. 0 # None
    BY <1>0
  <2> QED  BY <1>0, <2>1, <2>2 DEF Created
<1>4. CASE server' = server
  BY <1>4 DEF Created
<1>5. Progress \/ CleanUp \/ ServePost \/ server' = server
  BY DEF Next, ShowJob, OpenJob, ShowBatch, OpenBatch, ShowOther, LeaveBatch, CloseJob,
         RemoveElsewhere, JobPageStep, StreamRead, StreamOpens,
         StreamFails, TimerFires, Deliver, PollState, Serve, Arrives, GetFails, BatchStep,
         SelectName, FetchArrives, ChooseInline, InlineRead, Submit, PostSucceeds,
         PostFails, AskPoll, PollArrives, PollFails, RemoveListed, vars, sharedVars
<1> QED  BY <1>1, <1>2, <1>3, <1>4, <1>5
(* A step that moves one stream on.                                           *)
LEMMA MovedIsFine ==
  ASSUME StreamInv, SubsFine, OwnMounted, NEW s \in DOMAIN subs, NEW sub \in Sub,
         subs' = [subs EXCEPT ![s] = sub], job' = job, server' = server,
         SubFine(sub, Created), sub.mounted = subs[s].mounted
  PROVE  /\ SubsFine' /\ OwnMounted' /\ Len(subs') = Len(subs)
         /\ \A t \in DOMAIN subs : t \in DOMAIN subs' /\ subs'[t].mounted = subs[t].mounted
<1>1. subs \in Seq(Sub)
  BY DEF StreamInv, SubsOK
<1>2. DOMAIN subs' = DOMAIN subs /\ Len(subs') = Len(subs)
  BY <1>1
<1>3. \A t \in DOMAIN subs : subs'[t] = IF t = s THEN sub ELSE subs[t]
  BY <1>1
<1>4. \A t \in DOMAIN subs : subs'[t].mounted = subs[t].mounted
  BY <1>3
<1>5. Created' = Created
  BY DEF Created
<1>6. SubsFine'
  BY <1>2, <1>3, <1>5 DEF SubsFine
<1>7. OwnMounted'
  BY <1>2, <1>4 DEF OwnMounted, StreamInv, OwnIsLast, Current
<1> QED  BY <1>2, <1>4, <1>6, <1>7

(* Where the requests stay as they are and the subscriptions keep their       *)
(* places, so do their facts.                                                 *)
LEMMA RequestsStay ==
  ASSUME GetsOK, GetsFine, LoadingAsks, UNCHANGED <<gets, job, loading>>,
         Len(subs') = Len(subs),
         \A t \in DOMAIN subs : t \in DOMAIN subs' /\ subs'[t].mounted = subs[t].mounted
  PROVE  GetsFine' /\ LoadingAsks'
<1>1. GetsFine'
  BY DEF GetsFine, GetsOK
<1>2. LoadingAsks'
  BY DEF LoadingAsks, Alive, Current
<1> QED  BY <1>1, <1>2

(* The steps of the job page keep its streams and requests well formed.       *)
LEMMA PageKeepsFine ==
  ASSUME StreamInv, GetsOK, PageFine, JobPageStep
  PROVE  PageFine'
<1>0. /\ subs \in Seq(Sub) /\ server \in [Jobs -> Snapshots]
      /\ \A s \in DOMAIN subs : subs[s] \in Sub /\ subs[s].job \in Jobs /\ SubFine(subs[s], Created)
      /\ SubsFine /\ OwnMounted /\ GetsFine /\ LoadingAsks /\ ShownFine
  <2>1. subs \in Seq(Sub) /\ server \in [Jobs -> Snapshots]
    BY DEF StreamInv, SubsOK, ServerOK
  <2>2. \A s \in DOMAIN subs : subs[s] \in Sub
    BY <2>1
  <2> QED  BY <2>1, <2>2 DEF Sub, PageFine, SubsFine
<1>c. None \notin Nat /\ None # Gone /\ LastVersion \in Nat
  BY JobsAssumption
<1>1. CASE StreamRead
  <2>1. PICK s \in DOMAIN subs :
          /\ subs[s].phase = "connecting" /\ server[subs[s].job] # Gone
          /\ subs' = [subs EXCEPT ![s].phase = "read", ![s].snap = server[subs[s].job]]
          /\ UNCHANGED <<job, server, gets, loading, shown, detail>>
    BY <1>1 DEF StreamRead, sharedVars
  <2> DEFINE sub == [subs[s] EXCEPT !.phase = "read", !.snap = server[subs[s].job]]
  <2>2. subs' = [subs EXCEPT ![s] = sub]
    BY <1>0, <2>1
  <2>3. sub \in Sub /\ sub.mounted = subs[s].mounted
    BY <1>0 DEF Sub, Phases
  <2>4. server[subs[s].job] \in Versions \cup {None}
    BY <1>0, <2>1 DEF Snapshots
  <2>5. SubFine(sub, Created)
    BY <1>0, <2>1, <2>4 DEF SubFine, Sub
  <2> HIDE DEF sub
  <2>6. /\ SubsFine' /\ OwnMounted' /\ Len(subs') = Len(subs)
        /\ \A t \in DOMAIN subs : t \in DOMAIN subs' /\ subs'[t].mounted = subs[t].mounted
    BY <1>0, <2>1, <2>2, <2>3, <2>5, MovedIsFine
  <2>7. GetsFine' /\ LoadingAsks'
    BY <1>0, <2>1, <2>6, RequestsStay
  <2> QED  BY <1>0, <2>1, <2>6, <2>7 DEF PageFine, ShownFine
<1>2. CASE StreamOpens
  <2>1. PICK s \in DOMAIN subs :
          /\ subs[s].phase = "read"
          /\ subs' = [subs EXCEPT ![s].phase = "open", ![s].snap = None,
                                  ![s].chan = <<subs[s].snap>>]
          /\ UNCHANGED <<job, server, gets, loading, shown, detail>>
    BY <1>2 DEF StreamOpens, sharedVars
  <2> DEFINE sub == [subs[s] EXCEPT !.phase = "open", !.snap = None, !.chan = <<subs[s].snap>>]
  <2>2. subs' = [subs EXCEPT ![s] = sub]
    BY <1>0, <2>1
  <2>3. /\ <<subs[s].snap>> \in Seq(Snapshots) /\ <<subs[s].snap>> \in Seq(Versions \cup {None})
        /\ None \in Snapshots
    BY <1>0 DEF Sub, Snapshots, SubFine
  <2>4. sub \in Sub /\ sub.mounted = subs[s].mounted
    BY <1>0, <2>3 DEF Sub, Phases
  <2>5. SubFine(sub, Created)
    BY <1>0, <2>1, <2>3 DEF SubFine, Sub
  <2> HIDE DEF sub
  <2>6. /\ SubsFine' /\ OwnMounted' /\ Len(subs') = Len(subs)
        /\ \A t \in DOMAIN subs : t \in DOMAIN subs' /\ subs'[t].mounted = subs[t].mounted
    BY <1>0, <2>1, <2>2, <2>4, <2>5, MovedIsFine
  <2>7. GetsFine' /\ LoadingAsks'
    BY <1>0, <2>1, <2>6, RequestsStay
  <2> QED  BY <1>0, <2>1, <2>6, <2>7 DEF PageFine, ShownFine
<1>3. CASE StreamFails
  <2>1. PICK s \in DOMAIN subs :
          /\ subs' = [subs EXCEPT ![s] = Dropped(@)]
          /\ UNCHANGED <<job, server, gets, loading, shown, detail>>
    BY <1>3 DEF StreamFails
  <2> DEFINE sub == Dropped(subs[s])
  <2>2. subs' = [subs EXCEPT ![s] = sub]
    BY <1>0, <2>1
  <2>3. sub \in Sub /\ sub.mounted = subs[s].mounted /\ SubFine(sub, Created)
    <3>1. /\ <<>> \in Seq(Snapshots) /\ <<>> \in Seq(Versions \cup {None})
          /\ None \in Snapshots /\ "waiting" \in Phases
      BY DEF Snapshots, Phases
    <3>2. subs[s] \in Sub /\ SubFine(subs[s], Created)
      BY <1>0
    <3> QED  BY <3>1, <3>2 DEF Dropped, Sub, SubFine
  <2> HIDE DEF sub
  <2>6. /\ SubsFine' /\ OwnMounted' /\ Len(subs') = Len(subs)
        /\ \A t \in DOMAIN subs : t \in DOMAIN subs' /\ subs'[t].mounted = subs[t].mounted
    BY <1>0, <2>1, <2>2, <2>3, MovedIsFine
  <2>7. GetsFine' /\ LoadingAsks'
    BY <1>0, <2>1, <2>6, RequestsStay
  <2> QED  BY <1>0, <2>1, <2>6, <2>7 DEF PageFine, ShownFine
<1>4. CASE TimerFires
  <2>1. PICK s \in DOMAIN subs :
          /\ subs[s].phase = "waiting"
          /\ subs' = [subs EXCEPT ![s].phase = IF subs[s].closed THEN "over" ELSE "connecting"]
          /\ UNCHANGED <<job, server, gets, loading, shown, detail>>
    BY <1>4 DEF TimerFires, sharedVars
  <2> DEFINE sub == [subs[s] EXCEPT !.phase = IF subs[s].closed THEN "over" ELSE "connecting"]
  <2>2. subs' = [subs EXCEPT ![s] = sub]
    BY <1>0, <2>1
  <2>3. sub \in Sub /\ sub.mounted = subs[s].mounted
    BY <1>0 DEF Sub, Phases
  <2>5. SubFine(sub, Created)
    BY <1>0, <2>1 DEF SubFine, Sub
  <2> HIDE DEF sub
  <2>6. /\ SubsFine' /\ OwnMounted' /\ Len(subs') = Len(subs)
        /\ \A t \in DOMAIN subs : t \in DOMAIN subs' /\ subs'[t].mounted = subs[t].mounted
    BY <1>0, <2>1, <2>2, <2>3, <2>5, MovedIsFine
  <2>7. GetsFine' /\ LoadingAsks'
    BY <1>0, <2>1, <2>6, RequestsStay
  <2> QED  BY <1>0, <2>1, <2>6, <2>7 DEF PageFine, ShownFine
<1>5. CASE Deliver
  <2>1. PICK s \in DOMAIN subs :
          /\ subs[s].phase = "open" /\ subs[s].chan # <<>>
          /\ subs' = [subs EXCEPT ![s].chan = Tail(@)]
          /\ \/ /\ Head(subs[s].chan) # None
                /\ shown' = View(subs[s].job, Head(subs[s].chan)) /\ gets' = gets
             \/ shown' = shown /\ gets' = gets \cup {Ask("refetch", s)}
          /\ UNCHANGED <<job, server, loading, detail>>
    BY <1>5 DEF Deliver, sharedVars
  <2> DEFINE sub == [subs[s] EXCEPT !.chan = Tail(subs[s].chan)]
  <2>2. subs' = [subs EXCEPT ![s] = sub]
    BY <1>0, <2>1
  <2>3. /\ Tail(subs[s].chan) \in Seq(Snapshots) /\ Tail(subs[s].chan) \in Seq(Versions \cup {None})
        /\ Head(subs[s].chan) \in Versions \cup {None}
    BY <1>0, <2>1 DEF Sub, SubFine
  <2>4. sub \in Sub /\ sub.mounted = subs[s].mounted
    BY <1>0, <2>3 DEF Sub
  <2>5. SubFine(sub, Created)
    BY <1>0, <2>1, <2>3 DEF SubFine, Sub
  <2> HIDE DEF sub
  <2>6. /\ SubsFine' /\ OwnMounted' /\ Len(subs') = Len(subs)
        /\ \A t \in DOMAIN subs : t \in DOMAIN subs' /\ subs'[t].mounted = subs[t].mounted
    BY <1>0, <2>1, <2>2, <2>4, <2>5, MovedIsFine
  <2>7. Alive(s)
    BY <2>1 DEF StreamInv, ClosedIsOver, LeftIsClosed, Live
  <2> DEFINE h == Ask("refetch", s)
  <2>8. h.sub = s /\ h.v = None
    BY DEF Ask
  <2>9. subs[s].mounted
    BY <1>0, <2>7 DEF OwnMounted, Alive
  <2> HIDE DEF h
  <2>10. gets \subseteq gets' /\ gets' \subseteq gets \cup {h}
    BY <2>1 DEF h
  <2>11. GetsFine'
    BY <1>0, <2>6, <2>8, <2>9, <2>10 DEF GetsFine, GetsOK, Snapshots
  <2>12. LoadingAsks'
    BY <1>0, <2>1, <2>6, <2>10 DEF LoadingAsks, Alive, Current
  <2>13. ShownFine'
    BY <1>0, <2>1, <2>3 DEF ShownFine, Views, View
  <2> QED  BY <2>6, <2>11, <2>12, <2>13 DEF PageFine
<1>s. ASSUME PollState \/ Serve \/ Arrives \/ GetFails
      PROVE  UNCHANGED <<job, subs, server>> /\ SubsFine' /\ OwnMounted'
  <2>1. UNCHANGED <<job, subs, server>>
    BY <1>s DEF PollState, Serve, Arrives, GetFails, sharedVars
  <2> QED  BY <1>0, <2>1 DEF SubsFine, OwnMounted, Created, Current
<1>6. CASE PollState
  <2>1. UNCHANGED <<gets, loading, shown>> /\ detail' = job
    BY <1>6 DEF PollState
  <2>2. ShownFine'
    BY <1>0, <2>1 DEF ShownFine, StreamInv, JobOK
  <2>3. GetsFine' /\ LoadingAsks'
    BY <1>0, <1>6, <1>s, <2>1 DEF GetsFine, LoadingAsks, Alive, Current
  <2> QED  BY <1>6, <1>s, <2>2, <2>3 DEF PageFine
<1>7. CASE Serve
  <2>1. PICK g \in gets :
          /\ gets' = (gets \ {g}) \cup {[g EXCEPT !.v = server[subs[g.sub].job]]}
          /\ UNCHANGED <<loading, shown, detail>>
    BY <1>7 DEF Serve
  <2> DEFINE h == [g EXCEPT !.v = server[subs[g.sub].job]]
  <2>2. g = [kind |-> g.kind, sub |-> g.sub, v |-> g.v, n |-> g.n] /\ g.sub \in DOMAIN subs
    BY DEF GetsOK
  <2>3. h.kind = g.kind /\ h.sub = g.sub /\ h.v \in Snapshots
    BY <1>0, <2>2
  <2> HIDE DEF h
  <2>4. gets' = (gets \ {g}) \cup {h}
    BY <2>1 DEF h
  <2>5. GetsFine'
    BY <1>0, <1>7, <1>s, <2>3, <2>4 DEF GetsFine
  <2>6. LoadingAsks'
    BY <1>0, <1>7, <1>s, <2>1, <2>3, <2>4 DEF LoadingAsks, Alive, Current
  <2> QED  BY <1>0, <1>7, <1>s, <2>1, <2>5, <2>6 DEF PageFine, ShownFine
<1>8. CASE Arrives \/ GetFails
  <2>1. PICK g \in gets :
          /\ gets' = gets \ {g}
          /\ loading' => loading /\ g.kind # "first"
          /\ \/ shown' = shown
             \/ g.v \notin {None, Gone} /\ shown' = View(subs[g.sub].job, g.v)
          /\ detail' = detail
    BY <1>8 DEF Arrives, GetFails
  <2>2. g.sub \in DOMAIN subs /\ g.v \in Snapshots
    BY <1>0 DEF GetsOK, GetsFine
  <2>3. ShownFine'
    BY <1>0, <2>1, <2>2 DEF ShownFine, Views, View, Snapshots
  <2>4. GetsFine'
    BY <1>0, <1>8, <1>s, <2>1 DEF GetsFine
  <2>5. LoadingAsks'
    BY <1>0, <1>8, <1>s, <2>1 DEF LoadingAsks, Alive, Current
  <2> QED  BY <1>8, <1>s, <2>3, <2>4, <2>5 DEF PageFine
<1> QED  BY <1>1, <1>2, <1>3, <1>4, <1>5, <1>6, <1>7, <1>8 DEF JobPageStep
(* Opening, leaving and changing a job, each on the streams it finds.         *)
LEMMA OpenKeepsFine ==
  ASSUME StreamInv, GetsOK, PageFine, NEW j \in Created, OpenJob(j)
  PROVE  PageFine'
<1> DEFINE h == Ask("first", Len(subs) + 1)
<1>0. /\ j \in Jobs /\ j # None
      /\ subs \in Seq(Sub)
      /\ \A s \in DOMAIN subs : subs[s] \in Sub /\ SubFine(subs[s], Created)
      /\ SubsFine /\ GetsFine /\ ShownFine
  <2>1. subs \in Seq(Sub)
    BY DEF StreamInv, SubsOK
  <2>2. \A s \in DOMAIN subs : subs[s] \in Sub
    BY <2>1
  <2> QED  BY <2>1, <2>2, JobsAssumption DEF PageFine, SubsFine, Created
<1>1. /\ job' = j /\ subs' = OpenedSubs(j) /\ server' = server
      /\ gets' = (gets \ Forgotten) \cup {h}
  BY DEF OpenJob, sharedVars
<1>2. /\ subs' \in Seq(Sub) /\ Len(subs') = Len(subs) + 1 /\ Len(subs) \in Nat
      /\ subs'[Len(subs) + 1] = Subscription(j)
      /\ \A s \in DOMAIN subs :
            subs'[s] = IF s = Current /\ job # None THEN Closed(subs[s]) ELSE subs[s]
  BY <1>0, <1>1, OpeningSubs
<1>3. Created' = Created
  BY <1>1 DEF Created
<1>4. \A s \in DOMAIN subs :
        s \in DOMAIN subs' /\ SubFine(subs'[s], Created) /\ subs'[s].mounted = subs[s].mounted
  <2> SUFFICES ASSUME NEW s \in DOMAIN subs
               PROVE  s \in DOMAIN subs' /\ SubFine(subs'[s], Created)
                      /\ subs'[s].mounted = subs[s].mounted
    OBVIOUS
  <2>1. subs[s] \in Sub /\ SubFine(subs[s], Created)
    BY <1>0
  <2>2. <<>> \in Seq(Versions \cup {None})
    OBVIOUS
  <2>3. SubFine(Closed(subs[s]), Created) /\ Closed(subs[s]).mounted = subs[s].mounted
    BY <2>1, <2>2 DEF SubFine, Closed, Sub
  <2>4. s \in DOMAIN subs'
    BY <1>2
  <2> QED  BY <1>2, <2>1, <2>3, <2>4
<1>5. SubFine(Subscription(j), Created) /\ Subscription(j).mounted
  BY DEF SubFine, Subscription
<1>6. /\ Current' = Len(subs) + 1 /\ Current' \in DOMAIN subs'
      /\ \A s \in DOMAIN subs' : s \in DOMAIN subs \/ s = Len(subs) + 1
  BY <1>2 DEF Current
<1>7. SubsFine' /\ OwnMounted'
  BY <1>2, <1>3, <1>4, <1>5, <1>6 DEF SubsFine, OwnMounted
<1>8. h.sub = Len(subs) + 1 /\ h.v = None /\ h.kind = "first"
  BY DEF Ask
<1> HIDE DEF h
<1>9. GetsFine'
  <2>1. \A g \in gets : subs'[g.sub].mounted /\ g.v \in Snapshots
    BY <1>0, <1>4 DEF GetsFine, GetsOK
  <2>2. subs'[h.sub].mounted /\ h.v \in Snapshots
    BY <1>2, <1>5, <1>8 DEF Snapshots
  <2> QED  BY <1>1, <2>1, <2>2 DEF GetsFine
<1>10. LoadingAsks'
  BY <1>0, <1>1, <1>6, <1>8 DEF LoadingAsks, Alive
<1>11. ShownFine'
  BY <1>0 DEF OpenJob, ShownFine, Views
<1> QED  BY <1>7, <1>9, <1>10, <1>11 DEF PageFine

LEMMA CloseKeepsFine ==
  ASSUME StreamInv, PageFine, CloseJob
  PROVE  PageFine'
<1> DEFINE left(s) == [(IF s = Current THEN Closed(subs[s]) ELSE subs[s]) EXCEPT !.mounted = FALSE]
<1>1. /\ job' = None /\ gets' = {} /\ ~loading' /\ shown' = None /\ detail' = None
      /\ server' = server /\ subs' = [s \in DOMAIN subs |-> left(s)]
  BY DEF CloseJob, sharedVars
<1>2. ASSUME NEW s \in DOMAIN subs
      PROVE  SubFine(left(s), Created)
  <2>1. subs[s] \in Sub /\ SubFine(subs[s], Created)
    BY DEF StreamInv, SubsOK, PageFine, SubsFine
  <2>2. <<>> \in Seq(Versions \cup {None})
    OBVIOUS
  <2>3. CASE s = Current
    <3>1. Closed(subs[s]) \in Sub /\ SubFine(Closed(subs[s]), Created)
      BY <2>1, <2>2, ClosingASub DEF SubFine, Closed, Sub
    <3> QED  BY <2>3, <3>1 DEF Sub, SubFine
  <2>4. CASE s # Current
    BY <2>1, <2>4 DEF Sub, SubFine
  <2> QED  BY <2>3, <2>4
<1> HIDE DEF left
<1>3. SubsFine'
  BY <1>1, <1>2 DEF SubsFine, Created
<1> QED  BY <1>1, <1>3 DEF PageFine, OwnMounted, GetsFine, LoadingAsks, ShownFine, Views

LEMMA ChangeKeepsFine ==
  ASSUME StreamInv, GetsOK, PageFine, NEW j \in Created, Change(j)
  PROVE  PageFine'
<1> DEFINE notified(s) == IF subs[s].job = j /\ subs[s].phase = "open"
                          THEN [subs[s] EXCEPT !.chan = Append(@, None)] ELSE subs[s]
<1>1. /\ subs' = [s \in DOMAIN subs |-> notified(s)]
      /\ UNCHANGED <<job, gets, shown, detail, loading>>
      /\ server' = [server EXCEPT ![j] = @ + 1] /\ server[j] \in 0..(LastVersion - 1)
  BY DEF Change
<1>2. server \in [Jobs -> Snapshots] /\ None \notin Nat /\ LastVersion \in Nat /\ subs \in Seq(Sub)
  BY JobsAssumption DEF StreamInv, SubsOK, ServerOK
<1>3. Created \subseteq Created'
  <2>1. server[j] + 1 \in Nat
    BY <1>1, <1>2
  <2> QED  BY <1>1, <1>2, <2>1 DEF Created
<1>4. ASSUME NEW s \in DOMAIN subs
      PROVE  SubFine(notified(s), Created') /\ notified(s).mounted = subs[s].mounted /\ notified(s) \in Sub
  <2>1. subs[s] \in Sub /\ SubFine(subs[s], Created)
    BY <1>2 DEF PageFine, SubsFine
  <2>2. Append(subs[s].chan, None) \in Seq(Versions \cup {None})
        /\ Append(subs[s].chan, None) \in Seq(Snapshots)
    BY <2>1 DEF SubFine, Sub, Snapshots
  <2>3. CASE subs[s].job = j /\ subs[s].phase = "open"
    BY <1>3, <2>1, <2>2, <2>3 DEF Sub, SubFine
  <2>4. CASE ~(subs[s].job = j /\ subs[s].phase = "open")
    BY <1>3, <2>1, <2>4 DEF Sub, SubFine
  <2> QED  BY <2>3, <2>4
<1> HIDE DEF notified
<1>5. subs' \in Seq(Sub) /\ DOMAIN subs' = DOMAIN subs /\ Len(subs') = Len(subs)
  BY <1>1, <1>2, <1>4
<1>6. SubsFine'
  BY <1>1, <1>4 DEF SubsFine
<1>7. OwnMounted'
  BY <1>1, <1>4, <1>5 DEF PageFine, OwnMounted, StreamInv, OwnIsLast, Current
<1>8. GetsFine' /\ LoadingAsks'
  <2>1. \A t \in DOMAIN subs : t \in DOMAIN subs' /\ subs'[t].mounted = subs[t].mounted
    BY <1>1, <1>4
  <2> QED  BY <1>1, <1>5, <2>1, RequestsStay DEF PageFine
<1> QED  BY <1>1, <1>6, <1>7, <1>8 DEF PageFine, ShownFine

(* What leaves the job page alone keeps it well formed.                       *)
LEMMA FineStays ==
  ASSUME PageFine, UNCHANGED jobPageVars, Created \subseteq Created'
  PROVE  PageFine'
BY DEF PageFine, SubsFine, SubFine, OwnMounted, GetsFine, LoadingAsks, ShownFine, Alive, Current,
       jobPageVars

(* All steps of the tab keep the job page well formed.                        *)
LEMMA FineStep ==
  ASSUME StreamInv, GetsOK, PageFine, [Next]_vars
  PROVE  PageFine'
<1>0. Created \subseteq Created'
  BY CreatedGrows DEF StreamInv
<1>1. CASE ShowJob
  BY <1>1, OpenKeepsFine DEF ShowJob
<1>2. CASE CloseJob
  BY <1>2, CloseKeepsFine
<1>3. CASE Progress
  BY <1>3, ChangeKeepsFine DEF Progress
<1>4. CASE JobPageStep
  BY <1>4, PageKeepsFine
<1>5. CASE UNCHANGED jobPageVars
  BY <1>0, <1>5, FineStays
<1>6. ShowJob \/ CloseJob \/ Progress \/ JobPageStep \/ UNCHANGED jobPageVars
  BY DEF Next, ShowBatch, ShowOther, RemoveElsewhere, CleanUp, vars
<1> QED  BY <1>1, <1>2, <1>3, <1>4, <1>5, <1>6

(* What the page has resolved is a configuration it may have chosen.          *)
ResolvedOK == resolved \in Names \cup Readable \cup {None}

(* What the page has resolved stays a configuration it may have chosen.       *)
LEMMA ResolvedStep ==
  ASSUME ChoiceInv, ResolvedOK, [Next]_vars
  PROVE  ResolvedOK'
<1>1. CASE SelectName
  BY <1>1 DEF SelectName, ResolveName, Resolve, ResolvedOK, ChoiceInv, ChoiceOK
<1>2. CASE FetchArrives
  BY <1>2 DEF FetchArrives, ResolveName, Resolve, ResolvedOK, ChoiceInv, ChoiceOK
<1>3. CASE InlineRead
  BY <1>3 DEF InlineRead, ResolvedOK
<1>4. CASE resolved' \in {resolved, None}
  BY <1>4 DEF ResolvedOK
<1>5. SelectName \/ FetchArrives \/ InlineRead \/ resolved' \in {resolved, None}
  BY DEF Next, ShowJob, ShowBatch, OpenBatch, ShowOther, LeaveBatch, RemoveElsewhere, Progress,
         CleanUp, BatchStep, ChooseInline, Submit, ServePost, PostSucceeds, PostFails, AskPoll,
         PollArrives, PollFails, RemoveListed, vars, batchVars, formVars
<1> QED  BY <1>1, <1>2, <1>3, <1>4, <1>5

LEMMA FineInit ==
  ASSUME Init
  PROVE  PlaceOK /\ PageFine /\ ResolvedOK
<1>1. PlaceOK
  <2>1. 0 \in 0..MaxFaults
    BY JobsAssumption
  <2>2. visits \in {"batch", "jobs"} /\ faults = 0 /\ onBatch = FALSE /\ job = None
    BY DEF Init, BatchInit, JobPageInit
  <2> QED  BY <2>1, <2>2 DEF PlaceOK
<1>2. PageFine
  <2>1. subs = <<>> /\ gets = {} /\ job = None /\ ~loading /\ shown = None /\ detail = None
    BY DEF Init, JobPageInit
  <2>2. DOMAIN subs = {}
    BY <2>1
  <2> QED  BY <2>1, <2>2 DEF PageFine, SubsFine, OwnMounted, GetsFine, LoadingAsks, ShownFine, Views
<1>3. ResolvedOK
  BY DEF Init, BatchInit, ResolvedOK
<1> QED  BY <1>1, <1>2, <1>3

(* At most one of the two pages is mounted, what was closed delivers nothing, *)
(* a loading page waits for its first answer, and the lists hold every job at *)
(* most once.                                                                 *)
THEOREM TabTypeCorrect == Spec => []TypeOK
<1> DEFINE IInv == /\ StreamInv /\ GetsOK /\ ShownIsOfThisJob /\ ChoiceInv /\ MadeInv
                   /\ PlaceOK /\ PageFine /\ ResolvedOK
<1>1. Init => IInv
  <2>1. Init => GetsOK /\ ShownIsOfThisJob
    BY DEF Init, JobPageInit, GetsOK, ShownIsOfThisJob
  <2>2. Init => ChoiceInv
    BY BatchAssumption DEF Init, BatchInit, ChoiceInv, ChoiceOK, SlotsFollow, SlotsAreOfChosen
  <2> QED  BY <2>1, <2>2, StreamsInit, MadeInit, FineInit
<1>2. IInv /\ [Next]_vars => IInv'
  BY StreamsStep, ShownStep, ChoiceStep, MadeStep, PlaceStep, FineStep, ResolvedStep
<1>3. IInv => TypeOK
  <2> SUFFICES ASSUME IInv PROVE TypeOK
    OBVIOUS
  <2>1. /\ server \in [Jobs -> Versions \cup {None, Gone}] /\ faults \in 0..MaxFaults
        /\ job \in Jobs \cup {None} /\ (onBatch => job = None)
    BY DEF StreamInv, ServerOK, JobOK, Snapshots, PlaceOK
  <2>2. \A s \in DOMAIN subs :
          /\ subs[s].job \in Created /\ subs[s].phase \in Phases
          /\ subs[s].phase # "open" => subs[s].chan = <<>>
    <3>1. \A s \in DOMAIN subs : subs[s] \in Sub
      BY DEF StreamInv, SubsOK
    <3> QED  BY <3>1 DEF PageFine, SubsFine, SubFine, Sub
  <2>3. /\ \A g \in gets : g.sub \in DOMAIN subs /\ subs[g.sub].mounted
        /\ shown \in Views /\ detail \in Jobs \cup {None}
        /\ loading => \E g \in gets : g.kind = "first" /\ Alive(g.sub)
    BY DEF GetsOK, PageFine, GetsFine, ShownFine, LoadingAsks
  <2>4. resolved \in Names \cup Readable \cup {None}
    BY DEF ResolvedOK
  <2>5. \A list \in {recents, listed} :
          Len(list) <= MaxRecents /\ Cardinality(Entries(list)) = Len(list)
    BY ListedOnce DEF MadeInv, ListOK
  <2> QED  BY <2>1, <2>2, <2>3, <2>4, <2>5 DEF TypeOK
<1> HIDE DEF IInv
<1> QED  BY <1>1, <1>2, <1>3, PTL DEF Spec
-----------------------------------------------------------------------------
(* THE EDITOR: the invariant                                                  *)
(* The form: records of their fields, sequences that TLAPS can extend, and in *)
(* every row a value for one mode at most.                                    *)
NoSource(row) == row.source \in {Absent, Null}
OneMode(row) ==
    /\ NoSource(row) \/ row.literal = Absent
    /\ NoSource(row) \/ row.source_cell = Absent
    /\ row.literal = Absent \/ row.source_cell = Absent
RowOK(row) ==
    /\ row = [target |-> row.target, source |-> row.source, literal |-> row.literal,
              source_cell |-> row.source_cell, conditions |-> row.conditions]
    /\ IsSeq(row.conditions)
    /\ OneMode(row)
RowsOK(rows) == IsSeq(rows) /\ \A m \in DOMAIN rows : RowOK(rows[m])

SourcesOK(sources) ==
    /\ IsSeq(sources) /\ Len(sources) <= MaxSources
    /\ \A i \in DOMAIN sources : sources[i] \in SourceOf({sources[i].alias})
Template ==
    [file : FileObjects \cup {NoFile}, sheet : {""} \cup STRING, header_row : Nat \ {0},
     columns : Seq(STRING), sample : Files \cup {Absent}]
FormOK(f) ==
    /\ f = [name |-> f.name, target |-> f.target, sources |-> f.sources,
            joins |-> f.joins, mappings |-> f.mappings]
    /\ f.target \in Template
    /\ SourcesOK(f.sources)
    /\ IsSeq(f.joins)
    /\ RowsOK(f.mappings)

(* A picker: what it has been sent, and the requests it still waits for, made *)
(* with a form that had its file.                                             *)
Sheets == Seq([name : STRING, rows : Seq(Seq(STRING))])
AskOK(p, k) == p.ask # <<>> =>
    /\ p.ask = <<p.ask[1]>>
    /\ FormOK(p.ask[1])
    /\ Part(p.ask[1], k).file = p.file
MoreOK(p) == p.more # <<>> =>
    /\ p.more = <<p.more[1]>>
    /\ p.more[1].file \in FileObjects /\ p.more[1].from \in Nat \ {0}
PickOK(p, k) ==
    /\ p = [file |-> p.file, sheets |-> p.sheets, ask |-> p.ask, late |-> p.late,
            more |-> p.more, loading |-> p.loading, error |-> p.error]
    /\ p.file = NoFile => p = NoPicker
    /\ p.sheets \in Sheets
    /\ AskOK(p, k) /\ MoreOK(p)
PickersOK ==
    /\ picker = [k \in Keys |-> picker[k]]
    /\ \A k \in Keys : PickOK(picker[k], k) /\ picker[k].file = Part(form, k).file
EditsOK == entry \in {"builder", "wizard"} /\ edits \in 0..MaxEdits /\ disturbed \in BOOLEAN
EditInv == EditsOK /\ FormOK(form) /\ PickersOK

(* A picker that waits for no answer and shows no error has the sheets of its *)
(* file, each with its first row when it has one; and when all rows are the   *)
(* file's own, the columns of the form are those of the chosen row.           *)
SheetsOf(p) ==
    /\ DOMAIN p.sheets = DOMAIN Book[p.file.name]
    /\ \A s \in DOMAIN p.sheets :
          /\ p.sheets[s].name = Book[p.file.name][s].name
          /\ Book[p.file.name][s].rows # <<>> => p.sheets[s].rows # <<>>
Own(p) ==
    /\ Len(p.sheets) = Len(Book[p.file.name])
    /\ \A s \in DOMAIN p.sheets : IsPrefix(p.sheets[s].rows, Book[p.file.name][s].rows)
IsRead(p, part) ==
    p.file # NoFile /\ p.ask = <<>> /\ ~p.error =>
        SheetsOf(p) /\ (Own(p) => part.columns = HeaderOf(p.file, part))
ColumnsInv == ~disturbed => \A k \in Keys : IsRead(picker[k], Part(form, k))

-----------------------------------------------------------------------------
(* Every non-empty set of numbers up to n has a greatest one.                 *)
LEMMA GreatestNumber ==
  ASSUME NEW n \in Nat, NEW I \in SUBSET (1..n), I # {}
  PROVE  \E i \in I : \A j \in I : j <= i
<1> DEFINE J == {m \in 0..n : n - m \in I}
<1>1. J \in SUBSET Nat /\ J # {}
  <2>1. PICK i \in I : TRUE
    OBVIOUS
  <2>2. n - i \in 0..n /\ n - (n - i) = i
    BY <2>1
  <2>3. n - i \in J
    BY <2>1, <2>2
  <2>4. J \subseteq 0..n
    OBVIOUS
  <2>5. 0..n \subseteq Nat
    OBVIOUS
  <2> HIDE DEF J
  <2> QED  BY <2>3, <2>4, <2>5
<1>2. PICK m \in J : \A l \in J : m <= l
  <2> HIDE DEF J
  <2> QED  BY <1>1, LeastNumber
<1>3. n - m \in I /\ m \in 0..n
  OBVIOUS
<1>4. ASSUME NEW j \in I
      PROVE  j <= n - m
  <2>1. n - j \in 0..n /\ n - (n - j) = j /\ j \in 1..n
    OBVIOUS
  <2>2. n - j \in J
    BY <2>1
  <2>3. m <= n - j
    BY <1>2, <2>2
  <2> QED  BY <1>3, <2>1, <2>3
<1> QED  BY <1>3, <1>4

(* The distinct elements of a sequence are its elements.                      *)
LEMMA DistinctElements ==
  ASSUME NEW S, NEW seq \in Seq(S)
  PROVE  Distinct(seq) \in Seq(S) /\ ToSet(Distinct(seq)) = ToSet(seq)
<1> DEFINE places == {i \in DOMAIN seq : \A j \in 1..(i - 1) : seq[j] # seq[i]}
           d == Distinct(seq)
<1>1. d = Picked(seq, places)
  BY DEF Distinct
<1>2. /\ d \in Seq(S)
      /\ \A k \in DOMAIN d : \E i \in DOMAIN seq : i \in places /\ d[k] = seq[i]
      /\ \A i \in DOMAIN seq : i \in places => \E k \in DOMAIN d : d[k] = seq[i]
  <2> HIDE DEF places, d
  <2> QED  BY <1>1, PickedElements
<1>3. DOMAIN seq = 1..Len(seq) /\ Len(seq) \in Nat
  OBVIOUS
<1>4. ASSUME NEW i \in DOMAIN seq
      PROVE  \E k \in DOMAIN d : d[k] = seq[i]
  <2> DEFINE I == {j \in DOMAIN seq : seq[j] = seq[i]}
  <2>1. I \in SUBSET Nat /\ i \in I
    BY <1>3
  <2>2. PICK j \in I : \A l \in I : j <= l
    <3> HIDE DEF I
    <3> QED  BY <2>1, LeastNumber
  <2>3. j \in DOMAIN seq /\ seq[j] = seq[i] /\ j \in 1..Len(seq)
    BY <1>3
  <2>4. \A l \in 1..(j - 1) : seq[l] # seq[j]
    <3> SUFFICES ASSUME NEW l \in 1..(j - 1), seq[l] = seq[j] PROVE FALSE
      OBVIOUS
    <3>1. l \in DOMAIN seq /\ l < j
      BY <1>3, <2>3
    <3>2. l \in I
      BY <2>3, <3>1
    <3>3. j <= l
      BY <2>2, <3>2
    <3> QED  BY <2>3, <3>1, <3>3
  <2>5. j \in places
    BY <2>3, <2>4
  <2> HIDE DEF places, d, I
  <2> QED  BY <1>2, <2>3, <2>5
<1> HIDE DEF d, places
<1>5. ToSet(d) = ToSet(seq)
  <2>1. \A k \in DOMAIN d : d[k] \in ToSet(seq)
    BY <1>2 DEF ToSet
  <2>2. \A i \in DOMAIN seq : seq[i] \in ToSet(d)
    BY <1>4 DEF ToSet
  <2>3. ToSet(d) \subseteq ToSet(seq)
    BY <2>1 DEF ToSet
  <2>4. ToSet(seq) \subseteq ToSet(d)
    BY <2>2 DEF ToSet
  <2> QED  BY <2>3, <2>4
<1> QED  BY <1>2, <1>5 DEF d

(* Leaving blanks out, and joining a sequence of sequences.                   *)
LEMMA NonBlankColumns ==
  ASSUME NEW S, NEW cols \in Seq(S)
  PROVE  NonBlanks(cols) \in Seq(S)
BY PickedElements DEF NonBlanks

LEMMA FlattenedIsSeq ==
  ASSUME NEW S, NEW seqs \in Seq(Seq(S))
  PROVE  FlattenSeq(seqs) \in Seq(S)
<1> DEFINE N == Len(seqs)
           X == Seq(S)
           More(q, i) == q \o seqs[i]
           Value(f, i) == IF i = 1 THEN seqs[i] ELSE More(f[i - 1], i)
           Is(f) == f = [i \in 1..N |-> Value(f, i)]
           F == CHOOSE f : Is(f)
<1>1. N \in Nat /\ \A i \in 1..N : seqs[i] \in X
  OBVIOUS
<1>2. CASE N = 0
  <2>1. FlattenSeq(seqs) = <<>>
    <3>1. seqs = <<>>
      BY <1>2
    <3> QED  BY <1>2, <3>1 DEF FlattenSeq
  <2> QED  BY <2>1
<1>3. CASE N # 0
  <2>1. FlattenSeq(seqs) = F[N]
    BY <1>3 DEF FlattenSeq
  <2> DEFINE n == N - 1
             base == seqs[1]
             step == [i \in 1..n |-> [q \in X |-> More(q, i + 1)]]
  <2>2. n \in Nat /\ 1 \in 1..N /\ N = n + 1 /\ base \in X
    BY <1>1, <1>3
  <2>3. \A i \in 1..n : i + 1 \in 1..N
    BY <2>2
  <2>4. ASSUME NEW i \in 1..N, NEW q \in X
        PROVE  More(q, i) \in X
    <3>1. seqs[i] \in X
      BY <1>1
    <3> QED  BY <3>1
  <2> HIDE DEF N, X, More, base, n
  <2>5. step \in [1..n -> [X -> X]]
    BY <2>3, <2>4
  <2>6. \A i \in 1..n : \A q \in X : step[i][q] = More(q, i + 1)
    OBVIOUS
  <2> HIDE DEF step
  <2>7. PICK g \in [0..n -> X] : Run(g, n, base, step)
    BY <2>2, <2>5, Recursion, SMT
  <2>8. g[0] = base /\ \A i \in 1..n : g[i] = More(g[i - 1], i + 1)
    <3>1. \A i \in 1..n : i - 1 \in 0..n
      BY <2>2
    <3> QED  BY <2>6, <2>7, <3>1 DEF Run
  <2> DEFINE f == [i \in 1..N |-> g[i - 1]]
  <2>9. Is(f)
    <3>1. ASSUME NEW i \in 1..N
          PROVE  f[i] = Value(f, i)
      <4>1. CASE i = 1
        BY <2>2, <2>8, <4>1 DEF base
      <4>2. CASE i # 1
        <5>1. i - 1 \in 1..n /\ i - 1 \in 1..N /\ (i - 1) + 1 = i
          BY <2>2, <4>2
        <5>2. g[i - 1] = More(g[(i - 1) - 1], (i - 1) + 1)
          BY <2>8, <5>1
        <5>3. f[i] = g[i - 1] /\ f[i - 1] = g[(i - 1) - 1]
          BY <5>1
        <5>4. f[i] = More(f[i - 1], i)
          BY <5>1, <5>2, <5>3
        <5> QED  BY <4>2, <5>4
      <4> QED  BY <4>1, <4>2
    <3> HIDE DEF Value
    <3> QED  BY <3>1
  <2>10. Is(F)
    <3> HIDE DEF Is
    <3> QED  BY <2>9
  <2> HIDE DEF F, f
  <2>11. F[1] = base /\ \A i \in 1..n : F[i + 1] = More(F[i], i + 1)
    <3>1. \A i \in 1..N : F[i] = Value(F, i)
      <4> HIDE DEF Value
      <4> QED  BY <2>10
    <3> HIDE DEF Is
    <3>2. \A i \in 1..n : i + 1 # 1 /\ (i + 1) - 1 = i
      BY <2>2
    <3> QED  BY <2>2, <2>3, <3>1, <3>2 DEF base
  <2> DEFINE J == {i \in 0..n : F[i + 1] \in X}
  <2>12. 0 \in J
    BY <2>2, <2>11
  <2>13. ASSUME NEW i \in 0..n, i \in J, i < n
         PROVE  i + 1 \in J
    <3>1. i + 1 \in 1..n /\ i + 1 \in 0..n /\ (i + 1) + 1 \in 1..N
      BY <2>2, <2>3, <2>13
    <3>2. F[(i + 1) + 1] = More(F[i + 1], (i + 1) + 1)
      BY <2>11, <3>1
    <3>3. F[i + 1] \in X
      BY <2>13
    <3> QED  BY <2>4, <3>1, <3>2, <3>3
  <2>14. n \in J
    <3> HIDE DEF J
    <3>1. \A i \in 0..n : i \in J /\ i < n => i + 1 \in J
      BY <2>13
    <3>2. \A i \in 0..n : i \in J
      BY <2>2, <2>12, <3>1, Counting
    <3> QED  BY <2>2, <3>2
  <2>15. F[N] \in X
    BY <2>2, <2>14
  <2> QED  BY <2>1, <2>15 DEF X
<1> QED  BY <1>2, <1>3

-----------------------------------------------------------------------------
(* The rows                                                                   *)

(* The rows that merging makes are new rows or old ones.                      *)
LEMMA FreshRowOK ==
  ASSUME NEW c
  PROVE  RowOK(FreshRow(c))
BY EmptyIsSeq DEF FreshRow, RowOK, OneMode, NoSource

(* The last of the rows with a target that some row has                       *)
LEMMA LastRowIsRow ==
  ASSUME NEW rows, IsSeq(rows), NEW t, t \in {rows[i].target : i \in DOMAIN rows}
  PROVE  \E i \in DOMAIN rows : LastRowOf(rows, t) = rows[i] /\ rows[i].target = t
<1> DEFINE I == {i \in DOMAIN rows : rows[i].target = t}
           IsLast(i) == rows[i].target = t /\ \A j \in DOMAIN rows : rows[j].target = t => j <= i
<1>1. DOMAIN rows = 1..Len(rows) /\ Len(rows) \in Nat
  BY SeqShape
<1>2. I \in SUBSET (1..Len(rows)) /\ I # {}
  BY <1>1
<1>3. PICK i \in I : \A j \in I : j <= i
  <2> HIDE DEF I
  <2> QED  BY <1>1, <1>2, GreatestNumber
<1>4. i \in DOMAIN rows /\ IsLast(i)
  BY <1>3
<1> DEFINE c == CHOOSE k \in DOMAIN rows : IsLast(k)
<1>5. c \in DOMAIN rows /\ IsLast(c)
  <2> HIDE DEF IsLast
  <2> QED  BY <1>4
<1>6. LastRowOf(rows, t) = rows[c]
  BY DEF LastRowOf
<1> HIDE DEF c
<1> QED  BY <1>5, <1>6

(* Merging makes no row but fresh ones, and keeps the row of a target that no *)
(* other row has.                                                             *)
LEMMA MergedRows ==
  ASSUME NEW rows, IsSeq(rows), NEW columns \in Seq(STRING)
  PROVE  /\ IsSeq(MergeMappingsWithColumns(rows, columns))
         /\ \A n \in DOMAIN MergeMappingsWithColumns(rows, columns) :
              \/ \E c : MergeMappingsWithColumns(rows, columns)[n] = FreshRow(c)
              \/ \E m \in DOMAIN rows : MergeMappingsWithColumns(rows, columns)[n] = rows[m]
         /\ \A m \in DOMAIN rows :
              (\A k \in DOMAIN rows : rows[k].target = rows[m].target => k = m)
              => \E n \in DOMAIN MergeMappingsWithColumns(rows, columns) :
                    MergeMappingsWithColumns(rows, columns)[n] = rows[m]
<1> DEFINE targets == [i \in DOMAIN rows |-> rows[i].target]
           T == ToSet(targets)
           keys == Distinct(targets)
           cols == NonBlanks(columns)
           places == {i \in DOMAIN keys : keys[i] \notin ToSet(cols)}
           left == Picked(keys, places)
           kept(i) == cols[i] \in ToSet(keys) /\ \A j \in 1..(i - 1) : cols[j] # cols[i]
           first == [i \in DOMAIN cols |->
                        IF kept(i) THEN LastRowOf(rows, cols[i]) ELSE FreshRow(cols[i])]
           rest == [i \in DOMAIN left |-> LastRowOf(rows, left[i])]
           merged == first \o rest
<1>1. merged = MergeMappingsWithColumns(rows, columns)
  BY DEF MergeMappingsWithColumns
<1>2. DOMAIN rows = 1..Len(rows) /\ Len(rows) \in Nat
  BY SeqShape
<1>3. targets \in Seq(T) /\ T = {rows[i].target : i \in DOMAIN rows}
  <2>1. targets = [i \in 1..Len(rows) |-> targets[i]]
    BY <1>2
  <2>2. IsSeq(targets)
    <3> HIDE DEF targets
    <3> QED  BY <1>2, <2>1, SeqMade
  <2>3. T = {rows[i].target : i \in DOMAIN rows}
    BY DEF ToSet
  <2> QED  BY <2>2, <2>3 DEF IsSeq
<1> HIDE DEF targets, T
<1>4. keys \in Seq(T) /\ ToSet(keys) = T
  <2>1. ToSet(targets) = T
    BY DEF T
  <2> QED  BY <1>3, <2>1, DistinctElements
<1>5. cols \in Seq(STRING)
  BY NonBlankColumns
<1> HIDE DEF keys, cols
<1>6. /\ left \in Seq(T)
      /\ \A i \in DOMAIN keys : i \in places => \E k \in DOMAIN left : left[k] = keys[i]
  <2> HIDE DEF places, left
  <2>1. left = Picked(keys, places)
    BY DEF left
  <2>2. left \in Seq(T)
    BY <1>4, <2>1, PickedElements
  <2>3. \A i \in DOMAIN keys : i \in places => \E k \in DOMAIN left : left[k] = keys[i]
    BY <1>4, <2>1, PickedElements
  <2> QED  BY <2>2, <2>3
<1> HIDE DEF left
<1>7. /\ DOMAIN cols = 1..Len(cols) /\ Len(cols) \in Nat
      /\ DOMAIN left = 1..Len(left) /\ Len(left) \in Nat /\ \A i \in DOMAIN left : left[i] \in T
  <2>1. left \in Seq(T)
    BY <1>6
  <2> QED  BY <1>5, <2>1
<1>8. IsSeq(first) /\ DOMAIN first = DOMAIN cols
  <2>1. first = [i \in 1..Len(cols) |-> first[i]]
    BY <1>7
  <2> HIDE DEF first
  <2> QED  BY <1>7, <2>1, SeqMade
<1>9. IsSeq(rest) /\ DOMAIN rest = DOMAIN left
  <2>1. rest = [i \in 1..Len(left) |-> rest[i]]
    BY <1>7
  <2> HIDE DEF rest
  <2> QED  BY <1>7, <2>1, SeqMade
<1>10. \A t \in T : \E i \in DOMAIN rows : LastRowOf(rows, t) = rows[i] /\ rows[i].target = t
  BY <1>3, LastRowIsRow
<1>11. ASSUME NEW n \in DOMAIN first
       PROVE  (\E c : first[n] = FreshRow(c)) \/ \E m \in DOMAIN rows : first[n] = rows[m]
  <2>1. CASE kept(n)
    <3>1. first[n] = LastRowOf(rows, cols[n]) /\ cols[n] \in T
      BY <1>4, <1>8, <1>11, <2>1
    <3> HIDE DEF first
    <3> QED  BY <1>10, <3>1
  <2>2. CASE ~kept(n)
    <3>1. first[n] = FreshRow(cols[n])
      BY <1>8, <1>11, <2>2
    <3> HIDE DEF first
    <3> QED  BY <3>1
  <2> QED  BY <2>1, <2>2
<1>12. ASSUME NEW n \in DOMAIN rest
       PROVE  \E m \in DOMAIN rows : rest[n] = rows[m]
  <2>1. rest[n] = LastRowOf(rows, left[n]) /\ left[n] \in T
    BY <1>7, <1>9, <1>12
  <2> HIDE DEF rest
  <2> QED  BY <1>10, <2>1
<1>13. ASSUME NEW m \in DOMAIN rows,
              \A k \in DOMAIN rows : rows[k].target = rows[m].target => k = m
       PROVE  (\E n \in DOMAIN first : first[n] = rows[m])
              \/ \E n \in DOMAIN rest : rest[n] = rows[m]
  <2> DEFINE t == rows[m].target
  <2>1. t \in T
    BY <1>3
  <2>2. LastRowOf(rows, t) = rows[m]
    BY <1>10, <1>13, <2>1
  <2>3. CASE t \in ToSet(cols)
    <3> DEFINE I == {i \in DOMAIN cols : cols[i] = t}
    <3>1. I \in SUBSET Nat /\ I # {}
      BY <1>7, <2>3 DEF ToSet
    <3>2. PICK i \in I : \A j \in I : i <= j
      <4> HIDE DEF I
      <4> QED  BY <3>1, LeastNumber
    <3>3. i \in DOMAIN cols /\ cols[i] = t /\ i \in 1..Len(cols)
      BY <1>7
    <3>4. \A j \in 1..(i - 1) : cols[j] # cols[i]
      <4> SUFFICES ASSUME NEW j \in 1..(i - 1), cols[j] = cols[i] PROVE FALSE
        OBVIOUS
      <4>1. j \in DOMAIN cols /\ j < i
        BY <1>7, <3>3
      <4>2. j \in I
        BY <3>3, <4>1
      <4>3. i <= j
        BY <3>2, <4>2
      <4> QED  BY <3>3, <4>1, <4>3
    <3>5. kept(i)
      BY <1>4, <2>1, <3>3, <3>4
    <3>6. first[i] = rows[m]
      BY <2>2, <3>3, <3>5
    <3> HIDE DEF first, I
    <3> QED  BY <1>8, <3>3, <3>6
  <2>4. CASE t \notin ToSet(cols)
    <3>1. PICK i \in DOMAIN keys : keys[i] = t
      BY <1>4, <2>1 DEF ToSet
    <3>2. PICK k \in DOMAIN left : left[k] = t
      BY <1>6, <2>4, <3>1
    <3>3. rest[k] = rows[m]
      BY <2>2, <3>2
    <3> HIDE DEF rest
    <3> QED  BY <1>9, <3>2, <3>3
  <2> QED  BY <2>3, <2>4
<1> HIDE DEF first, rest
<1>14. Joins(merged, first, rest)
  BY <1>8, <1>9, SeqJoined
<1> HIDE DEF merged
<1>15. \A n \in DOMAIN merged :
         (\E c : merged[n] = FreshRow(c)) \/ \E m \in DOMAIN rows : merged[n] = rows[m]
  BY <1>11, <1>12, <1>14 DEF Joins
<1>16. \A m \in DOMAIN rows :
         (\A k \in DOMAIN rows : rows[k].target = rows[m].target => k = m)
         => \E n \in DOMAIN merged : merged[n] = rows[m]
  BY <1>13, <1>14 DEF Joins
<1>17. IsSeq(merged)
  BY <1>14 DEF Joins
<1> QED  BY <1>1, <1>15, <1>16, <1>17
Modes == {"source", "literal", "source_cell"}
Refs == [alias : STRING, col : STRING]
StoredSource == [alias : STRING, role : {"primary", "lookup"}, sheet : STRING,
                 header_row : Nat \ {0}, sample : Files \cup {Absent}]
StoredRow == [target : STRING, source : Refs \cup {Absent}, literal : STRING \cup {Absent},
              source_cell : [alias : STRING, address : STRING] \cup {Absent},
              conditions : Seq(Refs)]

(* A configuration the server has stored, part by part.                       *)
LEMMA SavedShape ==
  ASSUME NEW c \in Saved
  PROVE  /\ Len(c.sources) <= MaxSources
         /\ IsSeq(c.sources) /\ IsSeq(c.joins) /\ IsSeq(c.mappings)
         /\ c.target \in [sheet : STRING, header_row : Nat \ {0}, columns : Seq(STRING),
                          sample : Files \cup {Absent}]
         /\ \A i \in DOMAIN c.sources : c.sources[i] \in StoredSource
         /\ \A i \in DOMAIN c.joins : c.joins[i].left \in Refs /\ c.joins[i].right \in Refs
         /\ \A i \in DOMAIN c.mappings : c.mappings[i] \in StoredRow
<1> DEFINE J == [left : Refs, right : Refs]
<1>1. /\ Len(c.sources) <= MaxSources
      /\ c.target \in [sheet : STRING, header_row : Nat \ {0}, columns : Seq(STRING),
                       sample : Files \cup {Absent}]
      /\ c.sources \in Seq(StoredSource)
      /\ c.joins \in Seq(J)
      /\ c.mappings \in Seq(StoredRow)
  BY SavedAssumption DEF StoredSource, StoredRow, Refs
<1>2. \A j \in J : j.left \in Refs /\ j.right \in Refs
  OBVIOUS
<1> HIDE DEF J
<1>3. IsSeq(c.sources) /\ \A i \in DOMAIN c.sources : c.sources[i] \in StoredSource
  BY <1>1, SeqIsSeq
<1>4. IsSeq(c.joins) /\ \A i \in DOMAIN c.joins : c.joins[i] \in J
  BY <1>1, SeqIsSeq
<1>5. IsSeq(c.mappings) /\ \A i \in DOMAIN c.mappings : c.mappings[i] \in StoredRow
  BY <1>1, SeqIsSeq
<1> QED  BY <1>1, <1>2, <1>3, <1>4, <1>5

(* A row has one value exactly when its modes exclude each other.             *)
LEMMA ModesFinite ==
  /\ IsFiniteSet(Modes)
  /\ \A S \in SUBSET Modes : /\ IsFiniteSet(S) /\ Cardinality(S) \in Nat
                             /\ Cardinality(S) = 0 <=> S = {}
                             /\ Cardinality(S) = 1 <=> \E m : S = {m}
<1>1. IsFiniteSet({}) /\ IsFiniteSet({} \cup {"source"})
  BY FS_EmptySet, FS_AddElement
<1>2. IsFiniteSet({} \cup {"source"} \cup {"literal"})
  BY <1>1, FS_AddElement
<1>3. IsFiniteSet({} \cup {"source"} \cup {"literal"} \cup {"source_cell"})
  BY <1>2, FS_AddElement
<1>4. Modes = {} \cup {"source"} \cup {"literal"} \cup {"source_cell"}
  BY DEF Modes
<1>5. IsFiniteSet(Modes)
  BY <1>3, <1>4
<1>6. ASSUME NEW S \in SUBSET Modes
      PROVE  /\ IsFiniteSet(S) /\ Cardinality(S) \in Nat
             /\ Cardinality(S) = 0 <=> S = {}
             /\ Cardinality(S) = 1 <=> \E m : S = {m}
  <2>1. IsFiniteSet(S)
    BY <1>5, FS_Subset
  <2> QED  BY <2>1, FS_CardinalityType, FS_EmptySet, FS_Singleton
<1> QED  BY <1>5, <1>6

(* The server takes a row with exactly one value.                             *)
LEMMA OneValue ==
  ASSUME NEW row, row.source # Null
  PROVE  Cardinality({m \in Modes : row[m] # Absent}) = 1
         <=> /\ OneMode(row)
             /\ \E m \in Modes : row[m] # Absent
<1> DEFINE S == {m \in Modes : row[m] # Absent}
<1>1. S \in SUBSET Modes
  OBVIOUS
<1>2. Cardinality(S) = 1 <=> \E m : S = {m}
  <2> HIDE DEF S
  <2> QED  BY <1>1, ModesFinite
<1>3. ASSUME NEW m, S = {m}
      PROVE  OneMode(row) /\ \E n \in Modes : row[n] # Absent
  <2>1. m \in Modes /\ row[m] # Absent
    BY <1>3
  <2>2. \A n \in Modes : row[n] # Absent => n = m
    BY <1>3
  <2> QED  BY <2>1, <2>2 DEF OneMode, NoSource, Modes
<1>4. ASSUME OneMode(row), NEW m \in Modes, row[m] # Absent
      PROVE  S = {m}
  <2>1. \A n \in Modes : row[n] # Absent => n = m
    BY <1>4 DEF OneMode, NoSource, Modes
  <2> QED  BY <1>4, <2>1
<1> QED  BY <1>2, <1>3, <1>4

-----------------------------------------------------------------------------
(* The forms to begin with                                                    *)

(* Sources and templates put together from their fields.                      *)
LEMMA SourceMade ==
  ASSUME NEW alias, NEW role \in {"primary", "lookup"}, NEW file \in FileObjects \cup {NoFile},
         NEW sheet \in {""} \cup STRING, NEW row \in Nat \ {0}, NEW columns \in Seq(STRING),
         NEW sample \in Files \cup {Absent}
  PROVE  [alias |-> alias, role |-> role, file |-> file, sheet |-> sheet, header_row |-> row,
          columns |-> columns, sample |-> sample] \in SourceOf({alias})
<1> DEFINE A == {alias}
           F == FileObjects \cup {NoFile}
           C == Seq(STRING)
<1>1. alias \in A /\ file \in F /\ columns \in C
  OBVIOUS
<1>2. SourceOf(A) = [alias : A, role : {"primary", "lookup"}, file : F, sheet : {""} \cup STRING,
                     header_row : Nat \ {0}, columns : C, sample : Files \cup {Absent}]
  BY DEF SourceOf
<1> HIDE DEF A, F, C
<1>3. [alias |-> alias, role |-> role, file |-> file, sheet |-> sheet, header_row |-> row,
       columns |-> columns, sample |-> sample] \in SourceOf(A)
  BY <1>1, <1>2
<1> QED  BY <1>3 DEF A

LEMMA TemplateMade ==
  ASSUME NEW file \in FileObjects \cup {NoFile}, NEW sheet \in {""} \cup STRING,
         NEW row \in Nat \ {0}, NEW columns \in Seq(STRING), NEW sample \in Files \cup {Absent}
  PROVE  [file |-> file, sheet |-> sheet, header_row |-> row, columns |-> columns,
          sample |-> sample] \in Template
BY DEF Template

LEMMA NewSourceOK ==
  ASSUME NEW alias, NEW role \in {"primary", "lookup"}
  PROVE  NewSource(alias, role) \in SourceOf({alias}) /\ NewSource(alias, role).alias = alias
<1>1. <<>> \in Seq(STRING) /\ "" \in {""} \cup STRING /\ 1 \in Nat \ {0}
  OBVIOUS
<1> QED  BY <1>1 DEF NewSource, SourceOf

(* The forms a page starts with are well formed.                              *)
LEMMA EmptyStateOK == FormOK(EmptyState)
<1>1. MaxSources \in Nat /\ 1 <= MaxSources
  BY EditorAssumption
<1> DEFINE s == NewSource("primary", "primary")
<1>2. s \in SourceOf({s.alias})
  BY NewSourceOK
<1> HIDE DEF s
<1>3. <<s>> \in Seq({s}) /\ Len(<<s>>) = 1 /\ <<s>>[1] = s
  OBVIOUS
<1>4. IsSeq(<<s>>) /\ \A i \in DOMAIN <<s>> : <<s>>[i] = s
  <2> DEFINE q == <<s>>
  <2>1. q \in Seq({s})
    BY <1>3
  <2> HIDE DEF q
  <2>2. IsSeq(q) /\ \A i \in DOMAIN q : q[i] \in {s}
    BY <2>1, SeqIsSeq
  <2> QED  BY <2>2 DEF q
<1>5. SourcesOK(<<s>>)
  BY <1>1, <1>2, <1>3, <1>4 DEF SourcesOK
<1> DEFINE t == [file |-> NoFile, sheet |-> "", header_row |-> 1, columns |-> <<>>, sample |-> Absent]
<1>6. t \in Template
  <2>1. <<>> \in Seq(STRING) /\ "" \in {""} \cup STRING /\ 1 \in Nat \ {0}
    OBVIOUS
  <2> QED  BY <2>1 DEF Template
<1> HIDE DEF t
<1>7. EmptyState = [name |-> "", target |-> t, sources |-> <<s>>, joins |-> <<>>, mappings |-> <<>>]
  BY DEF EmptyState, s, t
<1> QED  BY <1>5, <1>6, <1>7, EmptyIsSeq DEF FormOK, RowsOK

LEMMA InferredColumns ==
  ASSUME NEW c \in Saved, NEW alias
  PROVE  InferColumns(c, alias) \in Seq(STRING)
<1> DEFINE pair(i) == <<c.joins[i].left, c.joins[i].right>>
           joinRefs == FlattenSeq([i \in DOMAIN c.joins |-> pair(i)])
           own(i) == IF c.mappings[i].source = Absent THEN <<>> ELSE <<c.mappings[i].source>>
           rowRefs == FlattenSeq([i \in DOMAIN c.mappings |-> own(i) \o c.mappings[i].conditions])
           refs == joinRefs \o rowRefs
           places == {i \in DOMAIN refs : Qualified(refs[i]) /\ refs[i].alias = alias}
           used == Picked(refs, places)
           names == [i \in DOMAIN used |-> used[i].col]
<1>1. InferColumns(c, alias) = Distinct(names)
  BY DEF InferColumns
<1>2. /\ IsSeq(c.joins) /\ IsSeq(c.mappings)
      /\ \A i \in DOMAIN c.joins : c.joins[i].left \in Refs /\ c.joins[i].right \in Refs
      /\ \A i \in DOMAIN c.mappings : c.mappings[i] \in StoredRow
  BY SavedShape
<1>3. joinRefs \in Seq(Refs)
  <2>1. DOMAIN c.joins = 1..Len(c.joins) /\ Len(c.joins) \in Nat
    BY <1>2, SeqShape
  <2>2. \A i \in 1..Len(c.joins) : pair(i) \in Seq(Refs)
    <3> SUFFICES ASSUME NEW i \in 1..Len(c.joins) PROVE pair(i) \in Seq(Refs)
      OBVIOUS
    <3>1. c.joins[i].left \in Refs /\ c.joins[i].right \in Refs
      BY <1>2, <2>1
    <3> QED  BY <3>1
  <2> HIDE DEF pair
  <2>3. [i \in 1..Len(c.joins) |-> pair(i)] \in Seq(Seq(Refs))
    BY <2>1, <2>2
  <2> QED  BY <2>1, <2>3, FlattenedIsSeq
<1>4. rowRefs \in Seq(Refs)
  <2>1. DOMAIN c.mappings = 1..Len(c.mappings) /\ Len(c.mappings) \in Nat
    BY <1>2, SeqShape
  <2> DEFINE mine(i) == own(i) \o c.mappings[i].conditions
  <2>2. \A i \in 1..Len(c.mappings) : mine(i) \in Seq(Refs)
    <3> SUFFICES ASSUME NEW i \in 1..Len(c.mappings) PROVE mine(i) \in Seq(Refs)
      OBVIOUS
    <3>1. c.mappings[i].source \in Refs \cup {Absent} /\ c.mappings[i].conditions \in Seq(Refs)
      BY <1>2, <2>1 DEF StoredRow
    <3>2. own(i) \in Seq(Refs)
      BY <3>1
    <3> HIDE DEF own
    <3> QED  BY <3>1, <3>2
  <2>4. rowRefs = FlattenSeq([i \in 1..Len(c.mappings) |-> mine(i)])
    BY <2>1
  <2> HIDE DEF mine, rowRefs
  <2>3. [i \in 1..Len(c.mappings) |-> mine(i)] \in Seq(Seq(Refs))
    BY <2>1, <2>2
  <2> QED  BY <2>3, <2>4, FlattenedIsSeq
<1> HIDE DEF joinRefs, rowRefs
<1>5. refs \in Seq(Refs)
  BY <1>3, <1>4
<1> HIDE DEF refs, places
<1>6. used \in Seq(Refs)
  BY <1>5, PickedElements
<1> HIDE DEF used
<1>7. names \in Seq(STRING)
  <2>1. DOMAIN used = 1..Len(used) /\ Len(used) \in Nat /\ \A i \in 1..Len(used) : used[i].col \in STRING
    <3>1. DOMAIN used = 1..Len(used) /\ Len(used) \in Nat /\ \A i \in 1..Len(used) : used[i] \in Refs
      BY <1>6
    <3> QED  BY <3>1 DEF Refs
  <2>2. [i \in 1..Len(used) |-> used[i].col] \in Seq(STRING)
    BY <2>1
  <2> QED  BY <2>1, <2>2
<1> HIDE DEF names
<1> QED  BY <1>1, <1>7, DistinctElements

(* A row the server has stored, as the browser gets it.                       *)
LEMMA FetchedRow ==
  ASSUME NEW row \in StoredRow,
         Cardinality({v \in {"source", "literal", "source_cell"} : row[v] # Absent}) = 1
  PROVE  RowOK([row EXCEPT !.source = IF @ = Absent THEN Null ELSE @])
<1> DEFINE r == IF row.source = Absent THEN Null ELSE row.source
           g == [row EXCEPT !.source = r]
<1>1. IsSeq(row.conditions)
  <2>1. row.conditions \in Seq(Refs)
    BY DEF StoredRow
  <2> QED  BY <2>1, SeqIsSeq
<1>2. row.source # Null
  BY BookAssumption DEF StoredRow, Refs
<1>3. OneMode(row)
  <2>1. Cardinality({v \in Modes : row[v] # Absent}) = 1
    BY DEF Modes
  <2> QED  BY <1>2, <2>1, OneValue
<1>4. (row.source = Absent <=> r \in {Absent, Null}) /\ (row.source = Absent <=> NoSource(row))
  BY <1>2 DEF NoSource
<1>5. g = [target |-> row.target, source |-> r, literal |-> row.literal,
           source_cell |-> row.source_cell, conditions |-> row.conditions]
  <2> HIDE DEF r
  <2> QED  BY DEF StoredRow
<1> HIDE DEF r, g
<1>6. RowOK(g)
  BY <1>1, <1>3, <1>4, <1>5 DEF RowOK, OneMode, NoSource
<1> QED  BY <1>6 DEF g, r

LEMMA LoadedFormOK ==
  ASSUME NEW c \in Saved
  PROVE  FormOK(LoadForm(c))
<1> DEFINE f == LoadForm(c)
<1>1. /\ Len(c.sources) <= MaxSources
      /\ IsSeq(c.sources) /\ IsSeq(c.joins) /\ IsSeq(c.mappings)
      /\ c.target \in [sheet : STRING, header_row : Nat \ {0}, columns : Seq(STRING),
                       sample : Files \cup {Absent}]
      /\ \A i \in DOMAIN c.sources : c.sources[i] \in StoredSource
      /\ \A i \in DOMAIN c.mappings : c.mappings[i] \in StoredRow
  BY SavedShape
<1>0. ServerAccepts(c)
  BY SavedAssumption
<1>2. /\ f = [name |-> f.name, target |-> f.target, sources |-> f.sources,
              joins |-> f.joins, mappings |-> f.mappings]
      /\ f.joins = c.joins
      /\ f.mappings = [m \in DOMAIN c.mappings |->
            [c.mappings[m] EXCEPT !.source = IF @ = Absent THEN Null ELSE @]]
      /\ f.target = [file |-> NoFile, sheet |-> c.target.sheet, header_row |-> c.target.header_row,
                     columns |-> c.target.columns, sample |-> c.target.sample]
      /\ f.sources = [i \in DOMAIN c.sources |->
            [alias |-> c.sources[i].alias, role |-> c.sources[i].role, file |-> NoFile,
             sheet |-> c.sources[i].sheet, header_row |-> c.sources[i].header_row,
             columns |-> InferColumns(c, c.sources[i].alias), sample |-> c.sources[i].sample]]
  BY DEF LoadForm
<1> HIDE DEF f
<1>3. f.target \in Template
  <2> DEFINE t == c.target
             U == [sheet : STRING, header_row : Nat \ {0}, columns : Seq(STRING),
                   sample : Files \cup {Absent}]
  <2>1. t \in U /\ f.target = [file |-> NoFile, sheet |-> t.sheet, header_row |-> t.header_row,
                               columns |-> t.columns, sample |-> t.sample]
    BY <1>1, <1>2
  <2> HIDE DEF t
  <2>2. /\ t.sheet \in STRING /\ t.header_row \in Nat \ {0} /\ t.columns \in Seq(STRING)
        /\ t.sample \in Files \cup {Absent}
    BY <2>1
  <2>3. t.sheet \in {""} \cup STRING /\ NoFile \in FileObjects \cup {NoFile}
    BY <2>2
  <2>4. [file |-> NoFile, sheet |-> t.sheet, header_row |-> t.header_row, columns |-> t.columns,
         sample |-> t.sample] \in Template
    BY ONLY <2>2, <2>3, TemplateMade
  <2> QED  BY <2>1, <2>4
<1>4. IsSeq(f.joins)
  BY <1>1, <1>2
<1>5. SourcesOK(f.sources)
  <2>1. Len(c.sources) \in Nat /\ DOMAIN c.sources = 1..Len(c.sources)
    BY <1>1, SeqShape
  <2>2. f.sources = [i \in 1..Len(c.sources) |-> f.sources[i]]
    BY <1>2, <2>1
  <2>3. IsSeq(f.sources) /\ Len(f.sources) = Len(c.sources) /\ DOMAIN f.sources = 1..Len(c.sources)
    BY <2>1, <2>2, SeqMade
  <2>4. ASSUME NEW i \in DOMAIN f.sources
        PROVE  f.sources[i] \in SourceOf({f.sources[i].alias})
    <3>1. c.sources[i] \in StoredSource
      BY <1>1, <2>1, <2>3
    <3>2. InferColumns(c, c.sources[i].alias) \in Seq(STRING)
      BY InferredColumns
    <3>3. f.sources[i] = [alias |-> c.sources[i].alias, role |-> c.sources[i].role, file |-> NoFile,
             sheet |-> c.sources[i].sheet, header_row |-> c.sources[i].header_row,
             columns |-> InferColumns(c, c.sources[i].alias), sample |-> c.sources[i].sample]
      BY <1>2, <2>1, <2>3
    <3> DEFINE a == c.sources[i]
               cols == InferColumns(c, a.alias)
    <3>4. a \in StoredSource /\ cols \in Seq(STRING)
      BY <3>1, <3>2
    <3>5. f.sources[i] = [alias |-> a.alias, role |-> a.role, file |-> NoFile, sheet |-> a.sheet,
                          header_row |-> a.header_row, columns |-> cols, sample |-> a.sample]
      BY <3>3
    <3> HIDE DEF a, cols
    <3>6. /\ a.role \in {"primary", "lookup"} /\ a.sheet \in STRING /\ a.header_row \in Nat \ {0}
          /\ a.sample \in Files \cup {Absent}
      BY <3>4 DEF StoredSource
    <3>9. a.sheet \in {""} \cup STRING /\ NoFile \in FileObjects \cup {NoFile}
      BY <3>6
    <3>10. [alias |-> a.alias, role |-> a.role, file |-> NoFile, sheet |-> a.sheet,
            header_row |-> a.header_row, columns |-> cols, sample |-> a.sample]
             \in SourceOf({a.alias})
      BY ONLY <3>4, <3>6, <3>9, SourceMade
    <3>7. f.sources[i] \in SourceOf({a.alias})
      BY <3>5, <3>10
    <3>8. f.sources[i].alias = a.alias
      BY <3>5
    <3> QED  BY <3>7, <3>8
  <2> QED  BY <1>1, <2>3, <2>4 DEF SourcesOK
<1>6. RowsOK(f.mappings)
  <2>1. Len(c.mappings) \in Nat /\ DOMAIN c.mappings = 1..Len(c.mappings)
    BY <1>1, SeqShape
  <2>2. /\ IsSeq(f.mappings) /\ DOMAIN f.mappings = 1..Len(c.mappings)
        /\ \A m \in DOMAIN f.mappings :
              f.mappings[m] = [c.mappings[m] EXCEPT !.source = IF @ = Absent THEN Null ELSE @]
    <3>1. f.mappings = [m \in 1..Len(c.mappings) |-> f.mappings[m]]
      BY <1>2, <2>1
    <3> QED  BY <1>2, <2>1, <3>1, SeqMade
  <2>3. ASSUME NEW m \in DOMAIN f.mappings
        PROVE  RowOK(f.mappings[m])
    <3> DEFINE row == c.mappings[m]
    <3>1. row \in StoredRow
      BY <1>1, <2>1, <2>2
    <3>2. Cardinality({v \in {"source", "literal", "source_cell"} : row[v] # Absent}) = 1
      BY <1>0, <2>1, <2>2 DEF ServerAccepts
    <3>3. f.mappings[m] = [row EXCEPT !.source = IF @ = Absent THEN Null ELSE @]
      BY <2>2
    <3> HIDE DEF row
    <3> QED  BY <3>1, <3>2, <3>3, FetchedRow
  <2> QED  BY <2>2, <2>3 DEF RowsOK
<1>7. FormOK(f)
  BY <1>2, <1>3, <1>4, <1>5, <1>6 DEF FormOK
<1> QED  BY <1>7 DEF f
-----------------------------------------------------------------------------
(* Changes of the form                                                        *)

(* The parts of a form are numbered from one.                                 *)
LEMMA FormFields ==
  ASSUME NEW f, FormOK(f)
  PROVE  /\ Len(f.sources) \in Nat /\ DOMAIN f.sources = 1..Len(f.sources)
         /\ Len(f.sources) <= MaxSources /\ DOMAIN f.sources \subseteq Keys /\ 0 \notin DOMAIN f.sources
         /\ DOMAIN f.mappings = 1..Len(f.mappings) /\ DOMAIN f.joins = 1..Len(f.joins)
<1>1. IsSeq(f.sources) /\ Len(f.sources) <= MaxSources /\ IsSeq(f.joins) /\ IsSeq(f.mappings)
  BY DEF FormOK, SourcesOK, RowsOK
<1>2. /\ Len(f.sources) \in Nat /\ DOMAIN f.sources = 1..Len(f.sources)
      /\ DOMAIN f.mappings = 1..Len(f.mappings) /\ DOMAIN f.joins = 1..Len(f.joins)
  BY <1>1, SeqShape
<1>3. MaxSources \in Nat
  BY EditorAssumption
<1> QED  BY <1>1, <1>2, <1>3 DEF Keys

(* A form with another name, other joins, rows, template or sources.          *)
LEMMA NameChanged ==
  ASSUME NEW f, FormOK(f), NEW n,
         NEW g, g = [f EXCEPT !.name = n]
  PROVE  /\ FormOK(g)
         /\ \A k : Part(g, k) = Part(f, k)
<1>1. g = [name |-> n, target |-> f.target, sources |-> f.sources, joins |-> f.joins,
           mappings |-> f.mappings]
  BY DEF FormOK
<1>2. FormOK(g)
  BY <1>1 DEF FormOK
<1>3. \A k : Part(g, k) = Part(f, k)
  BY <1>1 DEF Part
<1> QED  BY <1>2, <1>3

LEMMA JoinsChanged ==
  ASSUME NEW f, FormOK(f), NEW j, IsSeq(j),
         NEW g, g = [f EXCEPT !.joins = j]
  PROVE  /\ FormOK(g)
         /\ \A k : Part(g, k) = Part(f, k)
<1>1. g = [name |-> f.name, target |-> f.target, sources |-> f.sources, joins |-> j,
           mappings |-> f.mappings]
  BY DEF FormOK
<1>2. FormOK(g)
  BY <1>1 DEF FormOK
<1>3. \A k : Part(g, k) = Part(f, k)
  BY <1>1 DEF Part
<1> QED  BY <1>2, <1>3

LEMMA MappingsChanged ==
  ASSUME NEW f, FormOK(f), NEW m, RowsOK(m),
         NEW g, g = [f EXCEPT !.mappings = m]
  PROVE  /\ FormOK(g)
         /\ \A k : Part(g, k) = Part(f, k)
<1>1. g = [name |-> f.name, target |-> f.target, sources |-> f.sources, joins |-> f.joins,
           mappings |-> m]
  BY DEF FormOK
<1>2. FormOK(g)
  BY <1>1 DEF FormOK
<1>3. \A k : Part(g, k) = Part(f, k)
  BY <1>1 DEF Part
<1> QED  BY <1>2, <1>3

LEMMA TargetChanged ==
  ASSUME NEW f, FormOK(f), NEW t \in Template,
         NEW g, g = [f EXCEPT !.target = t]
  PROVE  /\ FormOK(g)
         /\ Part(g, Target) = t
         /\ \A k : k # Target => Part(g, k) = Part(f, k)
<1>1. g = [name |-> f.name, target |-> t, sources |-> f.sources, joins |-> f.joins,
           mappings |-> f.mappings]
  BY DEF FormOK
<1>2. FormOK(g)
  BY <1>1 DEF FormOK
<1>3. Part(g, Target) = t
  BY <1>1 DEF Part
<1>4. \A k : k # Target => Part(g, k) = Part(f, k)
  BY <1>1 DEF Part
<1> QED  BY <1>2, <1>3, <1>4

(* g shows the sources s, and the target of f.                                *)
ShowsSources(g, f, s) ==
    /\ Part(g, Target) = Part(f, Target)
    /\ \A k : k # Target => Part(g, k) = IF k \in DOMAIN s THEN s[k] ELSE NewSource("", "lookup")

(* What a form with other sources shows at each position.                     *)
LEMMA SourcesChanged ==
  ASSUME NEW f, FormOK(f), NEW s, SourcesOK(s),
         NEW g, g = [f EXCEPT !.sources = s]
  PROVE  FormOK(g) /\ ShowsSources(g, f, s)
<1>1. g = [name |-> f.name, target |-> f.target, sources |-> s, joins |-> f.joins,
           mappings |-> f.mappings]
  BY DEF FormOK
<1>2. FormOK(g)
  BY <1>1 DEF FormOK
<1>3. Part(g, Target) = Part(f, Target)
  BY <1>1 DEF Part
<1>4. \A k : k # Target => Part(g, k) = IF k \in DOMAIN s THEN s[k] ELSE NewSource("", "lookup")
  BY <1>1 DEF Part
<1> QED  BY <1>2, <1>3, <1>4 DEF ShowsSources

(* One source of the form replaced by another                                 *)
LEMMA SourceChanged ==
  ASSUME NEW f, FormOK(f), NEW i \in DOMAIN f.sources, NEW s, s \in SourceOf({s.alias}),
         NEW g, g = [f EXCEPT !.sources[i] = s]
  PROVE  /\ FormOK(g)
         /\ Part(g, i) = s
         /\ \A k : k # i => Part(g, k) = Part(f, k)
<1> DEFINE q == [f.sources EXCEPT ![i] = s]
<1>1. g = [f EXCEPT !.sources = q]
  OBVIOUS
<1>2. /\ IsSeq(f.sources) /\ Len(f.sources) <= MaxSources
      /\ \A j \in DOMAIN f.sources : f.sources[j] \in SourceOf({f.sources[j].alias})
  BY DEF FormOK, SourcesOK
<1>3. /\ IsSeq(q) /\ Len(q) = Len(f.sources) /\ DOMAIN q = DOMAIN f.sources
      /\ \A j \in DOMAIN q : q[j] = IF j = i THEN s ELSE f.sources[j]
  BY <1>2, SeqReplaced
<1> HIDE DEF q
<1>4. SourcesOK(q)
  <2>1. ASSUME NEW j \in DOMAIN q PROVE q[j] \in SourceOf({q[j].alias})
    <3>1. CASE j = i
      BY <1>3, <3>1
    <3>2. CASE j # i
      BY <1>2, <1>3, <3>2
    <3> QED  BY <3>1, <3>2
  <2> QED  BY <1>2, <1>3, <2>1 DEF SourcesOK
<1>5. /\ FormOK(g) /\ Part(g, Target) = Part(f, Target)
      /\ \A k : k # Target => Part(g, k) = IF k \in DOMAIN q THEN q[k] ELSE NewSource("", "lookup")
  <2>1. FormOK(g) /\ ShowsSources(g, f, q)
    BY <1>1, <1>4, SourcesChanged
  <2> QED  BY <2>1 DEF ShowsSources
<1>6. i # Target
  BY FormFields DEF Target
<1>7. Part(g, i) = s
  BY <1>3, <1>5, <1>6
<1>8. \A k : k # i => Part(g, k) = Part(f, k)
  BY <1>3, <1>5 DEF Part
<1> QED  BY <1>5, <1>7, <1>8
(* A source and a template, field by field.                                   *)
LEMMA SourceFields ==
  ASSUME NEW s, NEW a, s \in SourceOf({a})
  PROVE  /\ s.alias = a /\ s.role \in {"primary", "lookup"} /\ s.file \in FileObjects \cup {NoFile}
         /\ s.sheet \in {""} \cup STRING /\ s.header_row \in Nat \ {0} /\ s.columns \in Seq(STRING)
         /\ s.sample \in Files \cup {Absent}
         /\ s = [alias |-> s.alias, role |-> s.role, file |-> s.file, sheet |-> s.sheet,
                 header_row |-> s.header_row, columns |-> s.columns, sample |-> s.sample]
<1> DEFINE A == {a}
           F == FileObjects \cup {NoFile}
           C == Seq(STRING)
           T == {""} \cup STRING
<1>1. s \in [alias : A, role : {"primary", "lookup"}, file : F, sheet : T,
             header_row : Nat \ {0}, columns : C, sample : Files \cup {Absent}]
  BY DEF SourceOf
<1>2. A = {a}
  OBVIOUS
<1> HIDE DEF A, F, C, T
<1>3. /\ s.alias \in A /\ s.role \in {"primary", "lookup"} /\ s.file \in F
      /\ s.sheet \in T /\ s.header_row \in Nat \ {0} /\ s.columns \in C
      /\ s.sample \in Files \cup {Absent}
  BY <1>1
<1>4. s = [alias |-> s.alias, role |-> s.role, file |-> s.file, sheet |-> s.sheet,
           header_row |-> s.header_row, columns |-> s.columns, sample |-> s.sample]
  BY <1>1
<1>5. s.alias = a
  BY <1>2, <1>3
<1> USE DEF F, C, T
<1> QED  BY <1>3, <1>4, <1>5

LEMMA TargetFields ==
  ASSUME NEW t \in Template
  PROVE  /\ t.file \in FileObjects \cup {NoFile} /\ t.sheet \in {""} \cup STRING
         /\ t.header_row \in Nat \ {0} /\ t.columns \in Seq(STRING)
         /\ t.sample \in Files \cup {Absent}
         /\ t = [file |-> t.file, sheet |-> t.sheet, header_row |-> t.header_row,
                 columns |-> t.columns, sample |-> t.sample]
<1> DEFINE F == FileObjects \cup {NoFile}
           C == Seq(STRING)
           T == {""} \cup STRING
           S == Files \cup {Absent}
<1>1. t \in [file : F, sheet : T, header_row : Nat \ {0}, columns : C, sample : S]
  BY DEF Template
<1> HIDE DEF F, C, T, S
<1>2. t.file \in F /\ t.sheet \in T /\ t.header_row \in Nat \ {0} /\ t.columns \in C /\ t.sample \in S
  BY <1>1
<1>3. t = [file |-> t.file, sheet |-> t.sheet, header_row |-> t.header_row,
           columns |-> t.columns, sample |-> t.sample]
  BY <1>1
<1> USE DEF F, C, T, S
<1> QED  BY <1>2, <1>3

LEMMA SourceOfForm ==
  ASSUME NEW f, FormOK(f), NEW i \in DOMAIN f.sources
  PROVE  /\ f.sources[i] \in SourceOf({f.sources[i].alias})
         /\ Part(f, i) = f.sources[i]
<1>1. i # Target
  BY FormFields DEF Target
<1> QED  BY <1>1 DEF FormOK, SourcesOK, Part

(* The part a position shows, whatever the position                           *)
LEMMA PartFields ==
  ASSUME NEW f, FormOK(f), NEW k
  PROVE  /\ Part(f, k).file \in FileObjects \cup {NoFile}
         /\ Part(f, k).header_row \in Nat \ {0}
<1>1. CASE k = Target
  <2>1. Part(f, k) = f.target /\ f.target \in Template
    BY <1>1 DEF Part, FormOK
  <2> QED  BY <2>1, TargetFields
<1>2. CASE k # Target /\ k \in DOMAIN f.sources
  <2> DEFINE s == Part(f, k)
  <2>1. s \in SourceOf({s.alias})
    BY <1>2, SourceOfForm
  <2> HIDE DEF s
  <2>2. s.file \in FileObjects \cup {NoFile} /\ s.header_row \in Nat \ {0}
    BY <2>1, SourceFields
  <2> QED  BY <2>2 DEF s
<1>3. CASE k # Target /\ k \notin DOMAIN f.sources
  BY <1>3 DEF Part, NewSource
<1> QED  BY <1>1, <1>2, <1>3

(* A source appended: the other positions show what they showed.              *)
LEMMA SourceAdded ==
  ASSUME NEW f, FormOK(f), NEW s, s \in SourceOf({s.alias}), Len(f.sources) < MaxSources,
         NEW g, g = [f EXCEPT !.sources = Append(f.sources, s)]
  PROVE  /\ FormOK(g)
         /\ Part(g, Len(f.sources) + 1) = s
         /\ \A k : k # Len(f.sources) + 1 =>
               Part(g, k) = Part(f, k)
         /\ Part(f, Len(f.sources) + 1).file = NoFile
<1> DEFINE n == Len(f.sources)
           q == Append(f.sources, s)
<1>1. /\ IsSeq(f.sources) /\ \A j \in DOMAIN f.sources : f.sources[j] \in SourceOf({f.sources[j].alias})
  BY DEF FormOK, SourcesOK
<1>2. n \in Nat /\ DOMAIN f.sources = 1..n
  BY FormFields
<1>3. /\ IsSeq(q) /\ Len(q) = n + 1 /\ q[n + 1] = s
      /\ \A i \in DOMAIN f.sources : q[i] = f.sources[i]
      /\ \A i \in DOMAIN q : i \in DOMAIN f.sources \/ i = n + 1
  BY <1>1, SeqExtended
<1> HIDE DEF q
<1>4. DOMAIN q = 1..(n + 1)
  BY <1>3, SeqShape
<1>5. SourcesOK(q)
  <2>1. ASSUME NEW j \in DOMAIN q PROVE q[j] \in SourceOf({q[j].alias})
    <3>1. CASE j \in DOMAIN f.sources
      BY <1>1, <1>3, <3>1
    <3>2. CASE j = n + 1
      BY <1>3, <3>2
    <3> QED  BY <1>3, <3>1, <3>2
  <2>2. n + 1 <= MaxSources
    BY <1>2, EditorAssumption
  <2> QED  BY <1>3, <2>1, <2>2 DEF SourcesOK
<1>6. /\ FormOK(g) /\ Part(g, Target) = Part(f, Target)
      /\ \A k : k # Target => Part(g, k) = IF k \in DOMAIN q THEN q[k] ELSE NewSource("", "lookup")
  <2>1. g = [f EXCEPT !.sources = q]
    BY DEF q
  <2>2. FormOK(g) /\ ShowsSources(g, f, q)
    BY <1>5, <2>1, SourcesChanged
  <2> QED  BY <2>2 DEF ShowsSources
<1>7. n + 1 # Target /\ n + 1 \in DOMAIN q /\ n + 1 \notin DOMAIN f.sources
  BY <1>2, <1>4 DEF Target
<1>8. Part(g, n + 1) = s
  BY <1>3, <1>6, <1>7
<1>9. Part(f, n + 1).file = NoFile
  BY <1>7 DEF Part, NewSource
<1>10. ASSUME NEW k, k # n + 1 PROVE Part(g, k) = Part(f, k)
  <2>1. CASE k = Target
    BY <1>6, <2>1
  <2>2. CASE k # Target /\ k \in DOMAIN f.sources
    <3>1. k \in DOMAIN q
      BY <1>2, <1>4, <2>2
    <3> QED  BY <1>3, <1>6, <2>2, <3>1 DEF Part
  <2>3. CASE k # Target /\ k \notin DOMAIN f.sources
    <3>1. k \notin DOMAIN q
      BY <1>3, <1>10, <2>3
    <3> QED  BY <1>6, <2>3, <3>1 DEF Part
  <2> QED  BY <2>1, <2>2, <2>3
<1> HIDE DEF n
<1>11. FormOK(g) /\ Part(g, n + 1) = s /\ (\A k : k # n + 1 => Part(g, k) = Part(f, k))
  BY <1>6, <1>8, <1>10
<1> QED  BY <1>9, <1>11 DEF q, n

(* Removing a source moves those after it one position up.                    *)
LEMMA SourceRemoved ==
  ASSUME NEW f, FormOK(f), NEW i \in DOMAIN f.sources,
         NEW g, g = [f EXCEPT !.sources = RemoveAt(f.sources, i)]
  PROVE  /\ FormOK(g)
         /\ \A k \in Keys :
              Part(g, k)
              = IF k = Target \/ k < i THEN Part(f, k)
                ELSE IF k + 1 \in DOMAIN f.sources THEN Part(f, k + 1)
                ELSE NewSource("", "lookup")
<1> DEFINE n == Len(f.sources)
           q == RemoveAt(f.sources, i)
<1>1. /\ IsSeq(f.sources) /\ n <= MaxSources
      /\ \A j \in DOMAIN f.sources : f.sources[j] \in SourceOf({f.sources[j].alias})
  BY DEF FormOK, SourcesOK
<1>2. n \in Nat /\ DOMAIN f.sources = 1..n /\ i \in 1..n
  BY FormFields
<1>3. /\ IsSeq(q) /\ Len(q) = n - 1
      /\ \A j \in DOMAIN q : q[j] = IF j < i THEN f.sources[j] ELSE f.sources[j + 1]
  BY <1>1, SeqShortened
<1> HIDE DEF q
<1>4. DOMAIN q = 1..(n - 1)
  BY <1>3, SeqShape
<1>5. SourcesOK(q)
  <2>1. ASSUME NEW j \in DOMAIN q PROVE q[j] \in SourceOf({q[j].alias})
    <3>1. j \in DOMAIN f.sources /\ j + 1 \in DOMAIN f.sources
      BY <1>2, <1>4
    <3>2. CASE j < i
      BY <1>1, <1>3, <3>1, <3>2
    <3>3. CASE ~(j < i)
      BY <1>1, <1>3, <3>1, <3>3
    <3> QED  BY <3>2, <3>3
  <2>2. n - 1 <= MaxSources
    BY <1>1, <1>2, EditorAssumption
  <2> QED  BY <1>3, <2>1, <2>2 DEF SourcesOK
<1>6. /\ FormOK(g) /\ Part(g, Target) = Part(f, Target)
      /\ \A k : k # Target => Part(g, k) = IF k \in DOMAIN q THEN q[k] ELSE NewSource("", "lookup")
  <2>1. g = [f EXCEPT !.sources = q]
    BY DEF q
  <2>2. FormOK(g) /\ ShowsSources(g, f, q)
    BY <1>5, <2>1, SourcesChanged
  <2> QED  BY <2>2 DEF ShowsSources
<1> HIDE DEF n
<1>7. ASSUME NEW k \in Keys
      PROVE  Part(g, k) = IF k = Target \/ k < i THEN Part(f, k)
                          ELSE IF k + 1 \in DOMAIN f.sources THEN Part(f, k + 1)
                          ELSE NewSource("", "lookup")
  <2>0. k \in Nat
    BY EditorAssumption DEF Keys
  <2>1. CASE k = Target
    BY <1>6, <2>1
  <2>2. CASE k # Target /\ k < i
    <3>1. k \in DOMAIN q /\ k \in DOMAIN f.sources
      BY <1>2, <1>4, <2>0, <2>2 DEF Target
    <3>2. Part(g, k) = f.sources[k]
      BY <1>3, <1>6, <2>2, <3>1
    <3> QED  BY <2>2, <3>1, <3>2, SourceOfForm
  <2>3. CASE k # Target /\ ~(k < i)
    <3>1. k + 1 \in DOMAIN f.sources <=> k \in DOMAIN q
      BY <1>2, <1>4, <2>0, <2>3 DEF Target
    <3>2. CASE k \in DOMAIN q
      <4>1. Part(g, k) = f.sources[k + 1]
        BY <1>3, <1>6, <2>3, <3>2
      <4>2. Part(f, k + 1) = f.sources[k + 1]
        BY <3>1, <3>2, SourceOfForm
      <4> QED  BY <2>3, <3>1, <3>2, <4>1, <4>2
    <3>3. CASE k \notin DOMAIN q
      BY <1>6, <2>3, <3>1, <3>3
    <3> QED  BY <3>2, <3>3
  <2> QED  BY <2>1, <2>2, <2>3
<1> QED  BY <1>6, <1>7 DEF q
-----------------------------------------------------------------------------
(* The rows of a workbook                                                     *)

(* The rows the server sends of a sheet.                                      *)
LEMMA SmallerOfTwo ==
  ASSUME NEW a \in Int, NEW b \in Int
  PROVE  Min({a, b}) = IF a <= b THEN a ELSE b
<1> DEFINE m == IF a <= b THEN a ELSE b
<1>1. m \in {a, b} /\ \A y \in {a, b} : m <= y
  OBVIOUS
<1>2. \A x \in {a, b} : (\A y \in {a, b} : x <= y) => x = m
  OBVIOUS
<1> HIDE DEF m
<1>3. Min({a, b}) = m
  BY <1>1, <1>2 DEF Min
<1> QED  BY <1>3 DEF m

LEMMA SentRows ==
  ASSUME NEW S, NEW rows \in Seq(S), NEW first \in Nat \ {0}
  PROVE  /\ RowsFrom(rows, first) \in Seq(S)
         /\ first = 1 => /\ RowsFrom(rows, 1) = SubSeq(rows, 1, Len(RowsFrom(rows, 1)))
                         /\ Len(RowsFrom(rows, 1)) <= Len(rows)
                         /\ rows # <<>> => RowsFrom(rows, 1) # <<>>
<1> DEFINE n == Len(rows)
           e == first + PreviewRows - 1
           m == IF n <= e THEN n ELSE e
<1>1. n \in Nat /\ e \in Nat /\ e >= 1 /\ m \in Nat /\ m <= n /\ (n # 0 => m # 0)
  BY EditorAssumption
<1>2. RowsFrom(rows, first) = SubSeq(rows, first, m)
  BY <1>1, SmallerOfTwo DEF RowsFrom
<1>3. \A i \in 1..n : rows[i] \in S
  OBVIOUS
<1> HIDE DEF m, e
<1>4. SubSeq(rows, first, m) \in Seq(S)
  <2>1. \A i \in first..m : rows[i] \in S
    BY <1>1, <1>3
  <2> QED  BY <1>1, <2>1, SubSeqProperties
<1>5. ASSUME first = 1
      PROVE  /\ RowsFrom(rows, 1) = SubSeq(rows, 1, Len(RowsFrom(rows, 1)))
             /\ Len(RowsFrom(rows, 1)) <= Len(rows)
             /\ rows # <<>> => RowsFrom(rows, 1) # <<>>
  <2>1. \A i \in 1..m : rows[i] \in S
    BY <1>1, <1>3
  <2>2. Len(SubSeq(rows, 1, m)) = m
    <3>1. CASE m = 0
      BY <1>1, <2>1, <3>1
    <3>2. CASE m # 0
      BY <1>1, <2>1, <3>2
    <3> QED  BY <3>1, <3>2
  <2>3. RowsFrom(rows, 1) = SubSeq(rows, 1, m)
    BY <1>2, <1>5
  <2>4. rows # <<>> => m # 0
    BY <1>1
  <2>5. SubSeq(rows, 1, m) \in Seq(S)
    BY <1>4, <1>5
  <2>6. m # 0 => SubSeq(rows, 1, m) # <<>>
    BY <2>2
  <2> QED  BY <1>1, <2>2, <2>3, <2>4, <2>6
<1> QED  BY <1>2, <1>4, <1>5

(* A prefix has the elements of the whole.                                    *)
LEMMA PrefixElements ==
  ASSUME NEW S, NEW p \in Seq(S), NEW q \in Seq(S), IsPrefix(p, q)
  PROVE  Len(p) <= Len(q) /\ \A i \in DOMAIN p : i \in DOMAIN q /\ p[i] = q[i]
<1>1. Len(p) \in Nat /\ Len(q) \in Nat /\ Len(p) <= Len(q)
      /\ SubSeq(p, 1, Len(p)) = SubSeq(q, 1, Len(p))
  BY DEF IsPrefix
<1>2. ASSUME NEW i \in DOMAIN p
      PROVE  i \in DOMAIN q /\ p[i] = q[i]
  <2>1. i \in 1..Len(p) /\ i \in 1..Len(q) /\ DOMAIN q = 1..Len(q)
    BY <1>1
  <2>2. SubSeq(p, 1, Len(p))[i] = p[i]
    BY <1>1, <2>1
  <2>3. SubSeq(q, 1, Len(p))[i] = q[i]
    BY <1>1, <2>1
  <2> QED  BY <1>1, <2>1, <2>2, <2>3
<1> QED  BY <1>1, <1>2

LEMMA PrefixOfLonger ==
  ASSUME NEW S, NEW p \in Seq(S), NEW r \in Seq(S), NEW q \in Seq(S), IsPrefix(p \o r, q)
  PROVE  IsPrefix(p, q)
<1>1. p \o r \in Seq(S)
  OBVIOUS
<1>2. Len(p \o r) <= Len(q) /\ \A i \in DOMAIN (p \o r) : i \in DOMAIN q /\ (p \o r)[i] = q[i]
  BY <1>1, PrefixElements
<1>3. /\ Len(p) \in Nat /\ Len(r) \in Nat /\ Len(q) \in Nat
      /\ Len(p \o r) = Len(p) + Len(r) /\ DOMAIN (p \o r) = 1..(Len(p) + Len(r))
  OBVIOUS
<1>4. \A i \in 1..Len(p) : (p \o r)[i] = p[i]
  OBVIOUS
<1>5. Len(p) <= Len(q) /\ \A i \in 1..Len(p) : q[i] = p[i]
  BY <1>2, <1>3, <1>4
<1>6. SubSeq(p, 1, Len(p)) = p
  BY <1>3
<1>7. SubSeq(q, 1, Len(p)) = p
  <2>1. SubSeq(q, 1, Len(p)) \in Seq(S) /\ Len(SubSeq(q, 1, Len(p))) = Len(p)
    <3>1. \A i \in 1..Len(p) : q[i] \in S
      BY <1>3, <1>5
    <3>2. CASE Len(p) = 0
      BY <3>1, <3>2
    <3>3. CASE Len(p) # 0
      BY <1>3, <3>1, <3>3
    <3> QED  BY <3>2, <3>3
  <2>2. \A i \in 1..Len(p) : SubSeq(q, 1, Len(p))[i] = q[i]
    BY <1>3, <1>5
  <2> QED  BY <1>3, <1>5, <2>1, <2>2
<1> QED  BY <1>5, <1>6, <1>7 DEF IsPrefix
SheetOf == [name : STRING, rows : Seq(Seq(STRING))]

(* Sheets, name and rows.                                                     *)
LEMMA SheetsShape ==
  ASSUME NEW sheets \in Sheets
  PROVE  /\ Len(sheets) \in Nat /\ DOMAIN sheets = 1..Len(sheets)
         /\ \A s \in DOMAIN sheets :
              /\ sheets[s].name \in STRING /\ sheets[s].rows \in Seq(Seq(STRING))
              /\ sheets[s] = [name |-> sheets[s].name, rows |-> sheets[s].rows]
<1>1. sheets \in Seq(SheetOf)
  BY DEF Sheets, SheetOf
<1>2. Len(sheets) \in Nat /\ DOMAIN sheets = 1..Len(sheets)
      /\ \A s \in DOMAIN sheets : sheets[s] \in SheetOf
  BY <1>1
<1>3. \A x \in SheetOf : /\ x.name \in STRING /\ x.rows \in Seq(Seq(STRING))
                         /\ x = [name |-> x.name, rows |-> x.rows]
  BY DEF SheetOf
<1> QED  BY <1>2, <1>3

LEMMA SheetsMade ==
  ASSUME NEW n \in Nat, NEW q, q = [s \in 1..n |-> q[s]],
         \A s \in 1..n : /\ q[s] = [name |-> q[s].name, rows |-> q[s].rows]
                         /\ q[s].name \in STRING /\ q[s].rows \in Seq(Seq(STRING))
  PROVE  q \in Sheets
<1>1. \A s \in 1..n : q[s] \in SheetOf
  BY DEF SheetOf
<1> DEFINE T == SheetOf
<1>2. [s \in 1..n |-> q[s]] \in Seq(T)
  <2> HIDE DEF T
  <2>1. \A s \in 1..n : q[s] \in T
    BY <1>1 DEF T
  <2> QED  BY <2>1
<1> QED  BY <1>2 DEF Sheets, SheetOf

(* The sheets of an uploaded workbook.                                        *)
LEMMA BookOf ==
  ASSUME NEW file \in FileObjects
  PROVE  /\ Book[file.name] \in Sheets /\ Book[file.name] # <<>>
         /\ \A s, t \in DOMAIN Book[file.name] :
               Book[file.name][s].name = Book[file.name][t].name => s = t
<1>1. file.name \in Files
  BY DEF FileObjects
<1> QED  BY <1>1, BookAssumption DEF Sheets

(* The first answer: the sheets of the file, each with a prefix of its rows.  *)
LEMMA FirstAnswer ==
  ASSUME NEW file \in FileObjects
  PROVE  /\ FirstRows(file) \in Sheets /\ FirstRows(file) # <<>>
         /\ DOMAIN FirstRows(file) = DOMAIN Book[file.name]
         /\ \A s \in DOMAIN Book[file.name] :
              /\ FirstRows(file)[s].name = Book[file.name][s].name
              /\ Book[file.name][s].rows # <<>> => FirstRows(file)[s].rows # <<>>
<1> DEFINE B == Book[file.name]
           q == FirstRows(file)
<1>1. B \in Sheets /\ B # <<>>
  BY BookOf
<1>2. q = [s \in DOMAIN B |-> [name |-> B[s].name, rows |-> RowsFrom(B[s].rows, 1)]]
  BY DEF FirstRows
<1> HIDE DEF B, q
<1>3. /\ Len(B) \in Nat /\ DOMAIN B = 1..Len(B)
      /\ \A s \in DOMAIN B : B[s].name \in STRING /\ B[s].rows \in Seq(Seq(STRING))
  BY <1>1, SheetsShape
<1>4. \A s \in DOMAIN B : /\ RowsFrom(B[s].rows, 1) \in Seq(Seq(STRING))
                          /\ B[s].rows # <<>> => RowsFrom(B[s].rows, 1) # <<>>
  <2> SUFFICES ASSUME NEW s \in DOMAIN B
               PROVE  /\ RowsFrom(B[s].rows, 1) \in Seq(Seq(STRING))
                      /\ B[s].rows # <<>> => RowsFrom(B[s].rows, 1) # <<>>
    OBVIOUS
  <2> DEFINE S == Seq(STRING)
             rows == B[s].rows
  <2>1. rows \in Seq(S) /\ 1 \in Nat \ {0}
    BY <1>3
  <2> HIDE DEF S, rows
  <2>2. RowsFrom(rows, 1) \in Seq(S) /\ (rows # <<>> => RowsFrom(rows, 1) # <<>>)
    BY <2>1, SentRows
  <2> QED  BY <2>2 DEF S, rows
<1>5. DOMAIN q = DOMAIN B /\ \A s \in DOMAIN B : q[s] = [name |-> B[s].name, rows |-> RowsFrom(B[s].rows, 1)]
  BY <1>2
<1>6. \A s \in DOMAIN B : q[s].name = B[s].name /\ q[s].rows = RowsFrom(B[s].rows, 1)
  BY <1>5
<1>7. q = [s \in 1..Len(B) |-> q[s]]
  BY <1>2, <1>3
<1>8. q \in Sheets
  BY <1>3, <1>4, <1>5, <1>6, <1>7, SheetsMade
<1>9. q # <<>>
  <2>1. Len(B) # 0
    <3>1. B \in Seq(SheetOf)
      BY <1>1 DEF Sheets, SheetOf
    <3> QED  BY <1>1, <3>1
  <2>2. 1 \in DOMAIN q
    BY <1>3, <1>5, <2>1
  <2> QED  BY <2>2
<1> QED  BY <1>4, <1>5, <1>6, <1>8, <1>9 DEF B, q

(* The header cells of the form are those of a row on show.                   *)
LEMMA ReadHeader ==
  ASSUME NEW p, p.file \in FileObjects, p.sheets \in Sheets, SheetsOf(p), Own(p),
         NEW s \in DOMAIN p.sheets, NEW n \in Nat,
         n = 1 \/ n \in DOMAIN p.sheets[s].rows,
         NEW part, part.sheet = p.sheets[s].name, part.header_row = n
  PROVE  HeaderOf(p.file, part) = RowAsHeaders(p.sheets[s].rows, n)
<1> DEFINE B == Book[p.file.name]
           rows == p.sheets[s].rows
           all == B[s].rows
           named == {t \in DOMAIN B : B[t].name = part.sheet}
<1>1. B \in Sheets /\ \A t, u \in DOMAIN B : B[t].name = B[u].name => t = u
  BY BookOf
<1>2. s \in DOMAIN B /\ B[s].name = part.sheet
  BY DEF SheetsOf
<1>3. named = {s}
  BY <1>1, <1>2
<1>4. HeaderOf(p.file, part) = RowAsHeaders(all, n)
  <2>1. (CHOOSE t \in named : TRUE) = s
    BY <1>3
  <2>2. named # {}
    BY <1>3
  <2> HIDE DEF named
  <2>3. HeaderOf(p.file, part) = RowAsHeaders(B[CHOOSE t \in named : TRUE].rows, part.header_row)
    BY <2>2 DEF HeaderOf, named
  <2> QED  BY <2>1, <2>3
<1>5. rows \in Seq(Seq(STRING)) /\ all \in Seq(Seq(STRING))
  BY <1>1, <1>2, SheetsShape
<1>6. IsPrefix(rows, all)
  BY DEF Own
<1>7. all # <<>> => rows # <<>>
  BY <1>2 DEF SheetsOf
<1> HIDE DEF rows, all, B
<1>8. Len(rows) <= Len(all) /\ \A i \in DOMAIN rows : i \in DOMAIN all /\ rows[i] = all[i]
  BY <1>5, <1>6, PrefixElements
<1>9. CASE n \in DOMAIN rows
  BY <1>4, <1>8, <1>9 DEF RowAsHeaders, rows
<1>10. CASE n \notin DOMAIN rows
  <2>1. n = 1
    BY <1>10 DEF rows
  <2>2. n \notin DOMAIN all
    <3> SUFFICES ASSUME n \in DOMAIN all PROVE FALSE
      OBVIOUS
    <3>1. all # <<>>
      OBVIOUS
    <3>2. 1 \in DOMAIN rows
      BY <1>5, <1>7, <3>1
    <3> QED  BY <1>10, <2>1, <3>2
  <2> QED  BY <1>4, <1>10, <2>2 DEF RowAsHeaders, rows
<1> QED  BY <1>9, <1>10
-----------------------------------------------------------------------------
(* Rendering a form                                                           *)

(* An unmounted picker, and one that has been rendered with a new form.       *)
LEMMA NoPickerOK ==
  ASSUME NEW k
  PROVE  PickOK(NoPicker, k) /\ NoPicker.file = NoFile
<1>1. <<>> \in Sheets
  BY DEF Sheets
<1> QED  BY <1>1 DEF PickOK, NoPicker, AskOK, MoreOK

LEMMA AfterRender ==
  ASSUME NEW k, NEW old, PickOK(old, k), NEW f, FormOK(f)
  PROVE  /\ PickOK(PickerAfter(k, old, f), k)
         /\ PickerAfter(k, old, f).file = Part(f, k).file
         /\ Part(f, k).file = NoFile => PickerAfter(k, old, f) = NoPicker
         /\ Part(f, k).file = old.file /\ Part(f, k).file # NoFile => PickerAfter(k, old, f) = old
         /\ Part(f, k).file # old.file /\ Part(f, k).file # NoFile =>
                PickerAfter(k, old, f).ask = <<f>>
<1> DEFINE file == Part(f, k).file
           p == PickerAfter(k, old, f)
<1>1. CASE file = NoFile
  <2>1. p = NoPicker
    BY <1>1 DEF PickerAfter
  <2> QED  BY <1>1, <2>1, NoPickerOK
<1>2. CASE file # NoFile /\ old.file = file
  <2>1. p = old
    BY <1>2 DEF PickerAfter
  <2> QED  BY <1>2, <2>1
<1>3. CASE file # NoFile /\ old.file # file
  <2>1. p = [old EXCEPT !.file = file, !.ask = <<f>>, !.loading = TRUE,
                        !.late = old.late \cup ToSet(old.ask)]
    BY <1>3 DEF PickerAfter
  <2>2. old = [file |-> old.file, sheets |-> old.sheets, ask |-> old.ask, late |-> old.late,
               more |-> old.more, loading |-> old.loading, error |-> old.error]
        /\ old.sheets \in Sheets /\ MoreOK(old)
    BY DEF PickOK
  <2> DEFINE late == old.late \cup ToSet(old.ask)
             asked == <<f>>
  <2>3. asked[1] = f /\ asked = <<asked[1]>> /\ asked # <<>>
    OBVIOUS
  <2> HIDE DEF late, p, file, asked
  <2>4. p = [file |-> file, sheets |-> old.sheets, ask |-> asked, late |-> late,
             more |-> old.more, loading |-> TRUE, error |-> old.error]
    BY <2>1, <2>2 DEF late, asked
  <2>5. AskOK(p, k)
    BY <2>3, <2>4 DEF AskOK, file
  <2>6. MoreOK(p)
    BY <2>2, <2>4 DEF MoreOK
  <2>7. PickOK(p, k)
    BY <1>3, <2>2, <2>4, <2>5, <2>6 DEF PickOK
  <2> QED  BY <1>3, <2>4, <2>7 DEF p, file, asked
<1> QED  BY <1>1, <1>2, <1>3

(* A form that leaves of a position's file the sheet, header row and columns, *)
(* or has another file or none.                                               *)
Kept(p, q) ==
    \/ q.file = NoFile \/ q.file # p.file
    \/ q.sheet = p.sheet /\ q.header_row = p.header_row /\ q.columns = p.columns

(* Rendering a well-formed form leaves a well-formed page.                    *)
LEMMA Rendered ==
  ASSUME NEW f, FormOK(f), NEW pk, \A k \in Keys : PickOK(pk[k], k), Render(f, pk), EditsOK'
  PROVE  EditInv'
<1>1. form' = f /\ picker' = [k \in Keys |-> PickerAfter(k, pk[k], f)]
  BY DEF Render
<1>2. FormOK(form')
  BY <1>1
<1>3. \A k \in Keys : PickOK(picker'[k], k) /\ picker'[k].file = Part(form', k).file
  BY <1>1, AfterRender
<1>4. picker' = [k \in Keys |-> picker'[k]]
  BY <1>1
<1>5. PickersOK'
  <2>1. (\A k \in Keys : PickOK(picker[k], k) /\ picker[k].file = Part(form, k).file)'
    BY <1>3
  <2>2. (picker = [k \in Keys |-> picker[k]])'
    BY <1>4
  <2> QED  BY <2>1, <2>2 DEF PickersOK
<1>6. (FormOK(form))'
  BY <1>2
<1> QED  BY <1>5, <1>6 DEF EditInv

(* A picker whose file, sheet, row and columns are left alone still has read  *)
(* its file.                                                                  *)
LEMMA RenderedReads ==
  ASSUME NEW f, FormOK(f), NEW pk, Render(f, pk), NEW k \in Keys, PickOK(pk[k], k),
         NEW part, part.file = pk[k].file, IsRead(pk[k], part), Kept(part, Part(f, k))
  PROVE  IsRead(picker[k], Part(form, k))'
<1>1. form' = f /\ picker'[k] = PickerAfter(k, pk[k], f)
  BY DEF Render
<1> DEFINE q == Part(f, k)
           p == PickerAfter(k, pk[k], f)
<1>2. CASE q.file = NoFile
  <2>1. p.file = NoFile
    BY <1>2, AfterRender
  <2>2. IsRead(p, q)
    BY <2>1 DEF IsRead
  <2> QED  BY <1>1, <2>2
<1>3. CASE q.file # NoFile /\ q.file # pk[k].file
  <2>1. p.ask = <<f>>
    BY <1>3, AfterRender
  <2>2. p.ask # <<>>
    BY <2>1
  <2>3. IsRead(p, q)
    BY <2>2 DEF IsRead
  <2> QED  BY <1>1, <2>3
<1>4. CASE q.file # NoFile /\ q.file = pk[k].file
  <2>1. p = pk[k]
    BY <1>4, AfterRender
  <2>2. q.sheet = part.sheet /\ q.header_row = part.header_row /\ q.columns = part.columns
    BY <1>4 DEF Kept
  <2>3. HeaderOf(pk[k].file, q) = HeaderOf(pk[k].file, part)
    BY <2>2 DEF HeaderOf
  <2>4. IsRead(pk[k], q)
    BY <2>2, <2>3 DEF IsRead
  <2> QED  BY <1>1, <2>1, <2>4
<1> QED  BY <1>2, <1>3, <1>4

(* An edit that touches no sheet, header row or column                        *)
LEMMA PlainEdit ==
  ASSUME EditInv, NEW f, FormOK(f), Edit(f)
  PROVE  /\ EditInv'
         /\ (\A k \in Keys : Kept(Part(form, k), Part(f, k))) /\ ColumnsInv => ColumnsInv'
<1>1. Render(f, picker) /\ edits < MaxEdits /\ edits' = edits + 1 /\ entry' = entry
      /\ disturbed' = disturbed
  BY DEF Edit
<1>2. EditsOK'
  BY <1>1, EditorAssumption DEF EditsOK, EditInv
<1>3. \A k \in Keys : PickOK(picker[k], k) /\ picker[k].file = Part(form, k).file
  BY DEF EditInv, PickersOK
<1>4. EditInv'
  BY <1>1, <1>2, <1>3, Rendered
<1>5. ASSUME \A k \in Keys : Kept(Part(form, k), Part(f, k)), ColumnsInv, ~disturbed'
      PROVE  \A k \in Keys : IsRead(picker[k], Part(form, k))'
  <2>1. \A k \in Keys : IsRead(picker[k], Part(form, k))
    BY <1>1, <1>5 DEF ColumnsInv
  <2> QED  BY <1>1, <1>3, <1>5, <2>1, RenderedReads
<1>6. (\A k \in Keys : Kept(Part(form, k), Part(f, k))) /\ ColumnsInv => ColumnsInv'
  BY <1>5 DEF ColumnsInv
<1> QED  BY <1>4, <1>6
-----------------------------------------------------------------------------
(* Choosing a sheet and a header row                                          *)
MetaOK(meta) ==
    meta.sheet \in {""} \cup STRING /\ meta.header_row \in Nat \ {0} /\ meta.columns \in Seq(STRING)

(* Merging keeps every row in one mode.                                       *)
LEMMA MergedRowsOK ==
  ASSUME NEW rows, RowsOK(rows), NEW columns \in Seq(STRING)
  PROVE  RowsOK(MergeMappingsWithColumns(rows, columns))
<1> DEFINE merged == MergeMappingsWithColumns(rows, columns)
<1>1. IsSeq(rows) /\ \A m \in DOMAIN rows : RowOK(rows[m])
  BY DEF RowsOK
<1>2. /\ IsSeq(merged)
      /\ \A n \in DOMAIN merged : (\E c : merged[n] = FreshRow(c)) \/ \E m \in DOMAIN rows : merged[n] = rows[m]
  BY <1>1, MergedRows
<1> HIDE DEF merged
<1>3. ASSUME NEW n \in DOMAIN merged PROVE RowOK(merged[n])
  <2>1. CASE \E c : merged[n] = FreshRow(c)
    BY <2>1, FreshRowOK
  <2>2. CASE \E m \in DOMAIN rows : merged[n] = rows[m]
    BY <1>1, <2>2
  <2> QED  BY <1>2, <2>1, <2>2
<1>4. RowsOK(merged)
  BY <1>2, <1>3 DEF RowsOK
<1> QED  BY <1>4 DEF merged

(* A sheet and header row chosen for the template, and for a source.          *)
LEMMA TargetMeta ==
  ASSUME NEW f, FormOK(f), NEW meta, MetaOK(meta)
  PROVE  /\ FormOK(WithMeta(f, Target, meta))
         /\ WithMeta(f, Target, meta).name = f.name
         /\ WithMeta(f, Target, meta).sources = f.sources
         /\ WithMeta(f, Target, meta).joins = f.joins
         /\ WithMeta(f, Target, meta).mappings = MergeMappingsWithColumns(f.mappings, meta.columns)
         /\ WithMeta(f, Target, meta).target.file = f.target.file
         /\ WithMeta(f, Target, meta).target.sheet = meta.sheet
         /\ WithMeta(f, Target, meta).target.header_row = meta.header_row
         /\ WithMeta(f, Target, meta).target.columns = meta.columns
<1> DEFINE g == WithMeta(f, Target, meta)
           m == MergeMappingsWithColumns(f.mappings, meta.columns)
           t == f.target
           u == [file |-> t.file, sheet |-> meta.sheet, header_row |-> meta.header_row,
                 columns |-> meta.columns, sample |-> t.sample]
<1>1. t \in Template /\ RowsOK(f.mappings) /\ SourcesOK(f.sources) /\ IsSeq(f.joins)
  BY DEF FormOK
<1>2. /\ t.file \in FileObjects \cup {NoFile} /\ t.sample \in Files \cup {Absent}
      /\ t = [file |-> t.file, sheet |-> t.sheet, header_row |-> t.header_row,
              columns |-> t.columns, sample |-> t.sample]
  BY <1>1, TargetFields
<1>3. u \in Template
  BY <1>2, TemplateMade DEF MetaOK
<1>4. RowsOK(m)
  BY <1>1, MergedRowsOK DEF MetaOK
<1>5. g = [f EXCEPT !.target.sheet = meta.sheet, !.target.header_row = meta.header_row,
                    !.target.columns = meta.columns, !.mappings = m]
  BY DEF WithMeta
<1> HIDE DEF m, g
<1>6. f = [name |-> f.name, target |-> f.target, sources |-> f.sources, joins |-> f.joins,
           mappings |-> f.mappings]
  BY DEF FormOK
<1>7. g = [name |-> f.name, target |-> u, sources |-> f.sources, joins |-> f.joins, mappings |-> m]
  <2>1. DOMAIN g = DOMAIN f
    BY <1>5
  <2>2. g.name = f.name /\ g.sources = f.sources /\ g.joins = f.joins /\ g.mappings = m
    BY <1>5, <1>6
  <2>3. g.target = u
    BY <1>2, <1>5, <1>6
  <2> HIDE DEF u, t
  <2>4. g = [x \in {"name", "target", "sources", "joins", "mappings"} |-> g[x]]
    BY <1>5, <1>6
  <2> QED  BY <2>2, <2>3, <2>4
<1>8. FormOK(g)
  <2> HIDE DEF u
  <2> QED  BY <1>1, <1>3, <1>4, <1>7 DEF FormOK
<1>9. g.target.file = f.target.file /\ g.target.sheet = meta.sheet
      /\ g.target.header_row = meta.header_row /\ g.target.columns = meta.columns
  BY <1>7
<1>10. g.name = f.name /\ g.sources = f.sources /\ g.joins = f.joins /\ g.mappings = m
  BY <1>7
<1> QED  BY <1>8, <1>9, <1>10 DEF g, m

LEMMA SourceMeta ==
  ASSUME NEW f, FormOK(f), NEW k \in DOMAIN f.sources, NEW meta, MetaOK(meta)
  PROVE  /\ FormOK(WithMeta(f, k, meta))
         /\ \A j : j # k => Part(WithMeta(f, k, meta), j) = Part(f, j)
         /\ Part(WithMeta(f, k, meta), k).file = Part(f, k).file
         /\ Part(WithMeta(f, k, meta), k).sheet = meta.sheet
         /\ Part(WithMeta(f, k, meta), k).header_row = meta.header_row
         /\ Part(WithMeta(f, k, meta), k).columns = meta.columns
<1> DEFINE s == f.sources[k]
           u == [alias |-> s.alias, role |-> s.role, file |-> s.file, sheet |-> meta.sheet,
                 header_row |-> meta.header_row, columns |-> meta.columns, sample |-> s.sample]
           g == [f EXCEPT !.sources[k] = u]
<1>1. k # Target
  BY FormFields DEF Target
<1>2. s \in SourceOf({s.alias}) /\ Part(f, k) = s
  BY SourceOfForm
<1>3. s.role \in {"primary", "lookup"} /\ s.file \in FileObjects \cup {NoFile}
      /\ s.sample \in Files \cup {Absent}
      /\ s = [alias |-> s.alias, role |-> s.role, file |-> s.file, sheet |-> s.sheet,
              header_row |-> s.header_row, columns |-> s.columns, sample |-> s.sample]
  <2> HIDE DEF s
  <2> QED  BY <1>2, SourceFields
<1>4. u \in SourceOf({u.alias})
  <2> HIDE DEF s
  <2>1. u \in SourceOf({s.alias}) /\ u.alias = s.alias
    BY <1>3, SourceMade DEF MetaOK
  <2> QED  BY <2>1
<1>5. WithMeta(f, k, meta) = g
  <2>1. WithMeta(f, k, meta) = [f EXCEPT !.sources[k].sheet = meta.sheet,
                                         !.sources[k].header_row = meta.header_row,
                                         !.sources[k].columns = meta.columns]
    BY <1>1 DEF WithMeta
  <2> DEFINE v == [s EXCEPT !.sheet = meta.sheet, !.header_row = meta.header_row,
                            !.columns = meta.columns]
  <2>2. v = u
    <3>1. s = [alias |-> s.alias, role |-> s.role, file |-> s.file, sheet |-> s.sheet,
               header_row |-> s.header_row, columns |-> s.columns, sample |-> s.sample]
      BY <1>3
    <3> HIDE DEF s
    <3>2. /\ v.alias = s.alias /\ v.role = s.role /\ v.file = s.file /\ v.sheet = meta.sheet
          /\ v.header_row = meta.header_row /\ v.columns = meta.columns /\ v.sample = s.sample
      BY ONLY <3>1
    <3>3. v = [t \in {"alias", "role", "file", "sheet", "header_row", "columns", "sample"} |-> v[t]]
      BY ONLY <3>1
    <3> HIDE DEF v
    <3> QED  BY ONLY <3>2, <3>3
  <2>3. WithMeta(f, k, meta) = [f EXCEPT !.sources[k] = v]
    <3>1. IsSeq(f.sources) /\ f = [name |-> f.name, target |-> f.target, sources |-> f.sources,
                                   joins |-> f.joins, mappings |-> f.mappings]
      BY DEF FormOK, SourcesOK
    <3> QED  BY <2>1, <3>1
  <2> HIDE DEF v, u
  <2> QED  BY <2>2, <2>3
<1>6. FormOK(g) /\ Part(g, k) = u /\ \A j : j # k => Part(g, j) = Part(f, j)
  <2> HIDE DEF u
  <2>1. g = [f EXCEPT !.sources[k] = u]
    OBVIOUS
  <2> HIDE DEF g
  <2> QED  BY <1>4, <2>1, SourceChanged
<1>7. u.file = s.file /\ u.sheet = meta.sheet /\ u.header_row = meta.header_row
      /\ u.columns = meta.columns
  OBVIOUS
<1> HIDE DEF g, u
<1> QED  BY <1>2, <1>5, <1>6, <1>7

(* Either way: the position gets the sheet, row and columns, and keeps its    *)
(* file; the other positions stay.                                            *)
LEMMA MetaSet ==
  ASSUME NEW f, FormOK(f), NEW k \in Keys, Part(f, k).file # NoFile, NEW meta, MetaOK(meta)
  PROVE  /\ FormOK(WithMeta(f, k, meta))
         /\ \A j : j # k => Part(WithMeta(f, k, meta), j) = Part(f, j)
         /\ Part(WithMeta(f, k, meta), k).file = Part(f, k).file
         /\ Part(WithMeta(f, k, meta), k).sheet = meta.sheet
         /\ Part(WithMeta(f, k, meta), k).header_row = meta.header_row
         /\ Part(WithMeta(f, k, meta), k).columns = meta.columns
<1>1. CASE k = Target
  <2> DEFINE g == WithMeta(f, Target, meta)
  <2>1. /\ FormOK(g) /\ g.sources = f.sources /\ g.target.file = f.target.file
        /\ g.target.sheet = meta.sheet
        /\ g.target.header_row = meta.header_row /\ g.target.columns = meta.columns
    BY TargetMeta
  <2> HIDE DEF g
  <2>2. Part(g, Target) = g.target /\ Part(f, Target) = f.target
    BY DEF Part
  <2>3. \A j : j # Target => Part(g, j) = Part(f, j)
    BY <2>1 DEF Part
  <2> QED  BY <1>1, <2>1, <2>2, <2>3 DEF g
<1>2. CASE k # Target
  <2>1. k \in DOMAIN f.sources
    BY <1>2 DEF Part, NewSource
  <2> QED  BY <2>1, SourceMeta
<1> QED  BY <1>1, <1>2
-----------------------------------------------------------------------------
(* Edits that touch no sheet, header row or column                            *)
PlainStep ==
    \E f : FormOK(f) /\ Edit(f) /\ \A k \in Keys : Kept(Part(form, k), Part(f, k))

(* Edits of the name, the joins and the rows leave every part alone.          *)
LEMMA SamePartsEdit ==
  ASSUME NEW f, FormOK(f), \A k : Part(f, k) = Part(form, k), Edit(f)
  PROVE  PlainStep
BY DEF PlainStep, Kept

LEMMA RowsEdit ==
  ASSUME EditInv, NEW rows, RowsOK(rows), Edit([form EXCEPT !.mappings = rows])
  PROVE  PlainStep
<1> DEFINE g == [form EXCEPT !.mappings = rows]
<1>1. FormOK(form)
  BY DEF EditInv
<1>2. g = [form EXCEPT !.mappings = rows] /\ Edit(g)
  OBVIOUS
<1> HIDE DEF g
<1>3. FormOK(g) /\ \A k : Part(g, k) = Part(form, k)
  BY <1>1, <1>2, MappingsChanged
<1> QED  BY <1>2, <1>3, SamePartsEdit

LEMMA JoinsEdit ==
  ASSUME EditInv, NEW joins, IsSeq(joins), Edit([form EXCEPT !.joins = joins])
  PROVE  PlainStep
<1> DEFINE g == [form EXCEPT !.joins = joins]
<1>1. FormOK(form)
  BY DEF EditInv
<1>2. g = [form EXCEPT !.joins = joins] /\ Edit(g)
  OBVIOUS
<1> HIDE DEF g
<1>3. FormOK(g) /\ \A k : Part(g, k) = Part(form, k)
  BY <1>1, <1>2, JoinsChanged
<1> QED  BY <1>2, <1>3, SamePartsEdit

LEMMA FormParts ==
  ASSUME EditInv
  PROVE  /\ FormOK(form) /\ RowsOK(form.mappings) /\ IsSeq(form.mappings) /\ IsSeq(form.joins)
         /\ \A m \in DOMAIN form.mappings : RowOK(form.mappings[m])
BY DEF EditInv, FormOK, RowsOK

(* An edit of one row.                                                        *)
LEMMA RowEdit ==
  ASSUME EditInv, NEW m \in DOMAIN form.mappings, NEW row, RowOK(row), EditRow(m, row)
  PROVE  PlainStep
<1> DEFINE rows == [form.mappings EXCEPT ![m] = row]
<1>1. IsSeq(form.mappings) /\ \A n \in DOMAIN form.mappings : RowOK(form.mappings[n])
  BY FormParts
<1>2. /\ IsSeq(rows) /\ DOMAIN rows = DOMAIN form.mappings
      /\ \A n \in DOMAIN form.mappings : rows[n] = IF n = m THEN row ELSE form.mappings[n]
  BY <1>1, SeqReplaced
<1>3. Edit([form EXCEPT !.mappings = rows])
  <2>1. [form EXCEPT !.mappings[m] = row] = [form EXCEPT !.mappings = rows]
    OBVIOUS
  <2> HIDE DEF rows
  <2> QED  BY <2>1 DEF EditRow
<1> HIDE DEF rows
<1>4. RowsOK(rows)
  <2>1. ASSUME NEW n \in DOMAIN rows PROVE RowOK(rows[n])
    <3>1. CASE n = m
      BY <1>2, <3>1
    <3>2. CASE n # m
      BY <1>1, <1>2, <3>2
    <3> QED  BY <3>1, <3>2
  <2> QED  BY <1>2, <2>1 DEF RowsOK
<1> QED  BY <1>3, <1>4, RowsEdit

LEMMA NamePlain == EditInv /\ TypeName => PlainStep
<1> SUFFICES ASSUME EditInv, TypeName PROVE PlainStep
  OBVIOUS
<1>1. PICK n : Edit([form EXCEPT !.name = n])
  BY DEF TypeName
<1> DEFINE g == [form EXCEPT !.name = n]
<1>2. g = [form EXCEPT !.name = n] /\ Edit(g)
  BY <1>1
<1> HIDE DEF g
<1>3. FormOK(g) /\ \A k : Part(g, k) = Part(form, k)
  BY <1>2, FormParts, NameChanged
<1> QED  BY <1>2, <1>3, SamePartsEdit

LEMMA JoinsPlain == EditInv /\ (AddJoin \/ RemoveJoin \/ PickJoin) => PlainStep
<1> SUFFICES ASSUME EditInv, AddJoin \/ RemoveJoin \/ PickJoin PROVE PlainStep
  OBVIOUS
<1>1. IsSeq(form.joins)
  BY FormParts
<1>2. CASE AddJoin
  <2> DEFINE x == [left |-> FieldAt(1), right |-> FieldAt(2)]
             q == Append(form.joins, x)
  <2>1. Edit([form EXCEPT !.joins = q])
    BY <1>2 DEF AddJoin
  <2>2. IsSeq(q)
    BY <1>1, SeqExtended
  <2> HIDE DEF q
  <2> QED  BY <2>1, <2>2, JoinsEdit
<1>3. CASE RemoveJoin
  <2>1. PICK j \in DOMAIN form.joins : Edit([form EXCEPT !.joins = RemoveAt(@, j)])
    BY <1>3 DEF RemoveJoin
  <2> DEFINE q == RemoveAt(form.joins, j)
  <2>2. Edit([form EXCEPT !.joins = q])
    BY <2>1
  <2>3. IsSeq(q)
    BY <1>1, SeqShortened
  <2> HIDE DEF q
  <2> QED  BY <2>2, <2>3, JoinsEdit
<1>4. CASE PickJoin
  <2>1. PICK j \in DOMAIN form.joins, side \in {"left", "right"}, ref \in Offered :
          Edit([form EXCEPT !.joins[j][side] = ref])
    BY <1>4 DEF PickJoin
  <2> DEFINE x == [form.joins[j] EXCEPT ![side] = ref]
             q == [form.joins EXCEPT ![j] = x]
  <2>2. [form EXCEPT !.joins[j][side] = ref] = [form EXCEPT !.joins = q]
    OBVIOUS
  <2>3. IsSeq(q)
    <3> HIDE DEF x
    <3> QED  BY <1>1, SeqReplaced
  <2> HIDE DEF q
  <2> QED  BY <2>1, <2>2, <2>3, JoinsEdit
<1> QED  BY <1>2, <1>3, <1>4

(* A row with another value for its mode.                                     *)
LEMMA RowChanged ==
  ASSUME NEW row, RowOK(row)
  PROVE  /\ \A t : RowOK([row EXCEPT !.target = t])
         /\ \A c : IsSeq(c) => RowOK([row EXCEPT !.conditions = c])
         /\ \A r : row.literal = Absent /\ row.source_cell = Absent => RowOK([row EXCEPT !.source = r])
         /\ \A v : NoSource(row) /\ row.source_cell = Absent => RowOK([row EXCEPT !.literal = v])
         /\ \A c : NoSource(row) /\ row.literal = Absent => RowOK([row EXCEPT !.source_cell = c])
<1>1. row = [target |-> row.target, source |-> row.source, literal |-> row.literal,
             source_cell |-> row.source_cell, conditions |-> row.conditions]
      /\ IsSeq(row.conditions) /\ OneMode(row)
  BY DEF RowOK
<1>2. ASSUME NEW t PROVE RowOK([row EXCEPT !.target = t])
  <2> DEFINE g == [row EXCEPT !.target = t]
  <2>1. g = [target |-> t, source |-> row.source, literal |-> row.literal,
             source_cell |-> row.source_cell, conditions |-> row.conditions]
    BY <1>1
  <2> HIDE DEF g
  <2>2. RowOK(g)
    BY <1>1, <2>1 DEF RowOK, OneMode, NoSource
  <2> QED  BY <2>2 DEF g
<1>3. ASSUME NEW c, IsSeq(c) PROVE RowOK([row EXCEPT !.conditions = c])
  <2> DEFINE g == [row EXCEPT !.conditions = c]
  <2>1. g = [target |-> row.target, source |-> row.source, literal |-> row.literal,
             source_cell |-> row.source_cell, conditions |-> c]
    BY <1>1
  <2> HIDE DEF g
  <2>2. RowOK(g)
    BY <1>1, <1>3, <2>1 DEF RowOK, OneMode, NoSource
  <2> QED  BY <2>2 DEF g
<1>4. ASSUME NEW r, row.literal = Absent, row.source_cell = Absent
      PROVE  RowOK([row EXCEPT !.source = r])
  <2> DEFINE g == [row EXCEPT !.source = r]
  <2>1. g = [target |-> row.target, source |-> r, literal |-> row.literal,
             source_cell |-> row.source_cell, conditions |-> row.conditions]
    BY <1>1
  <2> HIDE DEF g
  <2>2. RowOK(g)
    BY <1>1, <1>4, <2>1 DEF RowOK, OneMode, NoSource
  <2> QED  BY <2>2 DEF g
<1>5. ASSUME NEW v, NoSource(row), row.source_cell = Absent
      PROVE  RowOK([row EXCEPT !.literal = v])
  <2> DEFINE g == [row EXCEPT !.literal = v]
  <2>1. g = [target |-> row.target, source |-> row.source, literal |-> v,
             source_cell |-> row.source_cell, conditions |-> row.conditions]
    BY <1>1
  <2> HIDE DEF g
  <2>2. RowOK(g)
    BY <1>1, <1>5, <2>1 DEF RowOK, OneMode, NoSource
  <2> QED  BY <2>2 DEF g
<1>6. ASSUME NEW c, NoSource(row), row.literal = Absent
      PROVE  RowOK([row EXCEPT !.source_cell = c])
  <2> DEFINE g == [row EXCEPT !.source_cell = c]
  <2>1. g = [target |-> row.target, source |-> row.source, literal |-> row.literal,
             source_cell |-> c, conditions |-> row.conditions]
    BY <1>1
  <2> HIDE DEF g
  <2>2. RowOK(g)
    BY <1>1, <1>6, <2>1 DEF RowOK, OneMode, NoSource
  <2> QED  BY <2>2 DEF g
<1> QED  BY <1>2, <1>3, <1>4, <1>5, <1>6

(* Rows added and removed.                                                    *)
LEMMA AddedRowPlain == EditInv /\ (AddMapping \/ RemoveMapping) => PlainStep
<1> SUFFICES ASSUME EditInv, AddMapping \/ RemoveMapping PROVE PlainStep
  OBVIOUS
<1>1. IsSeq(form.mappings) /\ \A m \in DOMAIN form.mappings : RowOK(form.mappings[m])
  BY FormParts
<1>2. CASE AddMapping
  <2> DEFINE x == [FreshRow("") EXCEPT !.source = FieldAt(1)]
             q == Append(form.mappings, x)
  <2>1. Edit([form EXCEPT !.mappings = q])
    BY <1>2 DEF AddMapping
  <2>2. RowOK(x)
    <3> DEFINE r == FreshRow("")
    <3>1. r.literal = Absent /\ r.source_cell = Absent
      BY DEF FreshRow
    <3>2. RowOK(r)
      BY FreshRowOK
    <3> HIDE DEF r
    <3>3. RowOK([r EXCEPT !.source = FieldAt(1)])
      BY <3>1, <3>2, RowChanged
    <3> QED  BY <3>3 DEF r
  <2> HIDE DEF x
  <2>3. /\ IsSeq(q) /\ q[Len(form.mappings) + 1] = x
        /\ \A i \in DOMAIN form.mappings : q[i] = form.mappings[i]
        /\ \A i \in DOMAIN q : i \in DOMAIN form.mappings \/ i = Len(form.mappings) + 1
    BY <1>1, SeqExtended
  <2> HIDE DEF q
  <2>4. RowsOK(q)
    <3>1. ASSUME NEW i \in DOMAIN q PROVE RowOK(q[i])
      <4>1. CASE i \in DOMAIN form.mappings
        BY <1>1, <2>3, <4>1
      <4>2. CASE i = Len(form.mappings) + 1
        BY <2>2, <2>3, <4>2
      <4> QED  BY <2>3, <4>1, <4>2
    <3> QED  BY <2>3, <3>1 DEF RowsOK
  <2> QED  BY <2>1, <2>4, RowsEdit
<1>3. CASE RemoveMapping
  <2>1. PICK m \in DOMAIN form.mappings : Edit([form EXCEPT !.mappings = RemoveAt(@, m)])
    BY <1>3 DEF RemoveMapping
  <2> DEFINE q == RemoveAt(form.mappings, m)
  <2>2. Edit([form EXCEPT !.mappings = q])
    BY <2>1
  <2>3. /\ IsSeq(q) /\ Len(q) = Len(form.mappings) - 1
        /\ \A i \in DOMAIN q : q[i] = IF i < m THEN form.mappings[i] ELSE form.mappings[i + 1]
    BY <1>1, SeqShortened
  <2> HIDE DEF q
  <2>4. DOMAIN q = 1..(Len(form.mappings) - 1) /\ DOMAIN form.mappings = 1..Len(form.mappings)
        /\ Len(form.mappings) \in Nat
    BY <1>1, <2>3, SeqShape
  <2>5. RowsOK(q)
    <3>1. ASSUME NEW i \in DOMAIN q PROVE RowOK(q[i])
      <4>1. i \in DOMAIN form.mappings /\ i + 1 \in DOMAIN form.mappings
        BY <2>4
      <4>2. CASE i < m
        BY <1>1, <2>3, <4>1, <4>2
      <4>3. CASE ~(i < m)
        BY <1>1, <2>3, <4>1, <4>3
      <4> QED  BY <4>2, <4>3
    <3> QED  BY <2>3, <3>1 DEF RowsOK
  <2> QED  BY <2>2, <2>5, RowsEdit
<1> QED  BY <1>2, <1>3
(* Switching leaves the value of one mode at most.                            *)
LEMMA SwitchedOK ==
  ASSUME NEW row, RowOK(row), NEW mode \in Modes
  PROVE  RowOK(Switched(row, mode))
<1> DEFINE g == Switched(row, mode)
           a == IF mode = "source" THEN EmptyRef ELSE Absent
           b == IF mode = "literal" THEN "" ELSE Absent
           c == IF mode = "source_cell" THEN [alias |-> Part(form, 1).alias, address |-> ""] ELSE Absent
<1>1. row = [target |-> row.target, source |-> row.source, literal |-> row.literal,
             source_cell |-> row.source_cell, conditions |-> row.conditions]
      /\ IsSeq(row.conditions)
  BY DEF RowOK
<1>2. g = [row EXCEPT !.source = a, !.literal = b, !.source_cell = c]
  BY DEF Switched
<1>3. (a = Absent \/ b = Absent) /\ (a = Absent \/ c = Absent) /\ (b = Absent \/ c = Absent)
  BY DEF Modes
<1> HIDE DEF g, a, b, c
<1>4. /\ g.target = row.target /\ g.source = a /\ g.literal = b /\ g.source_cell = c
      /\ g.conditions = row.conditions
  BY <1>1, <1>2
<1>5. g = [t \in {"target", "source", "literal", "source_cell", "conditions"} |-> g[t]]
  BY <1>1, <1>2
<1>6. g = [target |-> row.target, source |-> a, literal |-> b, source_cell |-> c,
           conditions |-> row.conditions]
  BY ONLY <1>4, <1>5
<1>7. RowOK(g)
  BY <1>1, <1>3, <1>6 DEF RowOK, OneMode, NoSource
<1> QED  BY <1>7 DEF g

(* Edits of a row and of its conditions.                                      *)
LEMMA RowPlain ==
  EditInv /\ (TypeTarget \/ SwitchTo \/ PickField \/ PickCell \/ TypeLiteral) => PlainStep
<1> SUFFICES ASSUME EditInv, TypeTarget \/ SwitchTo \/ PickField \/ PickCell \/ TypeLiteral
             PROVE  PlainStep
  OBVIOUS
<1>1. \A m \in DOMAIN form.mappings : RowOK(form.mappings[m])
  BY FormParts
<1>2. CASE TypeTarget
  <2>1. PICK m \in DOMAIN form.mappings, t \in TypedTargets :
          EditRow(m, [form.mappings[m] EXCEPT !.target = t])
    BY <1>2 DEF TypeTarget
  <2>2. RowOK([form.mappings[m] EXCEPT !.target = t])
    BY <1>1, RowChanged
  <2> QED  BY <2>1, <2>2, RowEdit
<1>3. CASE SwitchTo
  <2>1. PICK m \in DOMAIN form.mappings, mode \in Modes : EditRow(m, Switched(form.mappings[m], mode))
    BY <1>3 DEF SwitchTo, Modes
  <2>2. RowOK(Switched(form.mappings[m], mode))
    BY <1>1, SwitchedOK
  <2> QED  BY <2>1, <2>2, RowEdit
<1>4. CASE PickField
  <2>1. PICK m \in DOMAIN form.mappings, ref \in Offered :
          ModeOf(form.mappings[m]) = "source" /\ EditRow(m, [form.mappings[m] EXCEPT !.source = ref])
    BY <1>4 DEF PickField
  <2>2. form.mappings[m].literal = Absent /\ form.mappings[m].source_cell = Absent
    BY <2>1 DEF ModeOf
  <2>3. RowOK([form.mappings[m] EXCEPT !.source = ref])
    BY <1>1, <2>2, RowChanged
  <2> QED  BY <2>1, <2>3, RowEdit
<1>5. CASE PickCell
  <2>1. PICK m \in DOMAIN form.mappings :
          /\ ModeOf(form.mappings[m]) = "source_cell"
          /\ \E c : EditRow(m, [form.mappings[m] EXCEPT !.source_cell = c])
    <3>1. PICK m \in DOMAIN form.mappings :
            /\ ModeOf(form.mappings[m]) = "source_cell"
            /\ \/ \E a : EditRow(m, [form.mappings[m] EXCEPT !.source_cell.alias = a])
               \/ \E d : EditRow(m, [form.mappings[m] EXCEPT !.source_cell.address = d])
      BY <1>5 DEF PickCell
    <3> DEFINE row == form.mappings[m]
    <3>2. CASE \E a : EditRow(m, [row EXCEPT !.source_cell.alias = a])
      <4>1. PICK a : EditRow(m, [row EXCEPT !.source_cell.alias = a])
        BY <3>2
      <4> DEFINE c == [row.source_cell EXCEPT !.alias = a]
      <4>2. [row EXCEPT !.source_cell.alias = a] = [row EXCEPT !.source_cell = c]
        OBVIOUS
      <4> HIDE DEF c, row
      <4>3. EditRow(m, [row EXCEPT !.source_cell = c])
        BY <4>1, <4>2
      <4> QED  BY <3>1, <4>3 DEF row
    <3>3. CASE \E d : EditRow(m, [row EXCEPT !.source_cell.address = d])
      <4>1. PICK d : EditRow(m, [row EXCEPT !.source_cell.address = d])
        BY <3>3
      <4> DEFINE c == [row.source_cell EXCEPT !.address = d]
      <4>2. [row EXCEPT !.source_cell.address = d] = [row EXCEPT !.source_cell = c]
        OBVIOUS
      <4> HIDE DEF c, row
      <4>3. EditRow(m, [row EXCEPT !.source_cell = c])
        BY <4>1, <4>2
      <4> QED  BY <3>1, <4>3 DEF row
    <3> QED  BY <3>1, <3>2, <3>3
  <2>2. PICK c : EditRow(m, [form.mappings[m] EXCEPT !.source_cell = c])
    BY <2>1
  <2>3. form.mappings[m].literal = Absent /\ form.mappings[m].source_cell # Absent
    BY <2>1 DEF ModeOf
  <2>4. NoSource(form.mappings[m])
    BY <1>1, <2>3 DEF RowOK, OneMode, NoSource
  <2>5. RowOK([form.mappings[m] EXCEPT !.source_cell = c])
    BY <1>1, <2>3, <2>4, RowChanged
  <2> QED  BY <2>2, <2>5, RowEdit
<1>6. CASE TypeLiteral
  <2>1. PICK m \in DOMAIN form.mappings, v \in TypedLiterals :
          ModeOf(form.mappings[m]) = "literal" /\ EditRow(m, [form.mappings[m] EXCEPT !.literal = v])
    BY <1>6 DEF TypeLiteral
  <2>2. form.mappings[m].literal # Absent
    BY <2>1 DEF ModeOf
  <2>3. NoSource(form.mappings[m]) /\ form.mappings[m].source_cell = Absent
    BY <1>1, <2>2 DEF RowOK, OneMode, NoSource
  <2>4. RowOK([form.mappings[m] EXCEPT !.literal = v])
    BY <1>1, <2>3, RowChanged
  <2> QED  BY <2>1, <2>4, RowEdit
<1> QED  BY <1>2, <1>3, <1>4, <1>5, <1>6

LEMMA ConditionPlain ==
  EditInv /\ (AddCondition \/ PickCondition \/ RemoveCondition) => PlainStep
<1> SUFFICES ASSUME EditInv, AddCondition \/ PickCondition \/ RemoveCondition
             PROVE  PlainStep
  OBVIOUS
<1>1. \A m \in DOMAIN form.mappings : RowOK(form.mappings[m]) /\ IsSeq(form.mappings[m].conditions)
  BY FormParts DEF RowOK
<1>2. ASSUME NEW m \in DOMAIN form.mappings, NEW q, IsSeq(q),
             EditRow(m, [form.mappings[m] EXCEPT !.conditions = q])
      PROVE  PlainStep
  <2>1. RowOK([form.mappings[m] EXCEPT !.conditions = q])
    BY <1>1, <1>2, RowChanged
  <2> QED  BY <1>2, <2>1, RowEdit
<1>3. CASE AddCondition
  <2>1. PICK m \in DOMAIN form.mappings :
          EditRow(m, [form.mappings[m] EXCEPT !.conditions = Append(@, FieldAt(1))])
    BY <1>3 DEF AddCondition
  <2> DEFINE q == Append(form.mappings[m].conditions, FieldAt(1))
  <2>2. IsSeq(q)
    BY <1>1, SeqExtended
  <2>3. EditRow(m, [form.mappings[m] EXCEPT !.conditions = q])
    BY <2>1
  <2> HIDE DEF q
  <2> QED  BY <1>2, <2>2, <2>3
<1>4. CASE PickCondition
  <2>1. PICK m \in DOMAIN form.mappings :
          \E c \in DOMAIN form.mappings[m].conditions, ref \in ToSet(Fields(form)) :
            EditRow(m, [form.mappings[m] EXCEPT !.conditions[c] = ref])
    BY <1>4 DEF PickCondition
  <2>2. PICK c \in DOMAIN form.mappings[m].conditions, ref \in ToSet(Fields(form)) :
            EditRow(m, [form.mappings[m] EXCEPT !.conditions[c] = ref])
    BY <2>1
  <2> DEFINE q == [form.mappings[m].conditions EXCEPT ![c] = ref]
  <2>3. IsSeq(q)
    BY <1>1, SeqReplaced
  <2>4. EditRow(m, [form.mappings[m] EXCEPT !.conditions = q])
    BY <2>2
  <2> HIDE DEF q
  <2> QED  BY <1>2, <2>3, <2>4
<1>5. CASE RemoveCondition
  <2>1. PICK m \in DOMAIN form.mappings :
          \E c \in DOMAIN form.mappings[m].conditions :
            EditRow(m, [form.mappings[m] EXCEPT !.conditions = RemoveAt(@, c)])
    BY <1>5 DEF RemoveCondition
  <2>2. PICK c \in DOMAIN form.mappings[m].conditions :
            EditRow(m, [form.mappings[m] EXCEPT !.conditions = RemoveAt(@, c)])
    BY <2>1
  <2> DEFINE q == RemoveAt(form.mappings[m].conditions, c)
  <2>3. IsSeq(q)
    BY <1>1, SeqShortened
  <2>4. EditRow(m, [form.mappings[m] EXCEPT !.conditions = q])
    BY <2>2
  <2> HIDE DEF q
  <2> QED  BY <1>2, <2>3, <2>4
<1> QED  BY <1>3, <1>4, <1>5
(* A part with another file, or another alias, role or sample only, is kept.  *)
LEMMA TargetEdit ==
  ASSUME EditInv, NEW t \in Template,
         t.sheet = form.target.sheet, t.header_row = form.target.header_row,
         t.columns = form.target.columns, Edit([form EXCEPT !.target = t])
  PROVE  PlainStep
<1> DEFINE g == [form EXCEPT !.target = t]
<1>1. FormOK(form)
  BY FormParts
<1>2. g = [form EXCEPT !.target = t] /\ Edit(g)
  OBVIOUS
<1> HIDE DEF g
<1>3. FormOK(g) /\ Part(g, Target) = t /\ \A k : k # Target => Part(g, k) = Part(form, k)
  BY <1>1, <1>2, TargetChanged
<1>4. Part(form, Target) = form.target
  BY DEF Part
<1>5. \A k \in Keys : Kept(Part(form, k), Part(g, k))
  BY <1>3, <1>4 DEF Kept
<1> QED  BY <1>2, <1>3, <1>5 DEF PlainStep

(* The same for a source.                                                     *)
LEMMA SourceEdit ==
  ASSUME EditInv, NEW i \in DOMAIN form.sources, NEW s, s \in SourceOf({s.alias}),
         s.sheet = form.sources[i].sheet, s.header_row = form.sources[i].header_row,
         s.columns = form.sources[i].columns, Edit([form EXCEPT !.sources[i] = s])
  PROVE  PlainStep
<1> DEFINE g == [form EXCEPT !.sources[i] = s]
<1>1. FormOK(form)
  BY FormParts
<1>2. g = [form EXCEPT !.sources[i] = s] /\ Edit(g)
  OBVIOUS
<1> HIDE DEF g
<1>3. FormOK(g) /\ Part(g, i) = s /\ \A k : k # i => Part(g, k) = Part(form, k)
  BY <1>1, <1>2, SourceChanged
<1>4. Part(form, i) = form.sources[i]
  BY <1>1, SourceOfForm
<1>5. \A k \in Keys : Kept(Part(form, k), Part(g, k))
  BY <1>3, <1>4 DEF Kept
<1> QED  BY <1>2, <1>3, <1>5 DEF PlainStep

LEMMA SourceEntry ==
  ASSUME NEW s, s \in SourceOf({s.alias})
  PROVE  /\ \A file \in FileObjects \cup {NoFile} :
               /\ [s EXCEPT !.file = file] \in SourceOf({[s EXCEPT !.file = file].alias})
               /\ \A x \in Files \cup {Absent} :
                    [s EXCEPT !.file = file, !.sample = x]
                      \in SourceOf({[s EXCEPT !.file = file, !.sample = x].alias})
         /\ \A a : [s EXCEPT !.alias = a] \in SourceOf({[s EXCEPT !.alias = a].alias})
         /\ \A r \in {"primary", "lookup"} :
               [s EXCEPT !.role = r] \in SourceOf({[s EXCEPT !.role = r].alias})
<1>1. /\ s.role \in {"primary", "lookup"} /\ s.file \in FileObjects \cup {NoFile}
      /\ s.sheet \in {""} \cup STRING /\ s.header_row \in Nat \ {0} /\ s.columns \in Seq(STRING)
      /\ s.sample \in Files \cup {Absent}
      /\ s = [alias |-> s.alias, role |-> s.role, file |-> s.file, sheet |-> s.sheet,
              header_row |-> s.header_row, columns |-> s.columns, sample |-> s.sample]
  BY SourceFields
<1>2. ASSUME NEW file \in FileObjects \cup {NoFile}
      PROVE  [s EXCEPT !.file = file] \in SourceOf({[s EXCEPT !.file = file].alias})
  <2> DEFINE g == [s EXCEPT !.file = file]
  <2>3. /\ g.alias = s.alias /\ g.role = s.role /\ g.file = file /\ g.sheet = s.sheet
        /\ g.header_row = s.header_row /\ g.columns = s.columns /\ g.sample = s.sample
    BY <1>1
  <2>4. g = [t \in {"alias", "role", "file", "sheet", "header_row", "columns", "sample"} |-> g[t]]
    BY <1>1
  <2> HIDE DEF g
  <2>1. g = [alias |-> s.alias, role |-> s.role, file |-> file, sheet |-> s.sheet,
             header_row |-> s.header_row, columns |-> s.columns, sample |-> s.sample]
    BY ONLY <2>3, <2>4
  <2>2. g \in SourceOf({s.alias}) /\ g.alias = s.alias
    BY <1>1, <2>1, SourceMade
  <2> QED  BY <2>2 DEF g
<1>3. ASSUME NEW file \in FileObjects \cup {NoFile}, NEW x \in Files \cup {Absent}
      PROVE  [s EXCEPT !.file = file, !.sample = x]
               \in SourceOf({[s EXCEPT !.file = file, !.sample = x].alias})
  <2> DEFINE g == [s EXCEPT !.file = file, !.sample = x]
  <2>1. /\ g.alias = s.alias /\ g.role = s.role /\ g.file = file /\ g.sheet = s.sheet
        /\ g.header_row = s.header_row /\ g.columns = s.columns /\ g.sample = x
    BY <1>1
  <2>2. g = [t \in {"alias", "role", "file", "sheet", "header_row", "columns", "sample"} |-> g[t]]
    BY <1>1
  <2> HIDE DEF g
  <2>3. g = [alias |-> s.alias, role |-> s.role, file |-> file, sheet |-> s.sheet,
             header_row |-> s.header_row, columns |-> s.columns, sample |-> x]
    BY ONLY <2>1, <2>2
  <2>4. g \in SourceOf({s.alias}) /\ g.alias = s.alias
    BY <1>1, <2>3, SourceMade
  <2> QED  BY <2>4 DEF g
<1>4. ASSUME NEW a PROVE [s EXCEPT !.alias = a] \in SourceOf({[s EXCEPT !.alias = a].alias})
  <2> DEFINE g == [s EXCEPT !.alias = a]
  <2>3. /\ g.alias = a /\ g.role = s.role /\ g.file = s.file /\ g.sheet = s.sheet
        /\ g.header_row = s.header_row /\ g.columns = s.columns /\ g.sample = s.sample
    BY <1>1
  <2>4. g = [t \in {"alias", "role", "file", "sheet", "header_row", "columns", "sample"} |-> g[t]]
    BY <1>1
  <2> HIDE DEF g
  <2>1. g = [alias |-> a, role |-> s.role, file |-> s.file, sheet |-> s.sheet,
             header_row |-> s.header_row, columns |-> s.columns, sample |-> s.sample]
    BY ONLY <2>3, <2>4
  <2>2. g \in SourceOf({a}) /\ g.alias = a
    BY <1>1, <2>1, SourceMade
  <2> QED  BY <2>2 DEF g
<1>5. ASSUME NEW r \in {"primary", "lookup"}
      PROVE  [s EXCEPT !.role = r] \in SourceOf({[s EXCEPT !.role = r].alias})
  <2> DEFINE g == [s EXCEPT !.role = r]
  <2>3. /\ g.alias = s.alias /\ g.role = r /\ g.file = s.file /\ g.sheet = s.sheet
        /\ g.header_row = s.header_row /\ g.columns = s.columns /\ g.sample = s.sample
    BY <1>1
  <2>4. g = [t \in {"alias", "role", "file", "sheet", "header_row", "columns", "sample"} |-> g[t]]
    BY <1>1
  <2> HIDE DEF g
  <2>1. g = [alias |-> s.alias, role |-> r, file |-> s.file, sheet |-> s.sheet,
             header_row |-> s.header_row, columns |-> s.columns, sample |-> s.sample]
    BY ONLY <2>3, <2>4
  <2>2. g \in SourceOf({s.alias}) /\ g.alias = s.alias
    BY <1>1, <2>1, SourceMade
  <2> QED  BY <2>2 DEF g
<1> QED  BY <1>2, <1>3, <1>4, <1>5

LEMMA NewFile ==
  ASSUME EditInv, NEW n \in Files
  PROVE  FileObject(n) \in FileObjects
BY DEF EditInv, EditsOK, FileObject, FileObjects

(* Files dropped on the template, or taken away.                              *)
LEMMA TargetPlain == EditInv /\ (DropTarget \/ RemoveTargetFile) => PlainStep
<1> SUFFICES ASSUME EditInv, DropTarget \/ RemoveTargetFile PROVE PlainStep
  OBVIOUS
<1> DEFINE t == form.target
<1>1. t \in Template
  BY FormParts DEF FormOK
<1>2. /\ t.file \in FileObjects \cup {NoFile} /\ t.sheet \in {""} \cup STRING
      /\ t.header_row \in Nat \ {0} /\ t.columns \in Seq(STRING) /\ t.sample \in Files \cup {Absent}
      /\ t = [file |-> t.file, sheet |-> t.sheet, header_row |-> t.header_row,
              columns |-> t.columns, sample |-> t.sample]
  <2> HIDE DEF t
  <2> QED  BY <1>1, TargetFields
<1>3. PICK file \in FileObjects \cup {NoFile}, x \in Files \cup {Absent} :
        Edit([form EXCEPT !.target = [t EXCEPT !.file = file, !.sample = x]])
  <2>1. CASE DropTarget
    <3>1. PICK n \in Files :
            Edit([form EXCEPT !.target.file = FileObject(n),
                              !.target.sample = IF entry = "wizard" THEN n ELSE @])
      BY <2>1 DEF DropTarget
    <3> DEFINE x == IF entry = "wizard" THEN n ELSE t.sample
               file == FileObject(n)
    <3>2. file \in FileObjects \cup {NoFile} /\ x \in Files \cup {Absent}
      BY <1>2, NewFile
    <3>3. [form EXCEPT !.target.file = file, !.target.sample = IF entry = "wizard" THEN n ELSE @]
          = [form EXCEPT !.target = [t EXCEPT !.file = file, !.sample = x]]
      <4>1. form = [name |-> form.name, target |-> form.target, sources |-> form.sources,
                    joins |-> form.joins, mappings |-> form.mappings]
        BY FormParts DEF FormOK
      <4> HIDE DEF file
      <4> QED  BY <1>2, <4>1
    <3>4. Edit([form EXCEPT !.target = [t EXCEPT !.file = file, !.sample = x]])
      BY <3>1, <3>3
    <3> HIDE DEF x, file, t
    <3> QED  BY <3>2, <3>4
  <2>2. CASE RemoveTargetFile
    <3>1. Edit([form EXCEPT !.target.file = NoFile])
      BY <2>2 DEF RemoveTargetFile
    <3>2. [t EXCEPT !.file = NoFile] = [t EXCEPT !.file = NoFile, !.sample = t.sample]
      <4> HIDE DEF t
      <4> QED  BY <1>2
    <3>3. [form EXCEPT !.target.file = NoFile] = [form EXCEPT !.target = [t EXCEPT !.file = NoFile]]
      OBVIOUS
    <3>4. Edit([form EXCEPT !.target = [t EXCEPT !.file = NoFile, !.sample = t.sample]])
      BY <3>1, <3>2, <3>3
    <3> HIDE DEF t
    <3> QED  BY <1>2, <3>4
  <2> QED  BY <2>1, <2>2
<1> DEFINE u == [t EXCEPT !.file = file, !.sample = x]
<1>4. u = [file |-> file, sheet |-> t.sheet, header_row |-> t.header_row, columns |-> t.columns,
           sample |-> x]
  <2>1. /\ u.file = file /\ u.sheet = t.sheet /\ u.header_row = t.header_row
        /\ u.columns = t.columns /\ u.sample = x
    BY <1>2
  <2>2. u = [y \in {"file", "sheet", "header_row", "columns", "sample"} |-> u[y]]
    BY <1>2
  <2> HIDE DEF u
  <2> QED  BY ONLY <2>1, <2>2
<1>5. Edit([form EXCEPT !.target = u])
  BY <1>3
<1> HIDE DEF u
<1>6. u \in Template /\ u.sheet = t.sheet /\ u.header_row = t.header_row /\ u.columns = t.columns
  BY <1>2, <1>4, TemplateMade
<1> QED  BY <1>5, <1>6, TargetEdit
(* Files, aliases and roles of sources.                                       *)
LEMMA SourcePlain ==
  EditInv /\ (DropSource \/ RemoveSourceFile \/ TypeAlias \/ PickRole) => PlainStep
<1> SUFFICES ASSUME EditInv, DropSource \/ RemoveSourceFile \/ TypeAlias \/ PickRole
             PROVE  PlainStep
  OBVIOUS
<1>1. FormOK(form)
  BY FormParts
<1>2. ASSUME NEW i \in DOMAIN form.sources
      PROVE  /\ form.sources[i] \in SourceOf({form.sources[i].alias})
             /\ form.sources[i] = [alias |-> form.sources[i].alias, role |-> form.sources[i].role,
                    file |-> form.sources[i].file, sheet |-> form.sources[i].sheet,
                    header_row |-> form.sources[i].header_row,
                    columns |-> form.sources[i].columns, sample |-> form.sources[i].sample]
  <2> DEFINE s == form.sources[i]
  <2>1. s \in SourceOf({s.alias})
    BY <1>1, SourceOfForm
  <2> HIDE DEF s
  <2>2. s = [alias |-> s.alias, role |-> s.role, file |-> s.file, sheet |-> s.sheet,
             header_row |-> s.header_row, columns |-> s.columns, sample |-> s.sample]
    BY <2>1, SourceFields
  <2> QED  BY <2>1, <2>2 DEF s
<1>3. CASE DropSource
  <2>1. PICK i \in DOMAIN form.sources, n \in Files :
          Edit([form EXCEPT !.sources[i].file = FileObject(n), !.sources[i].sample = n])
    BY <1>3 DEF DropSource
  <2> DEFINE s == form.sources[i]
             file == FileObject(n)
             u == [s EXCEPT !.file = file, !.sample = n]
  <2>2. file \in FileObjects \cup {NoFile} /\ n \in Files \cup {Absent}
    BY NewFile
  <2>6. /\ s \in SourceOf({s.alias})
        /\ s = [alias |-> s.alias, role |-> s.role, file |-> s.file, sheet |-> s.sheet,
                header_row |-> s.header_row, columns |-> s.columns, sample |-> s.sample]
    BY <1>2
  <2>3. s \in SourceOf({s.alias}) /\ u.sheet = s.sheet /\ u.header_row = s.header_row
        /\ u.columns = s.columns
    <3> HIDE DEF s
    <3> QED  BY <2>6
  <2>4. u \in SourceOf({u.alias})
    <3> HIDE DEF s, file
    <3> QED  BY <2>2, <2>3, SourceEntry
  <2>5. Edit([form EXCEPT !.sources[i] = u])
    <3>1. IsSeq(form.sources) /\ form = [name |-> form.name, target |-> form.target,
             sources |-> form.sources, joins |-> form.joins, mappings |-> form.mappings]
      BY <1>1 DEF FormOK, SourcesOK
    <3>2. [form EXCEPT !.sources[i].file = file, !.sources[i].sample = n] = [form EXCEPT !.sources[i] = u]
      <4> HIDE DEF file
      <4> QED  BY <3>1
    <3> QED  BY <2>1, <3>2
  <2> HIDE DEF u
  <2> QED  BY <2>3, <2>4, <2>5, SourceEdit
<1>4. CASE RemoveSourceFile
  <2>1. PICK i \in DOMAIN form.sources : Edit([form EXCEPT !.sources[i].file = NoFile])
    BY <1>4 DEF RemoveSourceFile
  <2> DEFINE s == form.sources[i]
             u == [s EXCEPT !.file = NoFile]
  <2>6. /\ s \in SourceOf({s.alias})
        /\ s = [alias |-> s.alias, role |-> s.role, file |-> s.file, sheet |-> s.sheet,
                header_row |-> s.header_row, columns |-> s.columns, sample |-> s.sample]
    BY <1>2
  <2>3. s \in SourceOf({s.alias}) /\ u.sheet = s.sheet /\ u.header_row = s.header_row
        /\ u.columns = s.columns
    <3> HIDE DEF s
    <3> QED  BY <2>6
  <2>4. u \in SourceOf({u.alias})
    <3>1. NoFile \in FileObjects \cup {NoFile}
      OBVIOUS
    <3> HIDE DEF s
    <3> QED  BY <2>3, <3>1, SourceEntry
  <2>5. Edit([form EXCEPT !.sources[i] = u])
    <3>2. [form EXCEPT !.sources[i].file = NoFile] = [form EXCEPT !.sources[i] = u]
      OBVIOUS
    <3> QED  BY <2>1, <3>2
  <2> HIDE DEF u
  <2> QED  BY <2>3, <2>4, <2>5, SourceEdit
<1>5. CASE TypeAlias
  <2>1. PICK i \in DOMAIN form.sources, a \in TypedAliases : Edit([form EXCEPT !.sources[i].alias = a])
    BY <1>5 DEF TypeAlias
  <2> DEFINE s == form.sources[i]
             u == [s EXCEPT !.alias = a]
  <2>6. /\ s \in SourceOf({s.alias})
        /\ s = [alias |-> s.alias, role |-> s.role, file |-> s.file, sheet |-> s.sheet,
                header_row |-> s.header_row, columns |-> s.columns, sample |-> s.sample]
    BY <1>2
  <2>3. s \in SourceOf({s.alias}) /\ u.sheet = s.sheet /\ u.header_row = s.header_row
        /\ u.columns = s.columns
    <3> HIDE DEF s
    <3> QED  BY <2>6
  <2>4. u \in SourceOf({u.alias})
    <3> HIDE DEF s
    <3> QED  BY <2>3, SourceEntry
  <2>5. Edit([form EXCEPT !.sources[i] = u])
    <3>2. [form EXCEPT !.sources[i].alias = a] = [form EXCEPT !.sources[i] = u]
      OBVIOUS
    <3> QED  BY <2>1, <3>2
  <2> HIDE DEF u
  <2> QED  BY <2>3, <2>4, <2>5, SourceEdit
<1>6. CASE PickRole
  <2>1. PICK i \in DOMAIN form.sources, r \in {"primary", "lookup"} :
          Edit([form EXCEPT !.sources[i].role = r])
    BY <1>6 DEF PickRole
  <2> DEFINE s == form.sources[i]
             u == [s EXCEPT !.role = r]
  <2>6. /\ s \in SourceOf({s.alias})
        /\ s = [alias |-> s.alias, role |-> s.role, file |-> s.file, sheet |-> s.sheet,
                header_row |-> s.header_row, columns |-> s.columns, sample |-> s.sample]
    BY <1>2
  <2>3. s \in SourceOf({s.alias}) /\ u.sheet = s.sheet /\ u.header_row = s.header_row
        /\ u.columns = s.columns
    <3> HIDE DEF s
    <3> QED  BY <2>6
  <2>4. u \in SourceOf({u.alias})
    <3> HIDE DEF s
    <3> QED  BY <2>3, SourceEntry
  <2>5. Edit([form EXCEPT !.sources[i] = u])
    <3>2. [form EXCEPT !.sources[i].role = r] = [form EXCEPT !.sources[i] = u]
      OBVIOUS
    <3> QED  BY <2>1, <3>2
  <2> HIDE DEF u
  <2> QED  BY <2>3, <2>4, <2>5, SourceEdit
<1> QED  BY <1>3, <1>4, <1>5, <1>6

(* A source appended to the form: its position had no file.                   *)
LEMMA AppendEdit ==
  ASSUME EditInv, NEW s, s \in SourceOf({s.alias}), Len(form.sources) < MaxSources,
         Edit([form EXCEPT !.sources = Append(form.sources, s)])
  PROVE  PlainStep
<1> DEFINE g == [form EXCEPT !.sources = Append(form.sources, s)]
           n == Len(form.sources) + 1
<1>1. FormOK(form)
  BY FormParts
<1>2. g = [form EXCEPT !.sources = Append(form.sources, s)] /\ Edit(g)
  OBVIOUS
<1> HIDE DEF g
<1>3. FormOK(g) /\ Part(form, n).file = NoFile /\ \A k : k # n => Part(g, k) = Part(form, k)
  BY <1>1, <1>2, SourceAdded
<1> HIDE DEF n
<1>4. \A k \in Keys : Kept(Part(form, k), Part(g, k))
  BY <1>3 DEF Kept
<1> QED  BY <1>2, <1>3, <1>4 DEF PlainStep

(* Sources added, and sheet variants.                                         *)
LEMMA AddedPlain == EditInv /\ (AddSource \/ AddSheetVariant) => PlainStep
<1> SUFFICES ASSUME EditInv, AddSource \/ AddSheetVariant PROVE PlainStep
  OBVIOUS
<1>1. FormOK(form)
  BY FormParts
<1>2. CASE AddSource
  <2> DEFINE s == NewSource("source_" \o ToString(Len(form.sources) + 1), "lookup")
  <2>1. Len(form.sources) < MaxSources /\ Edit([form EXCEPT !.sources = Append(form.sources, s)])
    BY <1>2 DEF AddSource
  <2>2. s \in SourceOf({s.alias})
    BY NewSourceOK
  <2> HIDE DEF s
  <2> QED  BY <2>1, <2>2, AppendEdit
<1>3. CASE AddSheetVariant
  <2>1. PICK i \in DOMAIN form.sources :
          /\ Len(form.sources) < MaxSources
          /\ Edit([form EXCEPT !.sources = Append(@,
                [NewSource(form.sources[i].alias \o "_sheet" \o ToString(Len(form.sources) + 1), "lookup")
                    EXCEPT !.file = form.sources[i].file,
                           !.sample = IF form.sources[i].sample # Absent THEN form.sources[i].sample
                                      ELSE SampleOf(form.sources[i])])])
    BY <1>3 DEF AddSheetVariant
  <2> DEFINE src == form.sources[i]
             fresh == NewSource(src.alias \o "_sheet" \o ToString(Len(form.sources) + 1), "lookup")
             x == IF src.sample # Absent THEN src.sample ELSE SampleOf(src)
             s == [fresh EXCEPT !.file = src.file, !.sample = x]
  <2>2. Edit([form EXCEPT !.sources = Append(form.sources, s)])
    BY <2>1
  <2>3. fresh \in SourceOf({fresh.alias})
    BY NewSourceOK
  <2>4. src \in SourceOf({src.alias})
    BY <1>1, SourceOfForm
  <2> HIDE DEF fresh, src
  <2>5. src.file \in FileObjects \cup {NoFile} /\ src.sample \in Files \cup {Absent}
    BY <2>4, SourceFields
  <2>6. x \in Files \cup {Absent}
    BY <2>5 DEF SampleOf, FileObjects
  <2> HIDE DEF x
  <2>7. s \in SourceOf({s.alias})
    BY <2>3, <2>5, <2>6, SourceEntry
  <2> HIDE DEF s
  <2> QED  BY <2>1, <2>2, <2>7, AppendEdit
<1> QED  BY <1>2, <1>3
-----------------------------------------------------------------------------
(* The other steps                                                            *)

(* A removed source moves the later ones: each position shows another source, *)
(* and unless that is noted, another File object.                             *)
LEMMA RemovedSource ==
  ASSUME EditInv, RemoveSource
  PROVE  EditInv' /\ (ColumnsInv => ColumnsInv')
<1>1. PICK i \in DOMAIN form.sources :
        /\ edits < MaxEdits /\ edits' = edits + 1
        /\ Render([form EXCEPT !.sources = RemoveAt(@, i)], picker)
        /\ disturbed' = (disturbed \/ \E j \in (i + 1)..Len(form.sources) :
              form.sources[j].file # NoFile /\ form.sources[j].file = form.sources[j - 1].file)
        /\ entry' = entry
  BY DEF RemoveSource
<1> DEFINE g == [form EXCEPT !.sources = RemoveAt(form.sources, i)]
<1>2. FormOK(form)
  BY FormParts
<1>3. g = [form EXCEPT !.sources = RemoveAt(form.sources, i)] /\ Render(g, picker)
  BY <1>1
<1> HIDE DEF g
<1>4. /\ FormOK(g)
      /\ \A k \in Keys : Part(g, k) = IF k = Target \/ k < i THEN Part(form, k)
                                     ELSE IF k + 1 \in DOMAIN form.sources THEN Part(form, k + 1)
                                     ELSE NewSource("", "lookup")
  BY <1>2, <1>3, SourceRemoved
<1>5. EditsOK'
  <2>1. disturbed' \in BOOLEAN /\ edits' \in 0..MaxEdits
    BY <1>1, EditorAssumption DEF EditInv, EditsOK
  <2> QED  BY <1>1, <2>1 DEF EditInv, EditsOK
<1>6. \A k \in Keys : PickOK(picker[k], k) /\ picker[k].file = Part(form, k).file
  BY DEF EditInv, PickersOK
<1>7. EditInv'
  BY <1>3, <1>4, <1>5, <1>6, Rendered
<1>8. ASSUME ColumnsInv, ~disturbed', NEW k \in Keys
      PROVE  IsRead(picker[k], Part(form, k))'
  <2>1. IsRead(picker[k], Part(form, k)) /\ ~disturbed
    BY <1>1, <1>8 DEF ColumnsInv
  <2>2. Kept(Part(form, k), Part(g, k))
    <3>1. CASE k = Target \/ k < i
      BY <1>4, <3>1 DEF Kept
    <3>2. CASE ~(k = Target \/ k < i) /\ k + 1 \in DOMAIN form.sources
      <4>1. Part(g, k) = Part(form, k + 1)
        BY <1>4, <3>2
      <4>2. /\ k \in DOMAIN form.sources /\ k + 1 \in (i + 1)..Len(form.sources)
            /\ (k + 1) - 1 = k
        BY <1>2, <3>2, FormFields, EditorAssumption DEF Keys
      <4>3. Part(form, k) = form.sources[k] /\ Part(form, k + 1) = form.sources[k + 1]
        BY <1>2, <3>2, <4>2, SourceOfForm
      <4>4. form.sources[k + 1].file = NoFile \/ form.sources[k + 1].file # form.sources[k].file
        BY <1>1, <1>8, <4>2
      <4> QED  BY <4>1, <4>3, <4>4 DEF Kept
    <3>3. CASE ~(k = Target \/ k < i) /\ k + 1 \notin DOMAIN form.sources
      <4>1. Part(g, k) = NewSource("", "lookup")
        BY <1>4, <3>3
      <4>2. NewSource("", "lookup").file = NoFile
        BY ONLY DEF NewSource
      <4>3. Part(g, k).file = NoFile
        BY ONLY <4>1, <4>2
      <4> QED  BY <4>3 DEF Kept
    <3> QED  BY <3>1, <3>2, <3>3
  <2> QED  BY <1>3, <1>4, <1>6, <2>1, <2>2, RenderedReads
<1>9. ColumnsInv => ColumnsInv'
  BY <1>8 DEF ColumnsInv
<1> QED  BY <1>7, <1>9

(* Choosing another sheet or row of a file that is read keeps it read.        *)
LEMMA ChosenIsRead ==
  ASSUME NEW p, p.file \in FileObjects, p.sheets \in Sheets, NEW old, IsRead(p, old),
         NEW s \in DOMAIN p.sheets, NEW n \in Nat, n = 1 \/ n \in DOMAIN p.sheets[s].rows,
         NEW part, part.sheet = p.sheets[s].name, part.header_row = n,
         part.columns = RowAsHeaders(p.sheets[s].rows, n)
  PROVE  IsRead(p, part)
<1> SUFFICES ASSUME p.file # NoFile, p.ask = <<>>, ~p.error
             PROVE  SheetsOf(p) /\ (Own(p) => part.columns = HeaderOf(p.file, part))
  BY DEF IsRead
<1>1. SheetsOf(p)
  BY DEF IsRead
<1>2. ASSUME Own(p) PROVE HeaderOf(p.file, part) = RowAsHeaders(p.sheets[s].rows, n)
  BY <1>1, <1>2, ReadHeader
<1> QED  BY <1>1, <1>2

(* A picker that shows rows has a file.                                       *)
LEMMA ShownPicker ==
  ASSUME EditInv, NEW k \in Keys, picker[k].sheets # <<>>
  PROVE  /\ picker[k].file # NoFile /\ picker[k].file \in FileObjects
         /\ Part(form, k).file = picker[k].file /\ picker[k].sheets \in Sheets
<1>1. PickOK(picker[k], k) /\ picker[k].file = Part(form, k).file /\ FormOK(form)
  BY DEF EditInv, PickersOK
<1>2. picker[k].file # NoFile
  <2>1. NoPicker.sheets = <<>>
    BY DEF NoPicker
  <2> QED  BY <1>1, <2>1 DEF PickOK
<1>3. Part(form, k).file \in FileObjects \cup {NoFile}
  BY <1>1, PartFields
<1> QED  BY <1>1, <1>2, <1>3 DEF PickOK

(* Choosing a sheet or a row the picker shows.                                *)
LEMMA MetaEdit ==
  ASSUME EditInv, NEW k \in Keys, picker[k].sheets # <<>>, NEW s \in DOMAIN picker[k].sheets,
         NEW n \in Nat \ {0}, n = 1 \/ n \in DOMAIN picker[k].sheets[s].rows,
         NEW meta, meta = [sheet |-> picker[k].sheets[s].name, header_row |-> n,
                           columns |-> RowAsHeaders(picker[k].sheets[s].rows, n)],
         Edit(WithMeta(form, k, meta))
  PROVE  EditInv' /\ (ColumnsInv => ColumnsInv')
<1> DEFINE g == WithMeta(form, k, meta)
           p == picker[k]
<1>1. p.file # NoFile /\ p.file \in FileObjects /\ Part(form, k).file = p.file /\ p.sheets \in Sheets
  BY ShownPicker
<1>2. p.sheets[s].name \in STRING /\ p.sheets[s].rows \in Seq(Seq(STRING))
  BY <1>1, SheetsShape
<1>3. MetaOK(meta)
  <2> DEFINE S == Seq(STRING)
             rows == p.sheets[s].rows
  <2>1. <<>> \in S /\ rows \in Seq(S)
    BY <1>2
  <2> HIDE DEF S, rows
  <2>2. RowAsHeaders(rows, n) \in S
    BY <2>1 DEF RowAsHeaders
  <2> QED  BY <1>2, <2>2 DEF MetaOK, S, rows
<1>4. /\ FormOK(g) /\ \A j : j # k => Part(g, j) = Part(form, j)
      /\ Part(g, k).file = p.file /\ Part(g, k).sheet = meta.sheet
      /\ Part(g, k).header_row = meta.header_row /\ Part(g, k).columns = meta.columns
  BY <1>1, <1>3, FormParts, MetaSet
<1> HIDE DEF g
<1>5. Edit(g) /\ Render(g, picker) /\ disturbed' = disturbed
  BY DEF Edit, g
<1>6. EditInv'
  BY <1>4, <1>5, PlainEdit
<1>7. ASSUME ColumnsInv, ~disturbed', NEW j \in Keys
      PROVE  IsRead(picker[j], Part(form, j))'
  <2>1. IsRead(picker[j], Part(form, j))
    BY <1>5, <1>7 DEF ColumnsInv
  <2>2. PickOK(picker[j], j) /\ picker[j].file = Part(form, j).file
    BY DEF EditInv, PickersOK
  <2>3. CASE j # k
    <3>1. Kept(Part(form, j), Part(g, j))
      BY <1>4, <2>3 DEF Kept
    <3> QED  BY <1>4, <1>5, <2>1, <2>2, <3>1, RenderedReads
  <2>4. CASE j = k
    <3>1. IsRead(p, Part(g, k))
      <4>1. Part(g, k).sheet = p.sheets[s].name /\ Part(g, k).header_row = n
            /\ Part(g, k).columns = RowAsHeaders(p.sheets[s].rows, n)
        BY <1>4
      <4>2. IsRead(p, Part(form, k)) /\ n \in Nat
        BY <2>1, <2>4
      <4> HIDE DEF p
      <4> QED  BY <1>1, <4>1, <4>2, ChosenIsRead DEF p
    <3>2. Kept(Part(g, k), Part(g, k))
      BY DEF Kept
    <3> QED  BY <1>4, <1>5, <2>2, <2>4, <3>1, <3>2, RenderedReads
  <2> QED  BY <2>3, <2>4
<1>8. ColumnsInv => ColumnsInv'
  BY <1>7 DEF ColumnsInv
<1> QED  BY <1>6, <1>8

LEMMA ShownSheet ==
  ASSUME NEW k, picker[k].sheets \in Sheets, picker[k].sheets # <<>>
  PROVE  \E s \in DOMAIN picker[k].sheets : CurrentSheet(k) = picker[k].sheets[s]
<1> DEFINE sheets == picker[k].sheets
           named == {s \in DOMAIN sheets : sheets[s].name = Part(form, k).sheet}
           c == IF named = {} THEN 1 ELSE CHOOSE s \in named : TRUE
<1>1. CurrentSheet(k) = sheets[c]
  BY DEF CurrentSheet
<1>2. 1 \in DOMAIN sheets
  <2>1. sheets \in Seq(SheetOf)
    BY DEF Sheets, SheetOf
  <2> QED  BY <2>1
<1>3. c \in DOMAIN sheets
  BY <1>2
<1> QED  BY <1>1, <1>3

LEMMA ChosenMeta ==
  ASSUME EditInv, PickSheet \/ ClickRow
  PROVE  EditInv' /\ (ColumnsInv => ColumnsInv')
<1>1. CASE PickSheet
  <2>0. PICK k \in Keys : \E s \in DOMAIN picker[k].sheets :
          /\ picker[k].sheets # <<>>
          /\ Edit(WithMeta(form, k, [sheet |-> picker[k].sheets[s].name, header_row |-> 1,
                                     columns |-> RowAsHeaders(picker[k].sheets[s].rows, 1)]))
    BY <1>1 DEF PickSheet, Shown
  <2>1. PICK s \in DOMAIN picker[k].sheets :
          /\ picker[k].sheets # <<>>
          /\ Edit(WithMeta(form, k, [sheet |-> picker[k].sheets[s].name, header_row |-> 1,
                                     columns |-> RowAsHeaders(picker[k].sheets[s].rows, 1)]))
    BY <2>0
  <2> DEFINE meta == [sheet |-> picker[k].sheets[s].name, header_row |-> 1,
                      columns |-> RowAsHeaders(picker[k].sheets[s].rows, 1)]
  <2>2. Edit(WithMeta(form, k, meta)) /\ 1 \in Nat \ {0}
    BY <2>1
  <2>3. meta = [sheet |-> picker[k].sheets[s].name, header_row |-> 1,
                columns |-> RowAsHeaders(picker[k].sheets[s].rows, 1)]
    OBVIOUS
  <2> HIDE DEF meta
  <2> QED  BY <2>1, <2>2, <2>3, MetaEdit
<1>2. CASE ClickRow
  <2>1. PICK k \in Keys : picker[k].sheets # <<>> /\ \E n \in DOMAIN CurrentSheet(k).rows :
          Edit(WithMeta(form, k, [sheet |-> CurrentSheet(k).name, header_row |-> n,
                                  columns |-> RowAsHeaders(CurrentSheet(k).rows, n)]))
    BY <1>2 DEF ClickRow, Shown
  <2>2. picker[k].sheets \in Sheets
    BY <2>1, ShownPicker
  <2>3. PICK s \in DOMAIN picker[k].sheets : CurrentSheet(k) = picker[k].sheets[s]
    BY <2>1, <2>2, ShownSheet
  <2>4. PICK n \in DOMAIN picker[k].sheets[s].rows :
          Edit(WithMeta(form, k, [sheet |-> picker[k].sheets[s].name, header_row |-> n,
                                  columns |-> RowAsHeaders(picker[k].sheets[s].rows, n)]))
    BY <2>1, <2>3
  <2>5. n \in Nat \ {0}
    <3>1. picker[k].sheets[s].rows \in Seq(Seq(STRING))
      BY <2>2, SheetsShape
    <3> QED  BY <3>1
  <2> DEFINE meta == [sheet |-> picker[k].sheets[s].name, header_row |-> n,
                      columns |-> RowAsHeaders(picker[k].sheets[s].rows, n)]
  <2>6. Edit(WithMeta(form, k, meta))
    BY <2>4
  <2>7. meta = [sheet |-> picker[k].sheets[s].name, header_row |-> n,
                columns |-> RowAsHeaders(picker[k].sheets[s].rows, n)]
    OBVIOUS
  <2> HIDE DEF meta
  <2> QED  BY <2>1, <2>5, <2>6, <2>7, MetaEdit
<1> QED  BY <1>1, <1>2
(* The sheet and row of the first answer are a sheet and a row of it.         *)
LEMMA ParsedMeta ==
  ASSUME NEW asked, FormOK(asked), NEW k, NEW sheets \in Sheets, sheets # <<>>
  PROVE  \E s \in DOMAIN sheets : \E n \in Nat \ {0} :
            /\ n = 1 \/ n \in DOMAIN sheets[s].rows
            /\ Parsed(asked, k, sheets) = [sheet |-> sheets[s].name, header_row |-> n,
                                           columns |-> RowAsHeaders(sheets[s].rows, n)]
<1> DEFINE part == Part(asked, k)
           named == {s \in DOMAIN sheets : sheets[s].name = part.sheet}
           c == IF named = {} THEN 1 ELSE CHOOSE s \in named : TRUE
           n == IF named # {} /\ part.header_row \in DOMAIN sheets[c].rows
                THEN part.header_row ELSE 1
<1>1. Parsed(asked, k, sheets) = [sheet |-> sheets[c].name, header_row |-> n,
                                  columns |-> RowAsHeaders(sheets[c].rows, n)]
  BY DEF Parsed
<1>2. 1 \in DOMAIN sheets
  <2>1. sheets \in Seq(SheetOf)
    BY DEF Sheets, SheetOf
  <2> QED  BY <2>1
<1>3. c \in DOMAIN sheets
  BY <1>2
<1>4. part.header_row \in Nat \ {0}
  BY PartFields
<1> HIDE DEF c, named, part
<1>5. n \in Nat \ {0} /\ (n = 1 \/ n \in DOMAIN sheets[c].rows)
  BY <1>4
<1> HIDE DEF n
<1> QED  BY <1>1, <1>3, <1>5

(* A picker that waits for an answer was rendered with its file.              *)
LEMMA AskedPicker ==
  ASSUME EditInv, NEW k \in Keys, picker[k].ask # <<>>
  PROVE  /\ PickOK(picker[k], k) /\ picker[k].file = Part(form, k).file
         /\ picker[k].file # NoFile /\ picker[k].file \in FileObjects
         /\ FormOK(picker[k].ask[1]) /\ Part(picker[k].ask[1], k).file = picker[k].file
<1>1. PickOK(picker[k], k) /\ picker[k].file = Part(form, k).file /\ FormOK(form)
  BY DEF EditInv, PickersOK
<1>2. NoPicker.ask = <<>>
  BY DEF NoPicker
<1>3. picker[k].file # NoFile
  BY <1>1, <1>2 DEF PickOK
<1>4. Part(form, k).file \in FileObjects \cup {NoFile}
  BY <1>1, PartFields
<1>5. FormOK(picker[k].ask[1]) /\ Part(picker[k].ask[1], k).file = picker[k].file
  BY <1>1 DEF PickOK, AskOK
<1> QED  BY <1>1, <1>3, <1>4, <1>5

(* The picker that has its answer, and the form with the answer merged into   *)
(* the form f                                                                 *)
Answered(k) == [picker[k] EXCEPT !.sheets = FirstRows(picker[k].file), !.ask = <<>>, !.loading = FALSE]
Merged(f, k) == WithMeta(f, k, Parsed(picker[k].ask[1], k, FirstRows(picker[k].file)))

(* The answer leaves picker and form well formed, and other positions alone.  *)
LEMMA AnswerMerged ==
  ASSUME EditInv, NEW k \in Keys, picker[k].ask # <<>>,
         NEW f, FormOK(f), Part(f, k).file = picker[k].file
  PROVE  /\ FormOK(Merged(f, k)) /\ PickOK(Answered(k), k)
         /\ MetaOK(Parsed(picker[k].ask[1], k, FirstRows(picker[k].file)))
         /\ \A j : j # k => Part(Merged(f, k), j) = Part(f, j)
         /\ Answered(k).file = picker[k].file
         /\ Part(Merged(f, k), k).file = picker[k].file
         /\ IsRead(Answered(k), Part(Merged(f, k), k))
<1> DEFINE p == picker[k]
           asked == p.ask[1]
           sheets == FirstRows(p.file)
           meta == Parsed(asked, k, sheets)
           q == Answered(k)
           g == Merged(f, k)
<1>1. /\ PickOK(p, k) /\ p.file = Part(form, k).file /\ p.file # NoFile /\ p.file \in FileObjects
      /\ FormOK(asked)
  BY AskedPicker
<1>2. /\ sheets \in Sheets /\ sheets # <<>> /\ DOMAIN sheets = DOMAIN Book[p.file.name]
      /\ \A s \in DOMAIN Book[p.file.name] :
            /\ sheets[s].name = Book[p.file.name][s].name
            /\ Book[p.file.name][s].rows # <<>> => sheets[s].rows # <<>>
  BY <1>1, FirstAnswer
<1> HIDE DEF asked, sheets
<1>3. PICK s \in DOMAIN sheets, n \in Nat \ {0} :
        /\ n = 1 \/ n \in DOMAIN sheets[s].rows
        /\ meta = [sheet |-> sheets[s].name, header_row |-> n,
                   columns |-> RowAsHeaders(sheets[s].rows, n)]
  BY <1>1, <1>2, ParsedMeta
<1>4. sheets[s].name \in STRING /\ sheets[s].rows \in Seq(Seq(STRING))
  BY <1>2, SheetsShape
<1> HIDE DEF meta
<1>5. MetaOK(meta)
  <2> DEFINE S == Seq(STRING)
             rows == sheets[s].rows
  <2>1. <<>> \in S /\ rows \in Seq(S)
    BY <1>4
  <2> HIDE DEF S, rows
  <2>2. RowAsHeaders(rows, n) \in S
    BY <2>1 DEF RowAsHeaders
  <2> QED  BY <1>3, <1>4, <2>2 DEF MetaOK, S, rows
<1>6. g = WithMeta(f, k, meta)
  BY DEF Merged, meta, sheets, asked
<1>7. Part(f, k).file # NoFile
  BY <1>1
<1> HIDE DEF g
<1>8. /\ FormOK(g) /\ \A j : j # k => Part(g, j) = Part(f, j)
      /\ Part(g, k).file = p.file /\ Part(g, k).sheet = meta.sheet
      /\ Part(g, k).header_row = meta.header_row /\ Part(g, k).columns = meta.columns
  <2>1. FormOK(WithMeta(f, k, meta))
    BY <1>5, <1>7, MetaSet
  <2>2. \A j : j # k => Part(WithMeta(f, k, meta), j) = Part(f, j)
    BY <1>5, <1>7, MetaSet
  <2>3. /\ Part(WithMeta(f, k, meta), k).file = Part(f, k).file
        /\ Part(WithMeta(f, k, meta), k).sheet = meta.sheet
        /\ Part(WithMeta(f, k, meta), k).header_row = meta.header_row
        /\ Part(WithMeta(f, k, meta), k).columns = meta.columns
    BY <1>5, <1>7, MetaSet
  <2> QED  BY <1>6, <2>1, <2>2, <2>3
<1>9. /\ p = [file |-> p.file, sheets |-> p.sheets, ask |-> p.ask, late |-> p.late,
              more |-> p.more, loading |-> p.loading, error |-> p.error]
      /\ MoreOK(p)
  BY <1>1 DEF PickOK
<1>10. q = [p EXCEPT !.sheets = sheets, !.ask = <<>>, !.loading = FALSE]
  BY DEF Answered, sheets
<1> HIDE DEF q, p
<1>11. /\ q.file = p.file /\ q.sheets = sheets /\ q.ask = <<>> /\ q.late = p.late
       /\ q.more = p.more /\ q.loading = FALSE /\ q.error = p.error
  BY <1>9, <1>10
<1>12. q = [t \in {"file", "sheets", "ask", "late", "more", "loading", "error"} |-> q[t]]
  BY <1>9, <1>10
<1>13. q = [file |-> q.file, sheets |-> q.sheets, ask |-> q.ask, late |-> q.late,
            more |-> q.more, loading |-> q.loading, error |-> q.error]
  BY ONLY <1>12
<1>14. PickOK(q, k)
  <2>1. AskOK(q, k)
    BY <1>11 DEF AskOK
  <2>2. MoreOK(q)
    BY <1>9, <1>11 DEF MoreOK
  <2> QED  BY <1>1, <1>2, <1>11, <1>13, <2>1, <2>2 DEF PickOK
<1>15. IsRead(q, Part(g, k))
  <2>1. SheetsOf(q)
    BY <1>2, <1>11 DEF SheetsOf
  <2>2. ASSUME Own(q) PROVE Part(g, k).columns = HeaderOf(q.file, Part(g, k))
    <3>1. Part(g, k).sheet = q.sheets[s].name /\ Part(g, k).header_row = n
          /\ Part(g, k).columns = RowAsHeaders(q.sheets[s].rows, n)
      BY <1>3, <1>8, <1>11
    <3>2. q.file \in FileObjects /\ q.sheets \in Sheets /\ s \in DOMAIN q.sheets
          /\ (n = 1 \/ n \in DOMAIN q.sheets[s].rows) /\ n \in Nat
      BY <1>1, <1>2, <1>3, <1>11
    <3> QED  BY <2>1, <2>2, <3>1, <3>2, ReadHeader
  <2> QED  BY <2>1, <2>2 DEF IsRead
<1>16. MetaOK(Parsed(p.ask[1], k, FirstRows(p.file)))
  BY <1>5 DEF meta, sheets, asked
<1>17. q.file = p.file /\ Part(g, k).file = p.file
  BY <1>8, <1>11
<1> QED  BY <1>8, <1>14, <1>15, <1>16, <1>17 DEF q, g, p

(* The step of an answer: the position, the form it was merged into           *)
AnswerAt(k, f) ==
    /\ picker[k].ask # <<>> /\ FormOK(f) /\ Part(f, k).file = picker[k].file
    /\ k = Target => f = form
    /\ ~disturbed' => f = form /\ ~disturbed
    /\ Render(Merged(f, k), [picker EXCEPT ![k] = Answered(k)])

(* Every answer is such a step.                                               *)
LEMMA AnswerStep ==
  ASSUME EditInv, ParseAnswers
  PROVE  EditsOK' /\ \E k \in Keys : \E f : AnswerAt(k, f)
<1>1. PICK k \in Keys :
        /\ picker[k].ask # <<>>
        /\ Render(AnsweredForm(k, picker[k].ask[1], FirstRows(picker[k].file)),
                  [picker EXCEPT ![k].sheets = FirstRows(picker[k].file), ![k].ask = <<>>,
                                 ![k].loading = FALSE])
        /\ disturbed' = (disturbed \/ (k # Target /\ picker[k].ask[1] # form))
        /\ entry' = entry /\ edits' = edits
  BY DEF ParseAnswers
<1> DEFINE f == IF k = Target THEN form ELSE picker[k].ask[1]
<1>2. /\ FormOK(picker[k].ask[1]) /\ Part(picker[k].ask[1], k).file = picker[k].file
      /\ picker[k].file = Part(form, k).file
  BY <1>1, AskedPicker
<1>3. FormOK(f) /\ Part(f, k).file = picker[k].file /\ (k = Target => f = form)
  BY <1>2, FormParts
<1>4. ~disturbed' => f = form /\ ~disturbed
  BY <1>1
<1>5. EditsOK'
  BY <1>1 DEF EditInv, EditsOK
<1>6. AnsweredForm(k, picker[k].ask[1], FirstRows(picker[k].file)) = Merged(f, k)
  BY DEF AnsweredForm, Merged
<1>7. picker = [j \in Keys |-> picker[j]]
  BY DEF EditInv, PickersOK
<1>8. [picker EXCEPT ![k].sheets = FirstRows(picker[k].file), ![k].ask = <<>>, ![k].loading = FALSE]
      = [picker EXCEPT ![k] = Answered(k)]
  <2> DEFINE sheets == FirstRows(picker[k].file)
  <2>1. Answered(k) = [picker[k] EXCEPT !.sheets = sheets, !.ask = <<>>, !.loading = FALSE]
    BY DEF Answered
  <2> HIDE DEF sheets
  <2>2. [picker EXCEPT ![k].sheets = sheets, ![k].ask = <<>>, ![k].loading = FALSE]
        = [picker EXCEPT ![k] = Answered(k)]
    <3>1. PickOK(picker[k], k)
      BY DEF EditInv, PickersOK
    <3> QED  BY <1>7, <2>1, <3>1 DEF PickOK
  <2> QED  BY <2>2 DEF sheets
<1> HIDE DEF f
<1>9. AnswerAt(k, f)
  BY <1>1, <1>3, <1>4, <1>6, <1>8 DEF AnswerAt
<1> QED  BY <1>5, <1>9
(* An answer keeps the invariant: its columns are those of the file at the row*)
(* it names.                                                                  *)
LEMMA AnswerKeepsInv ==
  ASSUME EditInv, ParseAnswers
  PROVE  EditInv' /\ (ColumnsInv => ColumnsInv')
<1>1. EditsOK'
  BY AnswerStep
<1>2. PICK k \in Keys : \E f : AnswerAt(k, f)
  BY AnswerStep
<1>20. PICK f : AnswerAt(k, f)
  BY <1>2
<1> DEFINE pk == [picker EXCEPT ![k] = Answered(k)]
           g == Merged(f, k)
<1>3. /\ picker[k].ask # <<>> /\ FormOK(f) /\ Part(f, k).file = picker[k].file
      /\ (~disturbed' => f = form /\ ~disturbed) /\ Render(g, pk)
  BY <1>20 DEF AnswerAt
<1>4. /\ FormOK(g) /\ PickOK(Answered(k), k)
      /\ \A j : j # k => Part(g, j) = Part(f, j)
      /\ Answered(k).file = picker[k].file
      /\ Part(g, k).file = picker[k].file
      /\ IsRead(Answered(k), Part(g, k))
  <2>1. FormOK(g) /\ PickOK(Answered(k), k)
    BY <1>3, AnswerMerged
  <2>2. \A j : j # k => Part(g, j) = Part(f, j)
    BY <1>3, AnswerMerged
  <2>3. Answered(k).file = picker[k].file /\ Part(g, k).file = picker[k].file
        /\ IsRead(Answered(k), Part(g, k))
    BY <1>3, AnswerMerged
  <2> QED  BY <2>1, <2>2, <2>3
<1>5. /\ picker = [j \in Keys |-> picker[j]]
      /\ \A j \in Keys : PickOK(picker[j], j) /\ picker[j].file = Part(form, j).file
  BY DEF EditInv, PickersOK
<1>6. pk[k] = Answered(k) /\ \A j \in Keys : j # k => pk[j] = picker[j]
  BY <1>5
<1> HIDE DEF pk, g
<1>7. \A j \in Keys : PickOK(pk[j], j)
  BY <1>4, <1>5, <1>6
<1>8. EditInv'
  BY <1>1, <1>3, <1>4, <1>7, Rendered
<1>9. ASSUME ColumnsInv, ~disturbed', NEW j \in Keys
      PROVE  IsRead(picker[j], Part(form, j))'
  <2>1. f = form /\ IsRead(picker[j], Part(form, j))
    BY <1>3, <1>9 DEF ColumnsInv
  <2>2. CASE j # k
    <3>1. Kept(Part(form, j), Part(g, j))
      BY <1>4, <2>1, <2>2 DEF Kept
    <3>2. pk[j] = picker[j] /\ picker[j].file = Part(form, j).file
      BY <1>5, <1>6, <2>2
    <3> QED  BY <1>3, <1>4, <1>7, <2>1, <3>1, <3>2, RenderedReads
  <2>3. CASE j = k
    <3>1. Kept(Part(g, k), Part(g, k))
      BY DEF Kept
    <3>2. IsRead(pk[k], Part(g, k)) /\ Part(g, k).file = pk[k].file
      BY <1>4, <1>6
    <3> QED  BY <1>3, <1>4, <1>7, <2>3, <3>1, <3>2, RenderedReads
  <2> QED  BY <2>2, <2>3
<1>10. ColumnsInv => ColumnsInv'
  BY <1>9 DEF ColumnsInv
<1> QED  BY <1>8, <1>10

-----------------------------------------------------------------------------
(* The steps that leave the form alone and change one picker                  *)
PickerStep(k, p) ==
    /\ picker' = [picker EXCEPT ![k] = p]
    /\ PickOK(p, k) /\ p.file = picker[k].file
    /\ IsRead(picker[k], Part(form, k)) => IsRead(p, Part(form, k))
    /\ form' = form /\ disturbed' = disturbed /\ EditsOK'

(* A step that changes one picker only keeps the invariant when that picker   *)
(* has read its file as before.                                               *)
LEMMA PickerStepKeepsInv ==
  ASSUME EditInv, NEW k \in Keys, NEW p, PickerStep(k, p)
  PROVE  EditInv' /\ (ColumnsInv => ColumnsInv')
<1>1. /\ picker = [j \in Keys |-> picker[j]]
      /\ \A j \in Keys : PickOK(picker[j], j) /\ picker[j].file = Part(form, j).file
  BY DEF EditInv, PickersOK
<1>2. /\ picker' = [picker EXCEPT ![k] = p] /\ PickOK(p, k) /\ p.file = picker[k].file
      /\ form' = form /\ disturbed' = disturbed
      /\ IsRead(picker[k], Part(form, k)) => IsRead(p, Part(form, k))
  BY DEF PickerStep
<1>3. picker'[k] = p /\ (\A j \in Keys : j # k => picker'[j] = picker[j])
      /\ picker' = [j \in Keys |-> picker'[j]]
  BY <1>1, <1>2
<1>4. \A j \in Keys : PickOK(picker'[j], j) /\ picker'[j].file = Part(form', j).file
  BY <1>1, <1>2, <1>3
<1>5. PickersOK'
  <2>1. (\A j \in Keys : PickOK(picker[j], j) /\ picker[j].file = Part(form, j).file)'
    BY <1>4
  <2>2. (picker = [j \in Keys |-> picker[j]])'
    BY <1>3
  <2> QED  BY <2>1, <2>2 DEF PickersOK
<1>6. EditInv'
  <2>1. FormOK(form)'
    BY <1>2, FormParts
  <2> QED  BY <1>5, <2>1 DEF EditInv, PickerStep
<1>7. ASSUME ColumnsInv, ~disturbed', NEW j \in Keys PROVE IsRead(picker[j], Part(form, j))'
  <2>1. IsRead(picker[j], Part(form, j))
    BY <1>2, <1>7 DEF ColumnsInv
  <2>2. IsRead(picker'[j], Part(form, j))
    BY <1>2, <1>3, <2>1
  <2> QED  BY <1>2, <2>2
<1>8. ColumnsInv => ColumnsInv'
  BY <1>7 DEF ColumnsInv
<1> QED  BY <1>6, <1>8

(* A picker, field by field.                                                  *)
LEMMA PickerFields ==
  ASSUME EditInv, NEW k \in Keys
  PROVE  /\ PickOK(picker[k], k)
         /\ picker[k] = [file |-> picker[k].file, sheets |-> picker[k].sheets, ask |-> picker[k].ask,
                         late |-> picker[k].late, more |-> picker[k].more,
                         loading |-> picker[k].loading, error |-> picker[k].error]
         /\ picker[k].file = NoFile =>
              picker[k].late = {} /\ picker[k].more = <<>> /\ picker[k].ask = <<>>
              /\ picker[k].sheets = <<>>
         /\ picker[k].file = Part(form, k).file
         /\ picker = [j \in Keys |-> picker[j]]
<1>1. PickOK(picker[k], k) /\ picker[k].file = Part(form, k).file /\ picker = [j \in Keys |-> picker[j]]
  BY DEF EditInv, PickersOK
<1>2. NoPicker.late = {} /\ NoPicker.more = <<>> /\ NoPicker.ask = <<>> /\ NoPicker.sheets = <<>>
  BY DEF NoPicker
<1> QED  BY <1>1, <1>2 DEF PickOK

(* A picker of which some fields are replaced, and no others                  *)
PickerNames == {"file", "sheets", "ask", "late", "more", "loading", "error"}

LEMMA PickerRecord ==
  ASSUME NEW p, p = [t \in PickerNames |-> p[t]]
  PROVE  p = [file |-> p.file, sheets |-> p.sheets, ask |-> p.ask, late |-> p.late,
              more |-> p.more, loading |-> p.loading, error |-> p.error]
BY DEF PickerNames

(* A request that fails                                                       *)
LEMMA FailStep ==
  ASSUME EditInv, ParseFails \/ MoreFails
  PROVE  \E k \in Keys : \E p : PickerStep(k, p)
<1>0. EditsOK' /\ form' = form /\ disturbed' = disturbed
  <2>1. entry' = entry /\ edits' = edits /\ disturbed' = disturbed /\ form' = form
    BY DEF ParseFails, MoreFails
  <2> QED  BY <2>1 DEF EditInv, EditsOK
<1>1. PICK k \in Keys :
        \/ picker[k].ask # <<>>
           /\ picker' = [picker EXCEPT ![k].ask = <<>>, ![k].error = TRUE, ![k].loading = FALSE]
        \/ \E asked \in picker[k].late :
             picker' = [picker EXCEPT ![k].late = @ \ {asked}, ![k].error = TRUE, ![k].loading = FALSE]
        \/ picker[k].more # <<>> /\ picker' = [picker EXCEPT ![k].more = <<>>, ![k].loading = FALSE]
  BY DEF ParseFails, MoreFails
<1> DEFINE q == picker[k]
<1>2. PickOK(q, k)
      /\ q = [file |-> q.file, sheets |-> q.sheets, ask |-> q.ask, late |-> q.late, more |-> q.more,
              loading |-> q.loading, error |-> q.error]
      /\ (q.file = NoFile => q.late = {} /\ q.more = <<>> /\ q.ask = <<>>)
      /\ picker = [j \in Keys |-> picker[j]]
  BY PickerFields
<1>3. CASE q.ask # <<>>
           /\ picker' = [picker EXCEPT ![k].ask = <<>>, ![k].error = TRUE, ![k].loading = FALSE]
  <2> DEFINE p == [q EXCEPT !.ask = <<>>, !.error = TRUE, !.loading = FALSE]
  <2>11. picker' = [picker EXCEPT ![k] = p]
    BY <1>2, <1>3
  <2> HIDE DEF q
  <2>12. /\ p.file = q.file /\ p.sheets = q.sheets /\ p.ask = <<>> /\ p.late = q.late
        /\ p.more = q.more /\ p.loading = FALSE /\ p.error = TRUE
    BY <1>2, <1>3
  <2>13. p = [t \in PickerNames |-> p[t]]
    BY <1>2, <1>3 DEF PickerNames
  <2> HIDE DEF p
  <2>14. PickOK(p, k)
    BY <1>2, <1>3, <2>12, <2>13, PickerRecord DEF PickOK, AskOK, MoreOK
  <2>15. p.file = q.file /\ (IsRead(q, Part(form, k)) => IsRead(p, Part(form, k)))
    BY <2>12 DEF IsRead, SheetsOf, Own
  <2>16. PickerStep(k, p)
    BY <1>0, <2>11, <2>14, <2>15 DEF PickerStep, q
  <2> QED  BY <2>16
<1>4. ASSUME NEW asked \in q.late,
             picker' = [picker EXCEPT ![k].late = @ \ {asked}, ![k].error = TRUE, ![k].loading = FALSE]
      PROVE  \E p : PickerStep(k, p)
  <2> DEFINE p == [q EXCEPT !.late = @ \ {asked}, !.error = TRUE, !.loading = FALSE]
  <2>11. picker' = [picker EXCEPT ![k] = p]
    BY <1>2, <1>4
  <2> HIDE DEF q
  <2>12. /\ p.file = q.file /\ p.sheets = q.sheets /\ p.ask = q.ask /\ p.late = q.late \ {asked}
        /\ p.more = q.more /\ p.loading = FALSE /\ p.error = TRUE
    BY <1>2, <1>4
  <2>13. p = [t \in PickerNames |-> p[t]]
    BY <1>2, <1>4 DEF PickerNames
  <2> HIDE DEF p
  <2>14. PickOK(p, k)
    BY <1>2, <1>4, <2>12, <2>13, PickerRecord DEF PickOK, AskOK, MoreOK
  <2>15. p.file = q.file /\ (IsRead(q, Part(form, k)) => IsRead(p, Part(form, k)))
    BY <2>12 DEF IsRead, SheetsOf, Own
  <2>16. PickerStep(k, p)
    BY <1>0, <2>11, <2>14, <2>15 DEF PickerStep, q
  <2> QED  BY <2>16
<1>5. CASE q.more # <<>> /\ picker' = [picker EXCEPT ![k].more = <<>>, ![k].loading = FALSE]
  <2> DEFINE p == [q EXCEPT !.more = <<>>, !.loading = FALSE]
  <2>11. picker' = [picker EXCEPT ![k] = p]
    BY <1>2, <1>5
  <2> HIDE DEF q
  <2>12. /\ p.file = q.file /\ p.sheets = q.sheets /\ p.ask = q.ask /\ p.late = q.late
        /\ p.more = <<>> /\ p.loading = FALSE /\ p.error = q.error
    BY <1>2, <1>5
  <2>13. p = [t \in PickerNames |-> p[t]]
    BY <1>2, <1>5 DEF PickerNames
  <2> HIDE DEF p
  <2>14. PickOK(p, k)
    BY <1>2, <1>5, <2>12, <2>13, PickerRecord DEF PickOK, AskOK, MoreOK
  <2>15. p.file = q.file /\ (IsRead(q, Part(form, k)) => IsRead(p, Part(form, k)))
    BY <2>12 DEF IsRead, SheetsOf, Own
  <2>16. PickerStep(k, p)
    BY <1>0, <2>11, <2>14, <2>15 DEF PickerStep, q
  <2> QED  BY <2>16
<1> QED  BY <1>1, <1>3, <1>4, <1>5

(* A late answer that is ignored.                                             *)
LEMMA IgnoredStep ==
  ASSUME EditInv, LateAnswerIgnored
  PROVE  \E k \in Keys : \E p : PickerStep(k, p)
<1>0. EditsOK' /\ form' = form /\ disturbed' = disturbed
  <2>1. entry' = entry /\ edits' = edits /\ disturbed' = disturbed /\ form' = form
    BY DEF LateAnswerIgnored
  <2> QED  BY <2>1 DEF EditInv, EditsOK
<1>1. PICK k \in Keys : \E asked \in picker[k].late :
        picker' = [picker EXCEPT ![k].late = @ \ {asked}, ![k].loading = FALSE]
  BY DEF LateAnswerIgnored
<1> DEFINE q == picker[k]
<1>2. PICK asked \in q.late : picker' = [picker EXCEPT ![k].late = @ \ {asked}, ![k].loading = FALSE]
  BY <1>1
<1>3. PickOK(q, k)
      /\ q = [file |-> q.file, sheets |-> q.sheets, ask |-> q.ask, late |-> q.late, more |-> q.more,
              loading |-> q.loading, error |-> q.error]
      /\ (q.file = NoFile => q.late = {})
      /\ picker = [j \in Keys |-> picker[j]]
  BY PickerFields
<1> DEFINE p == [q EXCEPT !.late = @ \ {asked}, !.loading = FALSE]
<1>11. picker' = [picker EXCEPT ![k] = p]
  BY <1>2, <1>3
<1> HIDE DEF q
<1>12. /\ p.file = q.file /\ p.sheets = q.sheets /\ p.ask = q.ask /\ p.late = q.late \ {asked}
      /\ p.more = q.more /\ p.loading = FALSE /\ p.error = q.error
  BY <1>2, <1>3
<1>13. p = [t \in PickerNames |-> p[t]]
  BY <1>2, <1>3 DEF PickerNames
<1> HIDE DEF p
<1>14. PickOK(p, k)
  BY <1>2, <1>3, <1>12, <1>13, PickerRecord DEF PickOK, AskOK, MoreOK
<1>15. p.file = q.file /\ (IsRead(q, Part(form, k)) => IsRead(p, Part(form, k)))
  BY <1>12 DEF IsRead, SheetsOf, Own
<1>16. PickerStep(k, p)
  BY <1>0, <1>11, <1>14, <1>15 DEF PickerStep, q
<1> QED  BY <1>16
(* "Load more" asks with the file it was clicked with.                        *)
LEMMA LoadMoreStep ==
  ASSUME EditInv, LoadMore
  PROVE  \E k \in Keys : \E p : PickerStep(k, p)
<1>1. PICK k \in Keys :
        /\ edits < MaxEdits /\ picker[k].sheets # <<>> /\ edits' = edits + 1
        /\ picker' = [picker EXCEPT
             ![k].loading = TRUE,
             ![k].more = <<[file |-> picker[k].file, sheet |-> CurrentSheet(k).name,
                            from |-> Len(CurrentSheet(k).rows) + 1]>>]
        /\ entry' = entry /\ form' = form /\ disturbed' = disturbed
  BY DEF LoadMore, Shown
<1>0. EditsOK' /\ form' = form /\ disturbed' = disturbed
  BY <1>1, EditorAssumption DEF EditInv, EditsOK
<1> DEFINE q == picker[k]
           n == Len(CurrentSheet(k).rows) + 1
           ask == [file |-> q.file, sheet |-> CurrentSheet(k).name, from |-> n]
           asks == <<ask>>
           p == [q EXCEPT !.loading = TRUE, !.more = asks]
<1>2. q.file # NoFile /\ q.file \in FileObjects /\ q.sheets \in Sheets
  BY <1>1, ShownPicker
<1>3. n \in Nat \ {0}
  <2>1. PICK s \in DOMAIN q.sheets : CurrentSheet(k) = q.sheets[s]
    BY <1>1, <1>2, ShownSheet
  <2>2. q.sheets[s].rows \in Seq(Seq(STRING))
    BY <1>2, SheetsShape
  <2> QED  BY <2>1, <2>2
<1>4. PickOK(q, k)
      /\ q = [file |-> q.file, sheets |-> q.sheets, ask |-> q.ask, late |-> q.late, more |-> q.more,
              loading |-> q.loading, error |-> q.error]
      /\ picker = [j \in Keys |-> picker[j]]
  BY PickerFields
<1> HIDE DEF n
<1>5. asks = <<asks[1]>> /\ asks[1].file = q.file /\ asks[1].from = n
  BY DEF ask
<1>11. picker' = [picker EXCEPT ![k] = p]
  <2>1. picker' = [picker EXCEPT ![k].loading = TRUE, ![k].more = asks]
    BY <1>1 DEF n
  <2> HIDE DEF asks
  <2> QED  BY <1>4, <2>1
<1> HIDE DEF q, asks
<1>12. /\ p.file = q.file /\ p.sheets = q.sheets /\ p.ask = q.ask /\ p.late = q.late
       /\ p.more = asks /\ p.loading = TRUE /\ p.error = q.error
  BY <1>4
<1>13. p = [t \in PickerNames |-> p[t]]
  BY <1>4 DEF PickerNames
<1> HIDE DEF p
<1>14. PickOK(p, k)
  <2>1. MoreOK(p)
    BY <1>2, <1>3, <1>5, <1>12 DEF MoreOK
  <2>2. AskOK(p, k)
    BY <1>4, <1>12 DEF PickOK, AskOK
  <2>3. p.sheets \in Sheets /\ p.file # NoFile
    BY <1>2, <1>12
  <2>4. p = [file |-> p.file, sheets |-> p.sheets, ask |-> p.ask, late |-> p.late,
             more |-> p.more, loading |-> p.loading, error |-> p.error]
    BY <1>13, PickerRecord
  <2> QED  BY <2>1, <2>2, <2>3, <2>4 DEF PickOK
<1>15. p.file = q.file /\ (IsRead(q, Part(form, k)) => IsRead(p, Part(form, k)))
  BY <1>12 DEF IsRead, SheetsOf, Own
<1>16. PickerStep(k, p)
  BY <1>0, <1>11, <1>14, <1>15 DEF PickerStep, q
<1> QED  BY <1>16

(* The rows "load more" has sent                                              *)
MoreOf(file, sheet, from) ==
    FlattenSeq([b \in DOMAIN Book[file.name] |->
                  IF Book[file.name][b].name # sheet THEN <<>>
                  ELSE RowsFrom(Book[file.name][b].rows, from)])

(* What it sends are rows.                                                    *)
LEMMA MoreRows ==
  ASSUME NEW file \in FileObjects, NEW sheet, NEW from \in Nat \ {0}
  PROVE  MoreOf(file, sheet, from) \in Seq(Seq(STRING))
<1> DEFINE B == Book[file.name]
           S == Seq(STRING)
           part(b) == IF B[b].name # sheet THEN <<>> ELSE RowsFrom(B[b].rows, from)
           q == [b \in DOMAIN B |-> part(b)]
<1>1. B \in Sheets
  BY BookOf
<1>2. /\ Len(B) \in Nat /\ DOMAIN B = 1..Len(B)
      /\ \A b \in DOMAIN B : B[b].rows \in Seq(S)
  BY <1>1, SheetsShape
<1> HIDE DEF S
<1>3. ASSUME NEW b \in 1..Len(B) PROVE part(b) \in Seq(S)
  <2> DEFINE rows == B[b].rows
  <2>1. rows \in Seq(S) /\ <<>> \in Seq(S)
    BY <1>2
  <2> HIDE DEF rows
  <2>2. RowsFrom(rows, from) \in Seq(S)
    BY <2>1, SentRows
  <2> QED  BY <2>1, <2>2 DEF rows
<1> HIDE DEF part, B
<1>4. q = [b \in 1..Len(B) |-> part(b)]
  BY <1>2
<1>5. q \in Seq(Seq(S))
  <2> DEFINE SS == Seq(S)
  <2>1. \A b \in 1..Len(B) : part(b) \in SS
    BY <1>3
  <2> HIDE DEF SS
  <2>2. [b \in 1..Len(B) |-> part(b)] \in Seq(SS)
    BY <1>2, <2>1
  <2> QED  BY <1>4, <2>2 DEF SS
<1> HIDE DEF q
<1>6. FlattenSeq(q) \in Seq(S)
  BY <1>5, FlattenedIsSeq
<1>7. MoreOf(file, sheet, from) = FlattenSeq(q)
  BY DEF MoreOf, q, part, B
<1> QED  BY <1>6, <1>7 DEF S

(* Its answer only adds rows at the end of the sheets: when all rows are the  *)
(* file's own now, they were before.                                          *)
LEMMA MoreAnswersStep ==
  ASSUME EditInv, MoreAnswers
  PROVE  \E k \in Keys : \E p : PickerStep(k, p)
<1>0. EditsOK' /\ form' = form /\ disturbed' = disturbed
  <2>1. entry' = entry /\ edits' = edits /\ disturbed' = disturbed /\ form' = form
    BY DEF MoreAnswers
  <2> QED  BY <2>1 DEF EditInv, EditsOK
<1> DEFINE Rows(ask) == MoreOf(ask.file, ask.sheet, ask.from)
           sent(ask, s) == IF s.name # ask.sheet THEN <<>> ELSE Rows(ask)
           Longer(sheets, ask) == [s \in DOMAIN sheets |->
                [name |-> sheets[s].name, rows |-> sheets[s].rows \o sent(ask, sheets[s])]]
<1>1. PICK k \in Keys :
        /\ picker[k].more # <<>>
        /\ picker' = [picker EXCEPT ![k].more = <<>>, ![k].loading = FALSE,
                                    ![k].sheets = Longer(@, picker[k].more[1])]
  BY DEF MoreAnswers, MoreOf
<1> DEFINE q == picker[k]
           ask == q.more[1]
           old == q.sheets
           new == Longer(old, ask)
           p == [q EXCEPT !.more = <<>>, !.loading = FALSE, !.sheets = new]
<1>2. PickOK(q, k)
      /\ q = [file |-> q.file, sheets |-> q.sheets, ask |-> q.ask, late |-> q.late, more |-> q.more,
              loading |-> q.loading, error |-> q.error]
      /\ (q.file = NoFile => q.more = <<>>)
      /\ picker = [j \in Keys |-> picker[j]]
  BY PickerFields
<1>3. q.file # NoFile /\ ask.file \in FileObjects /\ ask.from \in Nat \ {0} /\ old \in Sheets
  BY <1>1, <1>2 DEF PickOK, MoreOK
<1>4. Rows(ask) \in Seq(Seq(STRING))
  <2> HIDE DEF ask
  <2> QED  BY <1>3, MoreRows
<1>11. picker' = [picker EXCEPT ![k] = p]
  <2>1. picker' = [picker EXCEPT ![k].more = <<>>, ![k].loading = FALSE, ![k].sheets = new]
    <3> HIDE DEF Rows
    <3> QED  BY <1>1, <1>2
  <2> HIDE DEF new
  <2> QED  BY <1>2, <2>1
<1> HIDE DEF Rows, q, ask, old
<1>5. DOMAIN new = DOMAIN old /\ \A s \in DOMAIN old :
        /\ new[s] = [name |-> old[s].name, rows |-> old[s].rows \o sent(ask, old[s])]
        /\ sent(ask, old[s]) \in Seq(Seq(STRING))
  <2> HIDE DEF sent
  <2>1. \A s \in DOMAIN old : sent(ask, old[s]) \in Seq(Seq(STRING))
    <3>1. <<>> \in Seq(Seq(STRING))
      OBVIOUS
    <3> QED  BY <1>4, <3>1 DEF sent
  <2> QED  BY <2>1
<1> HIDE DEF sent
<1>6. /\ Len(old) \in Nat /\ DOMAIN old = 1..Len(old)
      /\ \A s \in DOMAIN old : old[s].name \in STRING /\ old[s].rows \in Seq(Seq(STRING))
  BY <1>3, SheetsShape
<1>7. new \in Sheets /\ Len(new) = Len(old)
  <2>1. new = [s \in 1..Len(old) |-> new[s]]
    BY <1>6
  <2> HIDE DEF new
  <2>2. \A s \in DOMAIN old : new[s].name = old[s].name /\ new[s].rows = old[s].rows \o sent(ask, old[s])
    BY <1>5
  <2>3. \A s \in DOMAIN old : old[s].rows \o sent(ask, old[s]) \in Seq(Seq(STRING))
    BY <1>5, <1>6
  <2>4. \A s \in 1..Len(old) : /\ new[s] = [name |-> new[s].name, rows |-> new[s].rows]
                               /\ new[s].name \in STRING /\ new[s].rows \in Seq(Seq(STRING))
    BY <1>5, <1>6, <2>2, <2>3
  <2>5. new \in Sheets
    BY <1>6, <2>1, <2>4, SheetsMade
  <2>6. Len(new) = Len(old)
    <3>1. DOMAIN new = 1..Len(new) /\ Len(new) \in Nat
      BY <2>5, SheetsShape
    <3> QED  BY <1>5, <1>6, <3>1
  <2> QED  BY <2>5, <2>6
<1> HIDE DEF new
<1>12. /\ p.file = q.file /\ p.sheets = new /\ p.ask = q.ask /\ p.late = q.late
       /\ p.more = <<>> /\ p.loading = FALSE /\ p.error = q.error
  BY <1>2
<1>13. p = [t \in PickerNames |-> p[t]]
  BY <1>2 DEF PickerNames
<1> HIDE DEF p
<1>14. PickOK(p, k)
  <2>1. MoreOK(p)
    BY <1>12 DEF MoreOK
  <2>2. AskOK(p, k)
    BY <1>2, <1>12 DEF PickOK, AskOK
  <2>3. p.sheets \in Sheets /\ p.file # NoFile
    BY <1>3, <1>7, <1>12
  <2>4. p = [file |-> p.file, sheets |-> p.sheets, ask |-> p.ask, late |-> p.late,
             more |-> p.more, loading |-> p.loading, error |-> p.error]
    BY <1>13, PickerRecord
  <2> QED  BY <2>1, <2>2, <2>3, <2>4 DEF PickOK
<1>15. ASSUME IsRead(q, Part(form, k)) PROVE IsRead(p, Part(form, k))
  <2> SUFFICES ASSUME p.file # NoFile, p.ask = <<>>, ~p.error
               PROVE  SheetsOf(p) /\ (Own(p) => Part(form, k).columns = HeaderOf(p.file, Part(form, k)))
    BY DEF IsRead
  <2>1. SheetsOf(q) /\ (Own(q) => Part(form, k).columns = HeaderOf(q.file, Part(form, k)))
    BY <1>12, <1>15 DEF IsRead
  <2>2. \A s \in DOMAIN old : /\ new[s].name = old[s].name
                              /\ new[s].rows = old[s].rows \o sent(ask, old[s])
    BY <1>5
  <2>3. \A s \in DOMAIN old : old[s].rows # <<>> => new[s].rows # <<>>
    <3> SUFFICES ASSUME NEW s \in DOMAIN old, old[s].rows # <<>> PROVE new[s].rows # <<>>
      OBVIOUS
    <3> DEFINE a == old[s].rows
               b == sent(ask, old[s])
    <3>1. a \in Seq(Seq(STRING)) /\ b \in Seq(Seq(STRING)) /\ a # <<>> /\ new[s].rows = a \o b
      BY <1>5, <1>6, <2>2
    <3> HIDE DEF a, b
    <3> QED  BY <3>1
  <2>4. SheetsOf(p)
    BY <1>5, <1>12, <2>1, <2>2, <2>3 DEF SheetsOf, old
  <2>5. ASSUME Own(p) PROVE Own(q)
    <3>1. Len(old) = Len(Book[q.file.name])
      BY <1>7, <1>12, <2>5 DEF Own
    <3>2. ASSUME NEW s \in DOMAIN old PROVE IsPrefix(old[s].rows, Book[q.file.name][s].rows)
      <4> DEFINE a == old[s].rows
                 b == sent(ask, old[s])
                 c == Book[q.file.name][s].rows
      <4>1. a \in Seq(Seq(STRING)) /\ b \in Seq(Seq(STRING)) /\ new[s].rows = a \o b
        BY <1>5, <1>6, <2>2
      <4>2. c \in Seq(Seq(STRING))
        <5>1. q.file \in FileObjects
          BY <1>3, PickerFields, FormParts, PartFields DEF q
        <5>2. s \in DOMAIN Book[q.file.name]
          BY <2>1 DEF SheetsOf, old
        <5> QED  BY <5>1, <5>2, BookOf, SheetsShape
      <4>3. IsPrefix(a \o b, c)
        BY <1>5, <1>12, <2>2, <2>5 DEF Own
      <4> HIDE DEF a, b, c
      <4>4. IsPrefix(a, c)
        BY <4>1, <4>2, <4>3, PrefixOfLonger
      <4> QED  BY <4>4 DEF a, c
    <3> QED  BY <3>1, <3>2 DEF Own, old
  <2> QED  BY <1>12, <2>1, <2>4, <2>5
<1>16. PickerStep(k, p)
  BY <1>0, <1>11, <1>12, <1>14, <1>15 DEF PickerStep, q
<1> QED  BY <1>16
-----------------------------------------------------------------------------
(* The invariant holds of every form a page starts with, and of every step    *)

(* A page starts without files.                                               *)
LEMMA NoFileYet ==
  ASSUME NEW f, f = EmptyState \/ \E c \in Saved : f = LoadForm(c), NEW k
  PROVE  FormOK(f) /\ Part(f, k).file = NoFile
<1>1. FormOK(f)
  BY EmptyStateOK, LoadedFormOK
<1>2. f.target.file = NoFile /\ \A i \in DOMAIN f.sources : f.sources[i].file = NoFile
  <2>1. CASE f = EmptyState
    <3>1. EmptyState.target.file = NoFile
      BY ONLY DEF EmptyState
    <3>2. EmptyState.sources = <<NewSource("primary", "primary")>>
      BY ONLY DEF EmptyState
    <3>3. NewSource("primary", "primary").file = NoFile
      BY ONLY DEF NewSource
    <3> DEFINE s == NewSource("primary", "primary")
    <3> HIDE DEF s
    <3>4. f.sources = <<s>> /\ s.file = NoFile
      BY <2>1, <3>2, <3>3 DEF s
    <3> QED  BY <2>1, <3>1, <3>4
  <2>2. ASSUME NEW c \in Saved, f = LoadForm(c)
        PROVE  f.target.file = NoFile /\ \A i \in DOMAIN f.sources : f.sources[i].file = NoFile
    BY <2>2 DEF LoadForm
  <2> QED  BY <2>1, <2>2
<1>3. NewSource("", "lookup").file = NoFile
  BY ONLY DEF NewSource
<1> QED  BY <1>1, <1>2, <1>3 DEF Part

LEMMA EditInit == EditorInit => EditInv /\ ColumnsInv
<1> SUFFICES ASSUME EditorInit PROVE EditInv /\ ColumnsInv
  OBVIOUS
<1>1. /\ entry \in {"builder", "wizard"} /\ edits = 0 /\ disturbed = FALSE
      /\ picker = [k \in Keys |-> NoPicker]
      /\ form = EmptyState \/ \E c \in Saved : form = LoadForm(c)
  BY DEF EditorInit
<1>2. EditsOK
  <2>1. edits \in 0..MaxEdits
    BY <1>1, EditorAssumption
  <2>2. disturbed \in BOOLEAN
    BY <1>1
  <2> QED  BY <1>1, <2>1, <2>2 DEF EditsOK
<1>3. FormOK(form) /\ \A k : Part(form, k).file = NoFile
  BY <1>1, NoFileYet
<1>4. \A k \in Keys : picker[k] = NoPicker
  BY <1>1
<1>5. PickersOK
  BY <1>1, <1>3, <1>4, NoPickerOK DEF PickersOK
<1>6. ColumnsInv
  BY <1>4, NoPickerOK DEF ColumnsInv, IsRead
<1> QED  BY <1>2, <1>3, <1>5, <1>6 DEF EditInv

(* Every step keeps the invariant; that the columns are read is kept too.     *)
LEMMA EditStep ==
  ASSUME EditInv, [EditorNext]_editorVars
  PROVE  EditInv' /\ (ColumnsInv => ColumnsInv')
<1>1. CASE PlainStep
  BY <1>1, PlainEdit DEF PlainStep
<1>2. CASE TypeName \/ DropTarget \/ RemoveTargetFile \/ DropSource \/ RemoveSourceFile
           \/ TypeAlias \/ PickRole \/ AddSource \/ AddSheetVariant
           \/ AddJoin \/ RemoveJoin \/ PickJoin \/ AddMapping \/ RemoveMapping
  BY <1>1, <1>2, NamePlain, TargetPlain, SourcePlain, AddedPlain, JoinsPlain, AddedRowPlain
<1>3. CASE TypeTarget \/ SwitchTo \/ PickField \/ PickCell \/ TypeLiteral
           \/ AddCondition \/ PickCondition \/ RemoveCondition
  BY <1>1, <1>3, RowPlain, ConditionPlain
<1>4. CASE RemoveSource
  BY <1>4, RemovedSource
<1>5. CASE PickSheet \/ ClickRow
  BY <1>5, ChosenMeta
<1>6. CASE ParseAnswers
  BY <1>6, AnswerKeepsInv
<1>7. CASE LoadMore \/ ParseFails \/ LateAnswerIgnored \/ MoreAnswers \/ MoreFails
  <2>1. \E k \in Keys : \E p : PickerStep(k, p)
    BY <1>7, LoadMoreStep, FailStep, IgnoredStep, MoreAnswersStep
  <2> QED  BY <2>1, PickerStepKeepsInv
<1>8. CASE UNCHANGED editorVars
  <2>1. entry' = entry /\ form' = form /\ picker' = picker /\ edits' = edits
        /\ disturbed' = disturbed
    BY <1>8 DEF editorVars
  <2>2. EditsOK' = EditsOK /\ PickersOK' = PickersOK /\ ColumnsInv' = ColumnsInv
    BY <2>1 DEF EditsOK, PickersOK, ColumnsInv
  <2> QED  BY <2>1, <2>2 DEF EditInv
<1> QED  BY <1>2, <1>3, <1>4, <1>5, <1>6, <1>7, <1>8 DEF EditorNext

(* The invariant of the editor.                                               *)
THEOREM EditorInvariant == EditorSpec => [](EditInv /\ ColumnsInv)
<1>1. EditInv /\ ColumnsInv /\ [EditorNext]_editorVars => (EditInv /\ ColumnsInv)'
  BY EditStep
<1> QED  BY <1>1, EditInit, PTL DEF EditorSpec

(* Every source of the form keeps its place and its fields, whatever columns, *)
(* files and names it is given; every picker shows the file of its own        *)
(* position, waits for one answer at most, and none is left where there is no *)
(* file.                                                                      *)
THEOREM EditorTypeCorrect == EditorSpec => []EditorTypeOK
<1>1. EditInv => EditorTypeOK
  <2> SUFFICES ASSUME EditInv PROVE EditorTypeOK
    OBVIOUS
  <2>1. FormOK(form) /\ EditsOK
    BY DEF EditInv
  <2>2. form.sources \in Seq(SourceOf(Aliases(form)))
    <3>1. ASSUME NEW i \in DOMAIN form.sources PROVE form.sources[i] \in SourceOf(Aliases(form))
      <4>1. form.sources[i].alias \in Aliases(form)
        BY DEF Aliases
      <4>2. form.sources[i] \in SourceOf({form.sources[i].alias})
        BY <2>1, SourceOfForm
      <4> QED  BY <4>1, <4>2 DEF SourceOf
    <3>2. IsSeq(form.sources)
      BY <2>1 DEF FormOK, SourcesOK
    <3> DEFINE S == SourceOf(Aliases(form))
    <3> HIDE DEF S
    <3>3. form.sources \in Seq(S)
      BY <3>1, <3>2, SeqElements DEF S
    <3> QED  BY <3>3 DEF S
  <2>3. ASSUME NEW k \in Keys
        PROVE  /\ picker[k].file = Part(form, k).file
               /\ Len(picker[k].ask) <= 1 /\ Len(picker[k].more) <= 1
               /\ picker[k].file = NoFile => picker[k] = NoPicker
    <3>1. PickOK(picker[k], k) /\ picker[k].file = Part(form, k).file
      BY PickerFields
    <3> DEFINE ask == picker[k].ask
               more == picker[k].more
    <3>2. (ask = <<>> \/ ask = <<ask[1]>>) /\ (more = <<>> \/ more = <<more[1]>>)
      BY <3>1 DEF PickOK, AskOK, MoreOK
    <3> HIDE DEF ask, more
    <3>3. Len(ask) <= 1
      <4>1. Len(<<>>) = 0 /\ Len(<<ask[1]>>) = 1
        OBVIOUS
      <4> QED  BY <3>2, <4>1
    <3>4. Len(more) <= 1
      <4>1. Len(<<>>) = 0 /\ Len(<<more[1]>>) = 1
        OBVIOUS
      <4> QED  BY <3>2, <4>1
    <3> QED  BY <3>1, <3>3, <3>4 DEF PickOK, ask, more
  <2> QED  BY <2>1, <2>2, <2>3, FormFields DEF EditorTypeOK, EditsOK
<1> QED  BY <1>1, EditorInvariant, PTL

(* What it says of one position.                                              *)
LEMMA ReadColumns ==
  ASSUME EditInv, ColumnsInv, ~disturbed, NEW k \in Keys
  PROVE  ColumnsAreRead(k)
BY PickerFields DEF ColumnsInv, ColumnsAreRead, Settled, OwnRows, IsRead, Own

(* Once a file is parsed, the columns kept for its position are the cells of  *)
(* the chosen sheet and row of that file, for any workbooks, any number of    *)
(* sources and edits, and any order of the answers (SheetHeaderPicker.tsx).   *)
THEOREM ColumnsAreTheFiles == EditorSpec => []ColumnsMatchFile
<1>1. EditInv /\ ColumnsInv => ColumnsMatchFile
  BY ReadColumns DEF ColumnsMatchFile
<1> QED  BY <1>1, EditorInvariant, PTL

(* A column flagged as missing is missing from the header of an uploaded file *)
(* that has been parsed, or the file is still being parsed (configHelpers.ts).*)
THEOREM FlagsAreTrue == EditorSpec => []FlaggedIsMissing
<1>1. EditInv /\ ColumnsInv => FlaggedIsMissing
  <2> SUFFICES ASSUME EditInv, ColumnsInv, ~disturbed, NEW ref, ColumnRefMissing(ref, form)
               PROVE  \E k \in DOMAIN form.sources :
                        /\ form.sources[k].alias = ref.alias /\ form.sources[k].file # NoFile
                        /\ Settled(k) => ref.col \notin ToSet(HeaderOf(picker[k].file, form.sources[k]))
    BY DEF FlaggedIsMissing
  <2> DEFINE named == {i \in DOMAIN form.sources : form.sources[i].alias = ref.alias}
             k == CHOOSE i \in named : \A j \in named : i <= j
  <2>1. named # {} /\ form.sources[k].file # NoFile /\ ref.col \notin ToSet(form.sources[k].columns)
    BY DEF ColumnRefMissing
  <2>2. named \in SUBSET Nat /\ DOMAIN form.sources \subseteq Keys
    BY FormParts, FormFields
  <2>3. \E i \in named : \A j \in named : i <= j
    <3> HIDE DEF named
    <3> QED  BY <2>1, <2>2, LeastNumber
  <2>4. k \in named
    <3> HIDE DEF named
    <3> QED  BY <2>3
  <2>5. form.sources[k].alias = ref.alias /\ k \in DOMAIN form.sources /\ k \in Keys
    BY <2>2, <2>4
  <2>6. Part(form, k) = form.sources[k]
    <3> HIDE DEF k
    <3> QED  BY <2>5, FormParts, SourceOfForm
  <2>7. Settled(k) => form.sources[k].columns = HeaderOf(picker[k].file, form.sources[k])
    <3> HIDE DEF k
    <3> QED  BY <2>5, <2>6, ReadColumns DEF ColumnsAreRead
  <2> HIDE DEF k
  <2> QED  BY <2>1, <2>5, <2>7
<1> QED  BY <1>1, EditorInvariant, PTL
-----------------------------------------------------------------------------
(* What the browser's schema lets through                                     *)

(* An accepted configuration has no issue in any part.                        *)
LEMMA NoIssues ==
  ASSUME NEW c, Issues(c) = {}
  PROVE  /\ c.name \in GoodNames /\ c.target.columns # <<>> /\ c.mappings # <<>>
         /\ SourceIssues(c) = {} /\ JoinIssues(c) = {} /\ RelationIssues(c) = {}
         /\ \A i \in DOMAIN c.mappings : RowIssues(c.mappings[i], i) = {}
<1> DEFINE A == Unless(c.name \in GoodNames, Issue("name", 0, "", "err.invalidName"))
           B == Unless(c.target.sheet # "", Issue("target_template", 0, "sheet", "too_small"))
           C == Unless(c.target.columns # <<>>, Issue("target_template", 0, "columns", "too_small"))
           D == Unless(c.mappings # <<>>, Issue("mappings", 0, "", "too_small"))
           R == UNION {RowIssues(c.mappings[i], i) : i \in DOMAIN c.mappings}
<1>1. Issues(c) = A \cup B \cup C \cup SourceIssues(c) \cup JoinIssues(c) \cup D \cup R
                  \cup RelationIssues(c)
  BY DEF Issues
<1>2. A = {} /\ C = {} /\ D = {} /\ R = {}
      /\ SourceIssues(c) = {} /\ JoinIssues(c) = {} /\ RelationIssues(c) = {}
  <2> HIDE DEF A, B, C, D, R
  <2> QED  BY <1>1
<1>3. c.name \in GoodNames /\ c.target.columns # <<>> /\ c.mappings # <<>>
  BY <1>2 DEF Unless
<1>4. \A i \in DOMAIN c.mappings : RowIssues(c.mappings[i], i) = {}
  BY <1>2
<1> QED  BY <1>2, <1>3, <1>4

(* Its sources, joins and rows pass what the server checks of them.           *)
LEMMA SourcesAccepted ==
  ASSUME NEW c, SourceIssues(c) = {}, RelationIssues(c) = {}
  PROVE  /\ c.sources # <<>>
         /\ \A i \in DOMAIN c.sources : c.sources[i].alias # ""
         /\ Cardinality(Aliases(c)) = Len(c.sources)
         /\ \E i \in DOMAIN c.sources : c.sources[i].role = "primary"
<1> DEFINE Of(i) == Unless(c.sources[i].alias # "", Issue("sources", i, "alias", "too_small"))
                    \cup Unless(c.sources[i].sheet # "", Issue("sources", i, "sheet", "too_small"))
<1>1. /\ Unless(c.sources # <<>>, Issue("sources", 0, "", "too_small")) = {}
      /\ UNION {Of(i) : i \in DOMAIN c.sources} = {}
  BY DEF SourceIssues
<1>2. \A i \in DOMAIN c.sources : Of(i) = {}
  <2> HIDE DEF Of
  <2> QED  BY <1>1
<1>3. /\ Unless(Cardinality(Aliases(c)) = Len(c.sources),
                Issue("sources", 0, "alias", "err.duplicateAlias")) = {}
      /\ Unless(\E i \in DOMAIN c.sources : c.sources[i].role = "primary",
                Issue("sources", 0, "role", "err.noPrimary")) = {}
  BY DEF RelationIssues
<1>4. Cardinality(Aliases(c)) = Len(c.sources)
  BY <1>3 DEF Unless
<1>5. \E i \in DOMAIN c.sources : c.sources[i].role = "primary"
  BY <1>3 DEF Unless
<1>6. c.sources # <<>> /\ \A i \in DOMAIN c.sources : c.sources[i].alias # ""
  BY <1>1, <1>2 DEF Unless
<1> QED  BY <1>4, <1>5, <1>6

LEMMA JoinsAccepted ==
  ASSUME NEW c, JoinIssues(c) = {}, RelationIssues(c) = {},
         NEW i \in DOMAIN c.joins, NEW side \in {"left", "right"}
  PROVE  Qualified(c.joins[i][side]) /\ c.joins[i][side].alias \in Aliases(c)
<1> DEFINE Plain(j, s) == Unless(Qualified(c.joins[j][s]), Issue("joins", j, s, "err.qualified"))
           Known(j, s) == Unless(c.joins[j][s].alias \in Aliases(c),
                                 Issue("joins", j, s, "err.joinUnknownAlias"))
<1>1. UNION {UNION {Plain(j, s) : s \in {"left", "right"}} : j \in DOMAIN c.joins} = {}
  BY DEF JoinIssues
<1>2. UNION {UNION {Known(j, s) : s \in {"left", "right"}} : j \in DOMAIN c.joins} = {}
  BY DEF RelationIssues
<1>3. Plain(i, side) = {}
  <2> HIDE DEF Plain
  <2> QED  BY <1>1
<1>4. Known(i, side) = {}
  <2> HIDE DEF Known
  <2> QED  BY <1>2
<1>5. Qualified(c.joins[i][side])
  BY <1>3 DEF Unless
<1>6. c.joins[i][side].alias \in Aliases(c)
  BY <1>4 DEF Unless
<1> QED  BY <1>5, <1>6

(* A row with a mode set has a value.                                         *)
LEMMA SomeMode ==
  ASSUME NEW row, ModesSet(row) >= 1
  PROVE  \E m \in Modes : row[m] # Absent
<1> DEFINE used == {m \in Modes : \/ m = "source" /\ HasSource(row)
                                  \/ m = "literal" /\ HasLiteral(row)
                                  \/ m = "source_cell" /\ HasCell(row)}
<1>1. ModesSet(row) = Cardinality(used)
  BY DEF ModesSet, Modes
<1>2. used \in SUBSET Modes
  OBVIOUS
<1>3. used # {}
  <2> HIDE DEF used
  <2>1. Cardinality(used) # 0
    BY <1>1
  <2> QED  BY <1>2, <2>1, ModesFinite
<1> QED  BY <1>3 DEF HasSource, HasLiteral, HasCell

LEMMA RowAccepted ==
  ASSUME NEW c, RelationIssues(c) = {}, NEW i \in DOMAIN c.mappings,
         RowIssues(c.mappings[i], i) = {}, OneMode(c.mappings[i]), c.mappings[i].source # Null,
         \A n \in DOMAIN c.mappings[i].conditions :
            c.mappings[i].conditions[n].alias \in Aliases(c)
  PROVE  LET row == c.mappings[i] IN
         /\ row.target # ""
         /\ Cardinality({m \in {"source", "literal", "source_cell"} : row[m] # Absent}) = 1
         /\ row.source # Absent => row.source # EmptyRef /\ row.source.alias \in Aliases(c)
         /\ row.source_cell # Absent =>
                /\ row.source_cell.alias \in Aliases(c) \ {""}
                /\ row.source_cell.address \in GoodAddresses
         /\ \A n \in DOMAIN row.conditions :
                row.conditions[n] # EmptyRef /\ row.conditions[n].alias \in Aliases(c)
<1> DEFINE row == c.mappings[i]
           Of(n) == Unless(Qualified(row.conditions[n]),
                           Issue("mappings", i, "condition", "err.qualified"))
           Known(j) == Unless(~HasSource(c.mappings[j]) \/ c.mappings[j].source.alias \in Aliases(c),
                              Issue("mappings", j, "source", "err.mappingSourceUnknownAlias"))
                       \cup Unless(~HasCell(c.mappings[j]) \/ c.mappings[j].source_cell.alias \in Aliases(c),
                              Issue("mappings", j, "source_cell", "err.mappingCellUnknownAlias"))
<1> DEFINE A == Unless(row.target # "", Issue("mappings", i, "target", "too_small"))
           B == Unless(row.source = Absent \/ Qualified(row.source),
                       Issue("mappings", i, "source", "err.qualified"))
           C == Unless(row.source_cell = Absent \/ row.source_cell.alias # "",
                       Issue("mappings", i, "source_cell", "too_small"))
           D == Unless(row.source_cell = Absent \/ row.source_cell.address \in GoodAddresses,
                       Issue("mappings", i, "address", "err.cellAddress"))
           E == Unless(ModesSet(row) <= 1, Issue("mappings", i, "source", "err.xorMode"))
           F == Unless(ModesSet(row) >= 1, Issue("mappings", i, "source", "err.requireOneMode"))
           U == UNION {Of(n) : n \in DOMAIN row.conditions}
<1>1. A = {} /\ B = {} /\ C = {} /\ D = {} /\ F = {} /\ U = {}
  <2>1. RowIssues(row, i) = A \cup B \cup C \cup D \cup U \cup E \cup F
    <3> HIDE DEF row
    <3> QED  BY DEF RowIssues
  <2> HIDE DEF A, B, C, D, E, F, U
  <2> QED  BY <2>1 DEF row
<1>2. UNION {Known(j) : j \in DOMAIN c.mappings} = {}
  <2> DEFINE G == Unless(Cardinality(Aliases(c)) = Len(c.sources),
                         Issue("sources", 0, "alias", "err.duplicateAlias"))
             H == Unless(\E j \in DOMAIN c.sources : c.sources[j].role = "primary",
                         Issue("sources", 0, "role", "err.noPrimary"))
             J == UNION {UNION {Unless(c.joins[j][side].alias \in Aliases(c),
                                       Issue("joins", j, side, "err.joinUnknownAlias"))
                                : side \in {"left", "right"}} : j \in DOMAIN c.joins}
             K == UNION {Known(j) : j \in DOMAIN c.mappings}
  <2>1. RelationIssues(c) = G \cup H \cup J \cup K
    BY DEF RelationIssues
  <2> HIDE DEF G, H, J, K
  <2>2. K = {}
    BY <2>1
  <2> QED  BY <2>2 DEF K
<1>3. Known(i) = {}
  <2> HIDE DEF Known
  <2> QED  BY <1>2
<1>4. \A n \in DOMAIN row.conditions : Of(n) = {}
  <2> HIDE DEF Of
  <2> QED  BY <1>1
<1>5. row.target # "" /\ (row.source = Absent \/ Qualified(row.source))
      /\ (row.source_cell = Absent \/ row.source_cell.alias # "")
      /\ (row.source_cell = Absent \/ row.source_cell.address \in GoodAddresses)
  BY <1>1 DEF Unless
<1>6. ModesSet(row) >= 1
  BY <1>1 DEF Unless
<1>7. \A n \in DOMAIN row.conditions : Qualified(row.conditions[n])
  BY <1>4 DEF Unless
<1>8. (~HasSource(row) \/ row.source.alias \in Aliases(c))
      /\ (~HasCell(row) \/ row.source_cell.alias \in Aliases(c))
  BY <1>3 DEF Unless
<1> HIDE DEF row
<1>9. \A r : Qualified(r) => r # EmptyRef
  <2>1. ~Qualified(EmptyRef)
    BY ONLY DEF EmptyRef, Qualified
  <2> QED  BY <2>1
<1>10. Cardinality({m \in Modes : row[m] # Absent}) = 1
  BY <1>6, SomeMode, OneValue DEF row
<1>11. row.source # Absent => row.source # EmptyRef /\ row.source.alias \in Aliases(c)
  BY <1>5, <1>8, <1>9 DEF HasSource
<1>12. row.source_cell # Absent => /\ row.source_cell.alias \in Aliases(c) \ {""}
                                   /\ row.source_cell.address \in GoodAddresses
  BY <1>5, <1>8 DEF HasCell
<1>13. \A n \in DOMAIN row.conditions :
          row.conditions[n] # EmptyRef /\ row.conditions[n].alias \in Aliases(c)
  BY <1>7, <1>9 DEF row
<1>14. Cardinality({m \in {"source", "literal", "source_cell"} : row[m] # Absent}) = 1
  BY <1>10 DEF Modes
<1> QED  BY <1>5, <1>11, <1>12, <1>13, <1>14 DEF row

(* What the browser accepts, with known aliases in the conditions, the server *)
(* accepts.                                                                   *)
LEMMA AcceptedByBoth ==
  ASSUME NEW c, Issues(c) = {}, ConditionsKnown(c),
         \A i \in DOMAIN c.mappings : OneMode(c.mappings[i]) /\ c.mappings[i].source # Null
  PROVE  ServerAccepts(c)
<1>1. /\ c.name \in GoodNames /\ c.target.columns # <<>> /\ c.mappings # <<>>
      /\ SourceIssues(c) = {} /\ JoinIssues(c) = {} /\ RelationIssues(c) = {}
      /\ \A i \in DOMAIN c.mappings : RowIssues(c.mappings[i], i) = {}
  BY NoIssues
<1>2. \A i \in DOMAIN c.joins : \A side \in {"left", "right"} :
         Qualified(c.joins[i][side]) /\ c.joins[i][side].alias \in Aliases(c)
  BY <1>1, JoinsAccepted
<1>3. ASSUME NEW i \in DOMAIN c.mappings
      PROVE  LET row == c.mappings[i] IN
             /\ row.target # ""
             /\ Cardinality({m \in {"source", "literal", "source_cell"} : row[m] # Absent}) = 1
             /\ row.source # Absent => row.source # EmptyRef /\ row.source.alias \in Aliases(c)
             /\ row.source_cell # Absent =>
                    /\ row.source_cell.alias \in Aliases(c) \ {""}
                    /\ row.source_cell.address \in GoodAddresses
             /\ \A n \in DOMAIN row.conditions :
                    row.conditions[n] # EmptyRef /\ row.conditions[n].alias \in Aliases(c)
  BY <1>1, RowAccepted DEF ConditionsKnown
<1>4. /\ c.sources # <<>>
      /\ \A i \in DOMAIN c.sources : c.sources[i].alias # ""
      /\ Cardinality(Aliases(c)) = Len(c.sources)
      /\ \E i \in DOMAIN c.sources : c.sources[i].role = "primary"
  BY <1>1, SourcesAccepted
<1> QED  BY <1>1, <1>2, <1>3, <1>4 DEF ServerAccepts

(* What the schema makes of the rows of a form                                *)
LEMMA DerivedRows ==
  ASSUME FormOK(form), NEW m \in DOMAIN form.mappings
  PROVE  LET row == form.mappings[m]
             sent == ToConfig(form).mappings[m] IN
         /\ OneMode(sent) /\ sent.source # Null
         /\ row.source # Null => sent.source = row.source
         /\ sent.literal = row.literal /\ sent.source_cell = row.source_cell
         /\ sent.conditions = row.conditions
<1> DEFINE row == form.mappings[m]
           r == IF row.source = Null THEN Absent ELSE row.source
           sent == ToConfig(form).mappings[m]
<1>1. RowOK(row)
  BY DEF FormOK, RowsOK
<1>2. sent = NullishToUndef(row)
  BY DEF ToConfig
<1> HIDE DEF row, sent
<1>3. sent = [row EXCEPT !.source = r]
  BY <1>2 DEF NullishToUndef
<1>4. r # Null /\ (r = Absent <=> NoSource(row)) /\ (row.source # Null => r = row.source)
  BY BookAssumption DEF NoSource
<1> HIDE DEF r
<1>5. row = [target |-> row.target, source |-> row.source, literal |-> row.literal,
             source_cell |-> row.source_cell, conditions |-> row.conditions] /\ OneMode(row)
  BY <1>1 DEF RowOK
<1>6. /\ sent.source = r /\ sent.literal = row.literal
      /\ sent.source_cell = row.source_cell /\ sent.conditions = row.conditions
  BY <1>3, <1>5
<1>7. OneMode(sent)
  BY <1>4, <1>5, <1>6 DEF OneMode, NoSource
<1> QED  BY <1>4, <1>6, <1>7 DEF row, sent

(* A form the browser's schema accepts, with known aliases in its conditions, *)
(* passes the server's (schemas.ts against schemas.py).                       *)
THEOREM SchemasAgree == EditorSpec => []AcceptedFormsAreSaved
<1>1. EditInv => AcceptedFormsAreSaved
  <2> SUFFICES ASSUME EditInv, BrowserAccepts(form), ConditionsKnown(ToConfig(form))
               PROVE  ServerAccepts(ToConfig(form))
    BY DEF AcceptedFormsAreSaved
  <2> DEFINE c == ToConfig(form)
  <2>1. DOMAIN c.mappings = DOMAIN form.mappings
    BY DEF ToConfig
  <2>2. \A m \in DOMAIN form.mappings : OneMode(c.mappings[m]) /\ c.mappings[m].source # Null
    BY DerivedRows DEF EditInv
  <2>3. Issues(c) = {} /\ ConditionsKnown(c)
    BY DEF BrowserAccepts
  <2> HIDE DEF c
  <2>4. ServerAccepts(c)
    BY <2>1, <2>2, <2>3, AcceptedByBoth
  <2> QED  BY <2>4 DEF c
<1> QED  BY <1>1, EditorInvariant, PTL

(* Of an accepted form, the value a row shows is the only one saved with it   *)
(* (MappingRow.tsx).                                                          *)
THEOREM ShownIsSaved == EditorSpec => []RowShowsWhatIsSaved
<1>1. EditInv => RowShowsWhatIsSaved
  <2> SUFFICES ASSUME EditInv, NEW m \in DOMAIN form.mappings,
                      NEW mode \in {"source", "literal", "source_cell"},
                      ToConfig(form).mappings[m][mode] # Absent
               PROVE  mode = ModeOf(form.mappings[m])
    BY DEF RowShowsWhatIsSaved
  <2> DEFINE row == form.mappings[m]
             sent == ToConfig(form).mappings[m]
  <2>1. /\ OneMode(sent) /\ sent.source # Null /\ sent[mode] # Absent
        /\ sent.literal = row.literal /\ sent.source_cell = row.source_cell
    BY DerivedRows DEF EditInv
  <2> HIDE DEF row, sent
  <2>2. CASE mode = "source"
    BY <2>1, <2>2 DEF OneMode, NoSource, ModeOf, row
  <2>3. CASE mode = "literal"
    BY <2>1, <2>3 DEF OneMode, NoSource, ModeOf, row
  <2>4. CASE mode = "source_cell"
    BY <2>1, <2>4 DEF OneMode, NoSource, ModeOf, row
  <2> QED  BY <2>2, <2>3, <2>4
<1> QED  BY <1>1, EditorInvariant, PTL

-----------------------------------------------------------------------------
(* The answer for the template                                                *)

(* Rendering a form never answers the request of a picker that keeps its file.*)
LEMMA AskKept ==
  ASSUME EditInv, NEW f, NEW pk, pk[Target] = picker[Target], Render(f, pk),
         picker[Target].ask # <<>>, picker'[Target].file = picker[Target].file
  PROVE  picker'[Target].ask # <<>>
<1>1. picker[Target].file # NoFile /\ Target \in Keys
  <2>1. Target \in Keys
    BY EditorAssumption DEF Target, Keys
  <2> QED  BY <2>1, AskedPicker
<1>2. picker'[Target] = PickerAfter(Target, picker[Target], f)
  BY <1>1 DEF Render
<1>3. CASE Part(f, Target).file = NoFile
  <2>1. picker'[Target] = NoPicker
    BY <1>2, <1>3 DEF PickerAfter
  <2> QED  BY <1>1, <2>1, NoPickerOK
<1>4. CASE Part(f, Target).file # NoFile /\ picker[Target].file = Part(f, Target).file
  BY <1>2, <1>4 DEF PickerAfter
<1>5. CASE Part(f, Target).file # NoFile /\ picker[Target].file # Part(f, Target).file
  <2> DEFINE old == picker[Target]
             asked == <<f>>
  <2>1. picker'[Target] = [old EXCEPT !.file = Part(f, Target).file, !.ask = asked, !.loading = TRUE,
                                      !.late = old.late \cup ToSet(old.ask)]
    BY <1>2, <1>5 DEF PickerAfter
  <2>2. old = [file |-> old.file, sheets |-> old.sheets, ask |-> old.ask, late |-> old.late,
               more |-> old.more, loading |-> old.loading, error |-> old.error]
    BY <1>1, PickerFields
  <2>3. asked # <<>>
    OBVIOUS
  <2> HIDE DEF asked, old
  <2> QED  BY <2>1, <2>2, <2>3
<1> QED  BY <1>3, <1>4, <1>5

(* The form changes by an edit or by an answer.                               *)
LEMMA WhatChangesTheForm ==
  ASSUME EditInv, [EditorNext]_editorVars
  PROVE  form' = form \/ (\E f : Render(f, picker)) \/ ParseAnswers
<1>1. CASE PlainStep
  BY <1>1 DEF PlainStep, Edit
<1>2. CASE TypeName \/ DropTarget \/ RemoveTargetFile \/ DropSource \/ RemoveSourceFile
           \/ TypeAlias \/ PickRole \/ AddSource \/ AddSheetVariant
           \/ AddJoin \/ RemoveJoin \/ PickJoin \/ AddMapping \/ RemoveMapping
  BY <1>1, <1>2, NamePlain, TargetPlain, SourcePlain, AddedPlain, JoinsPlain, AddedRowPlain
<1>3. CASE TypeTarget \/ SwitchTo \/ PickField \/ PickCell \/ TypeLiteral
           \/ AddCondition \/ PickCondition \/ RemoveCondition
  BY <1>1, <1>3, RowPlain, ConditionPlain
<1>4. CASE RemoveSource
  BY <1>4 DEF RemoveSource
<1>5. CASE PickSheet \/ ClickRow
  BY <1>5 DEF PickSheet, ClickRow, Edit
<1>6. CASE LoadMore \/ ParseFails \/ LateAnswerIgnored \/ MoreAnswers \/ MoreFails
  BY <1>6 DEF LoadMore, ParseFails, LateAnswerIgnored, MoreAnswers, MoreFails
<1>7. CASE UNCHANGED editorVars
  BY <1>7 DEF editorVars
<1> QED  BY <1>2, <1>3, <1>4, <1>5, <1>6, <1>7 DEF EditorNext

(* Keeps(f, g): g has of f the name, the sources, the joins and every row whose *)
(* target no other row has.                                                     *)
Keeps(f, g) ==
    /\ g.name = f.name /\ g.sources = f.sources /\ g.joins = f.joins
    /\ \A m \in DOMAIN f.mappings :
          (\A n \in DOMAIN f.mappings : f.mappings[n].target = f.mappings[m].target => n = m)
          => \E n \in DOMAIN g.mappings : g.mappings[n] = f.mappings[m]

(* Merging an answer for the template keeps the edits.                        *)
LEMMA MergedKeeps ==
  ASSUME NEW f, FormOK(f), NEW meta, MetaOK(meta)
  PROVE  Keeps(f, WithMeta(f, Target, meta))
<1> DEFINE g == WithMeta(f, Target, meta)
           rows == f.mappings
           new == MergeMappingsWithColumns(rows, meta.columns)
<1>1. g.name = f.name /\ g.sources = f.sources /\ g.joins = f.joins /\ g.mappings = new
  BY TargetMeta
<1>2. IsSeq(rows) /\ meta.columns \in Seq(STRING)
  BY DEF FormOK, RowsOK, MetaOK
<1>3. \A m \in DOMAIN rows :
         (\A k \in DOMAIN rows : rows[k].target = rows[m].target => k = m)
         => \E n \in DOMAIN new : new[n] = rows[m]
  BY <1>2, MergedRows
<1> QED  BY <1>1, <1>3 DEF Keeps

(* The answer for the template keeps name, sources, joins and every row whose *)
(* target is its own, as edited meanwhile (SheetHeaderPicker.tsx,             *)
(* configForm.ts).                                                            *)
THEOREM TemplateAnswersKeepEdits == EditorSpec => TemplateAnswerKeepsEdits
<1>1. ASSUME EditInv, [EditorNext]_editorVars,
             picker[Target].ask # <<>>, picker'[Target].ask = <<>>,
             picker'[Target].file = picker[Target].file
      PROVE  Keeps(form, form')
  <2>1. CASE form' = form
    BY <2>1 DEF Keeps
  <2>2. ~ \E f : Render(f, picker)
    BY <1>1, AskKept
  <2>3. CASE ParseAnswers
    <3>0. PICK k \in Keys : \E f : AnswerAt(k, f)
      BY <1>1, <2>3, AnswerStep
    <3>1. PICK f : AnswerAt(k, f)
      BY <3>0
    <3>2. CASE k = Target
      <4>1. f = form /\ form' = Merged(form, Target) /\ FormOK(form)
            /\ Part(form, Target).file = picker[Target].file
        BY <3>1, <3>2 DEF AnswerAt, Render
      <4>2. MetaOK(Parsed(picker[Target].ask[1], Target, FirstRows(picker[Target].file)))
        BY <1>1, <3>2, <4>1, AnswerMerged
      <4> QED  BY <4>1, <4>2, MergedKeeps DEF Merged
    <3>3. CASE k # Target
      <4> DEFINE pk == [picker EXCEPT ![k] = Answered(k)]
      <4>1. pk[Target] = picker[Target]
        BY <3>3
      <4>2. Render(Merged(f, k), pk)
        BY <3>1 DEF AnswerAt
      <4> HIDE DEF pk
      <4>3. picker'[Target].ask # <<>>
        BY <1>1, <4>1, <4>2, AskKept
      <4> QED  BY <1>1, <4>3
    <3> QED  BY <3>2, <3>3
  <2> QED  BY <1>1, <2>1, <2>2, <2>3, WhatChangesTheForm
<1>2. EditInv /\ [EditorNext]_editorVars =>
        [(/\ picker[Target].ask # <<>> /\ picker'[Target].ask = <<>>
          /\ picker'[Target].file = picker[Target].file)
         => /\ form'.name = form.name
            /\ form'.sources = form.sources
            /\ form'.joins = form.joins
            /\ \A m \in DOMAIN form.mappings :
                  (\A n \in DOMAIN form.mappings :
                      form.mappings[n].target = form.mappings[m].target => n = m)
                  => \E n \in DOMAIN form'.mappings :
                        form'.mappings[n] = form.mappings[m]]_editorVars
  BY <1>1 DEF Keeps
<1> QED  BY <1>2, EditorInvariant, PTL DEF EditorSpec, TemplateAnswerKeepsEdits
-----------------------------------------------------------------------------
(* A form has finitely many issues                                            *)

(* Finitely many finite sets have a finite union.                             *)
LEMMA FiniteUnion ==
  ASSUME NEW n \in Nat, NEW f, \A i \in 1..n : IsFiniteSet(f[i])
  PROVE  IsFiniteSet(UNION {f[i] : i \in 1..n})
<1> DEFINE T == {f[i] : i \in 1..n}
           g == [i \in 1..n |-> f[i]]
<1>1. g \in Surjection(1..n, T)
  <2>1. g \in [1..n -> T]
    OBVIOUS
  <2>2. \A t \in T : \E i \in 1..n : g[i] = t
    OBVIOUS
  <2> HIDE DEF g, T
  <2> QED  BY <2>1, <2>2 DEF Surjection
<1>2. IsFiniteSet(1..n) /\ Cardinality(1..n) = n
  BY FS_Interval
<1>3. IsFiniteSet(T)
  <2> HIDE DEF T, g
  <2> QED  BY <1>1, <1>2, FS_Surjection
<1>4. \A t \in T : IsFiniteSet(t)
  OBVIOUS
<1> HIDE DEF T
<1>5. IsFiniteSet(UNION T)
  BY <1>3, <1>4, FS_UNION
<1> QED  BY <1>5 DEF T

LEMMA TwoFinite == \A S, T : IsFiniteSet(S) /\ IsFiniteSet(T) => IsFiniteSet(S \cup T)
BY FS_Union

(* The issues of each part are finitely many.                                 *)
LEMMA SourceIssuesFinite ==
  ASSUME NEW c, NEW n \in Nat, DOMAIN c.sources = 1..n
  PROVE  IsFiniteSet(SourceIssues(c))
<1> DEFINE A == Unless(c.sources # <<>>, Issue("sources", 0, "", "too_small"))
           B(i) == Unless(c.sources[i].alias # "", Issue("sources", i, "alias", "too_small"))
           C(i) == Unless(c.sources[i].sheet # "", Issue("sources", i, "sheet", "too_small"))
           f == [i \in 1..n |-> B(i) \cup C(i)]
           K == UNION {B(i) \cup C(i) : i \in 1..n}
<1>1. IsFiniteSet(A) /\ \A i : IsFiniteSet(B(i)) /\ IsFiniteSet(C(i))
  BY FS_EmptySet, FS_Singleton DEF Unless
<1>2. SourceIssues(c) = A \cup K
  BY DEF SourceIssues
<1> HIDE DEF A, B, C
<1>3. IsFiniteSet(K)
  <2>1. \A i \in 1..n : IsFiniteSet(f[i])
    BY <1>1, TwoFinite
  <2>2. K = UNION {f[i] : i \in 1..n}
    OBVIOUS
  <2> HIDE DEF f, K
  <2> QED  BY <2>1, <2>2, FiniteUnion
<1> HIDE DEF K
<1> QED  BY <1>1, <1>2, <1>3, TwoFinite

LEMMA JoinIssuesFinite ==
  ASSUME NEW c, NEW n \in Nat, DOMAIN c.joins = 1..n
  PROVE  /\ IsFiniteSet(JoinIssues(c))
         /\ IsFiniteSet(UNION {UNION {Unless(c.joins[i][side].alias \in Aliases(c),
                                             Issue("joins", i, side, "err.joinUnknownAlias"))
                                      : side \in {"left", "right"}} : i \in DOMAIN c.joins})
<1> DEFINE A(i, side) == Unless(Qualified(c.joins[i][side]), Issue("joins", i, side, "err.qualified"))
           B(i, side) == Unless(c.joins[i][side].alias \in Aliases(c),
                                Issue("joins", i, side, "err.joinUnknownAlias"))
           f == [i \in 1..n |-> UNION {A(i, side) : side \in {"left", "right"}}]
           g == [i \in 1..n |-> UNION {B(i, side) : side \in {"left", "right"}}]
<1>1. \A i, side : IsFiniteSet(A(i, side)) /\ IsFiniteSet(B(i, side))
  BY FS_EmptySet, FS_Singleton DEF Unless
<1>2. JoinIssues(c) = UNION {UNION {A(i, side) : side \in {"left", "right"}} : i \in 1..n}
  BY DEF JoinIssues
<1>3. UNION {UNION {Unless(c.joins[i][side].alias \in Aliases(c),
                           Issue("joins", i, side, "err.joinUnknownAlias"))
                    : side \in {"left", "right"}} : i \in DOMAIN c.joins}
      = UNION {UNION {B(i, side) : side \in {"left", "right"}} : i \in 1..n}
  OBVIOUS
<1> HIDE DEF A, B
<1>4. \A i \in 1..n : f[i] = A(i, "left") \cup A(i, "right") /\ g[i] = B(i, "left") \cup B(i, "right")
  OBVIOUS
<1>5. \A i \in 1..n : IsFiniteSet(f[i]) /\ IsFiniteSet(g[i])
  <2> HIDE DEF f, g
  <2> QED  BY <1>1, <1>4, TwoFinite
<1>6. /\ {UNION {A(i, side) : side \in {"left", "right"}} : i \in 1..n} = {f[i] : i \in 1..n}
      /\ {UNION {B(i, side) : side \in {"left", "right"}} : i \in 1..n} = {g[i] : i \in 1..n}
  OBVIOUS
<1> HIDE DEF f, g
<1>7. IsFiniteSet(UNION {f[i] : i \in 1..n}) /\ IsFiniteSet(UNION {g[i] : i \in 1..n})
  BY <1>5, FiniteUnion
<1> QED  BY <1>2, <1>3, <1>6, <1>7

LEMMA RowIssuesFinite ==
  ASSUME NEW row, NEW i, NEW n \in Nat, DOMAIN row.conditions = 1..n
  PROVE  IsFiniteSet(RowIssues(row, i))
<1> DEFINE A == Unless(row.target # "", Issue("mappings", i, "target", "too_small"))
           B == Unless(row.source = Absent \/ Qualified(row.source),
                       Issue("mappings", i, "source", "err.qualified"))
           C == Unless(row.source_cell = Absent \/ row.source_cell.alias # "",
                       Issue("mappings", i, "source_cell", "too_small"))
           D == Unless(row.source_cell = Absent \/ row.source_cell.address \in GoodAddresses,
                       Issue("mappings", i, "address", "err.cellAddress"))
           E == Unless(ModesSet(row) <= 1, Issue("mappings", i, "source", "err.xorMode"))
           F == Unless(ModesSet(row) >= 1, Issue("mappings", i, "source", "err.requireOneMode"))
           Of(m) == Unless(Qualified(row.conditions[m]),
                           Issue("mappings", i, "condition", "err.qualified"))
           f == [m \in 1..n |-> Of(m)]
           U == UNION {Of(m) : m \in 1..n}
<1>1. /\ IsFiniteSet(A) /\ IsFiniteSet(B) /\ IsFiniteSet(C) /\ IsFiniteSet(D)
      /\ IsFiniteSet(E) /\ IsFiniteSet(F) /\ \A m : IsFiniteSet(Of(m))
  BY FS_EmptySet, FS_Singleton DEF Unless
<1>2. RowIssues(row, i) = A \cup B \cup C \cup D \cup U \cup E \cup F
  BY DEF RowIssues
<1> HIDE DEF A, B, C, D, E, F, Of
<1>3. IsFiniteSet(U)
  <2>1. \A m \in 1..n : IsFiniteSet(f[m])
    BY <1>1
  <2>2. U = UNION {f[m] : m \in 1..n}
    OBVIOUS
  <2> HIDE DEF f, U
  <2> QED  BY <2>1, <2>2, FiniteUnion
<1> HIDE DEF U
<1> QED  BY <1>1, <1>2, <1>3, TwoFinite

LEMMA RelationIssuesFinite ==
  ASSUME NEW c, NEW b \in Nat, DOMAIN c.joins = 1..b, NEW n \in Nat, DOMAIN c.mappings = 1..n
  PROVE  IsFiniteSet(RelationIssues(c))
<1> DEFINE A == Unless(Cardinality(Aliases(c)) = Len(c.sources),
                       Issue("sources", 0, "alias", "err.duplicateAlias"))
           B == Unless(\E j \in DOMAIN c.sources : c.sources[j].role = "primary",
                       Issue("sources", 0, "role", "err.noPrimary"))
           J == UNION {UNION {Unless(c.joins[j][side].alias \in Aliases(c),
                                     Issue("joins", j, side, "err.joinUnknownAlias"))
                              : side \in {"left", "right"}} : j \in DOMAIN c.joins}
           S(j) == Unless(~HasSource(c.mappings[j]) \/ c.mappings[j].source.alias \in Aliases(c),
                          Issue("mappings", j, "source", "err.mappingSourceUnknownAlias"))
           C(j) == Unless(~HasCell(c.mappings[j]) \/ c.mappings[j].source_cell.alias \in Aliases(c),
                          Issue("mappings", j, "source_cell", "err.mappingCellUnknownAlias"))
           f == [j \in 1..n |-> S(j) \cup C(j)]
           K == UNION {S(j) \cup C(j) : j \in 1..n}
<1>1. IsFiniteSet(A) /\ IsFiniteSet(B) /\ \A j : IsFiniteSet(S(j)) /\ IsFiniteSet(C(j))
  BY FS_EmptySet, FS_Singleton DEF Unless
<1>2. RelationIssues(c) = A \cup B \cup J \cup K
  BY DEF RelationIssues
<1>3. IsFiniteSet(J)
  BY JoinIssuesFinite
<1> HIDE DEF A, B, J, S, C
<1>4. IsFiniteSet(K)
  <2>1. \A j \in 1..n : IsFiniteSet(f[j])
    BY <1>1, TwoFinite
  <2>2. K = UNION {f[j] : j \in 1..n}
    OBVIOUS
  <2> HIDE DEF f, K
  <2> QED  BY <2>1, <2>2, FiniteUnion
<1> HIDE DEF K
<1> QED  BY <1>1, <1>2, <1>3, <1>4, TwoFinite

(* And so are all of them.                                                    *)
LEMMA IssuesFinite ==
  ASSUME NEW c, NEW a \in Nat, DOMAIN c.sources = 1..a, NEW b \in Nat, DOMAIN c.joins = 1..b,
         NEW n \in Nat, DOMAIN c.mappings = 1..n,
         \A i \in 1..n : \E m \in Nat : DOMAIN c.mappings[i].conditions = 1..m
  PROVE  IsFiniteSet(Issues(c))
<1> DEFINE A == Unless(c.name \in GoodNames, Issue("name", 0, "", "err.invalidName"))
           B == Unless(c.target.sheet # "", Issue("target_template", 0, "sheet", "too_small"))
           C == Unless(c.target.columns # <<>>, Issue("target_template", 0, "columns", "too_small"))
           D == Unless(c.mappings # <<>>, Issue("mappings", 0, "", "too_small"))
           f == [i \in 1..n |-> RowIssues(c.mappings[i], i)]
           R == UNION {RowIssues(c.mappings[i], i) : i \in 1..n}
<1>1. Issues(c) = A \cup B \cup C \cup SourceIssues(c) \cup JoinIssues(c) \cup D \cup R
                  \cup RelationIssues(c)
  BY DEF Issues
<1>2. IsFiniteSet(A) /\ IsFiniteSet(B) /\ IsFiniteSet(C) /\ IsFiniteSet(D)
  BY FS_EmptySet, FS_Singleton DEF Unless
<1> HIDE DEF A, B, C, D
<1>3. IsFiniteSet(SourceIssues(c)) /\ IsFiniteSet(JoinIssues(c)) /\ IsFiniteSet(RelationIssues(c))
  BY SourceIssuesFinite, JoinIssuesFinite, RelationIssuesFinite
<1>4. IsFiniteSet(R)
  <2>1. \A i \in 1..n : IsFiniteSet(f[i])
    BY RowIssuesFinite
  <2>2. R = UNION {f[i] : i \in 1..n}
    OBVIOUS
  <2> HIDE DEF f, R
  <2> QED  BY <2>1, <2>2, FiniteUnion
<1> HIDE DEF R
<1> QED  BY <1>1, <1>2, <1>3, <1>4, TwoFinite

(* What the checklist has seen when every step is done.                       *)
LEMMA DoneSteps ==
  ASSUME NEW f, NEW counts, \A step \in Steps : DeriveStepStates(f, counts)[step] = "done"
  PROVE  /\ f.target.file # NoFile /\ SourcesDone(f)
         /\ \A step \in Steps : counts[step] = 0
<1>1. "target" \in Steps /\ "sources" \in Steps /\ "save" \in Steps
  BY DEF Steps
<1>2. f.target.file # NoFile
  BY <1>1 DEF DeriveStepStates
<1>3. SourcesDone(f)
  BY <1>1 DEF DeriveStepStates
<1>4. \A step \in Steps : counts[step] = 0
  BY <1>1 DEF DeriveStepStates
<1> QED  BY <1>2, <1>3, <1>4

(* When no step counts an issue, there is none.                               *)
LEMMA CountedNone ==
  ASSUME NEW issues, IsFiniteSet(issues),
         \A step \in Steps : CountIssuesByStep(issues)[step] = 0
  PROVE  issues = {}
<1> SUFFICES ASSUME NEW issue \in issues PROVE FALSE
  OBVIOUS
<1> DEFINE step == StepOf(issue)
           those == {i \in issues : StepOf(i) = step}
<1>1. step \in Steps
  BY DEF StepOf, Steps
<1>2. Cardinality(those) = 0
  BY <1>1 DEF CountIssuesByStep
<1>3. IsFiniteSet(those)
  <2>1. those \in SUBSET issues
    OBVIOUS
  <2> HIDE DEF those
  <2> QED  BY <2>1, FS_Subset
<1>4. those = {}
  <2> HIDE DEF those
  <2> QED  BY <1>2, <1>3, FS_EmptySet
<1> QED  BY <1>4

(* The configuration derived from a form has finitely many issues.            *)
LEMMA DerivedIssuesFinite ==
  ASSUME NEW f, FormOK(f)
  PROVE  IsFiniteSet(Issues(ToConfig(f)))
<1> DEFINE c == ToConfig(f)
           a == Len(f.sources)
           b == Len(f.joins)
           n == Len(f.mappings)
<1>1. a \in Nat /\ DOMAIN f.sources = 1..a
  BY FormFields
<1>2. b \in Nat /\ DOMAIN f.joins = 1..b /\ n \in Nat /\ DOMAIN f.mappings = 1..n
  BY SeqShape DEF FormOK, RowsOK
<1>3. /\ DOMAIN c.sources = 1..a /\ DOMAIN c.joins = 1..b /\ DOMAIN c.mappings = 1..n
      /\ \A i \in 1..n : c.mappings[i] = NullishToUndef(f.mappings[i])
  BY <1>1, <1>2 DEF ToConfig
<1>4. \A i \in 1..n : \E m \in Nat : DOMAIN c.mappings[i].conditions = 1..m
  <2> SUFFICES ASSUME NEW i \in 1..n
               PROVE  \E m \in Nat : DOMAIN c.mappings[i].conditions = 1..m
    OBVIOUS
  <2> DEFINE row == f.mappings[i]
  <2>1. RowOK(row)
    BY <1>2 DEF FormOK, RowsOK
  <2>2. c.mappings[i] = NullishToUndef(row)
    BY <1>3
  <2> HIDE DEF row, c
  <2>3. row = [target |-> row.target, source |-> row.source, literal |-> row.literal,
               source_cell |-> row.source_cell, conditions |-> row.conditions]
        /\ IsSeq(row.conditions)
    BY <2>1 DEF RowOK
  <2>4. c.mappings[i].conditions = row.conditions
    BY <2>2, <2>3 DEF NullishToUndef
  <2> QED  BY <2>3, <2>4, SeqShape
<1> HIDE DEF a, b, n, c
<1>5. IsFiniteSet(Issues(c))
  BY <1>1, <1>2, <1>3, <1>4, IssuesFinite
<1> QED  BY <1>5 DEF c

(* The checklist adds the issues of a form, maybe an earlier one.             *)
ChecklistInv == EditInv /\ IsFiniteSet(checked)

LEMMA ChecklistInvariant == ChecklistSpec => []ChecklistInv
<1>1. ChecklistInit => ChecklistInv
  BY EditInit, EmptyStateOK, DerivedIssuesFinite DEF ChecklistInit, ChecklistInv
<1>2. ASSUME ChecklistInv, [ChecklistNext]_checklistVars PROVE ChecklistInv'
  <2>1. [EditorNext]_editorVars
    BY <1>2 DEF ChecklistNext, checklistVars, Validate
  <2>2. EditInv'
    BY <1>2, <2>1, EditStep DEF ChecklistInv
  <2>3. IsFiniteSet(IssuesNow)
    BY <1>2, DerivedIssuesFinite DEF ChecklistInv, EditInv, IssuesNow
  <2>4. checked' \in {checked, IssuesNow}
    BY <1>2 DEF ChecklistNext, checklistVars, Validate
  <2> QED  BY <1>2, <2>2, <2>3, <2>4 DEF ChecklistInv
<1> QED  BY <1>1, <1>2, PTL DEF ChecklistSpec

(* When every step of the checklist is done, the preview is on and has a file *)
(* for every source, even when the issues counted are those of an earlier form*)
(* (deriveStepStates, previewHelpers.ts; ConfigBuilder.tsx).                  *)
THEOREM DoneFormsPreview == ChecklistSpec => []DoneFormPreviews
<1>1. ChecklistInv => DoneFormPreviews
  <2> SUFFICES ASSUME ChecklistInv,
                      \A step \in Steps :
                        DeriveStepStates(form, CountIssuesByStep(LiveIssues))[step] = "done"
               PROVE  /\ IF entry = "builder" THEN CanPreview ELSE BrowserAccepts(form)
                      /\ PreviewFiles(form) = Aliases(ToConfig(form))
    BY DEF DoneFormPreviews, StepStates
  <2>1. /\ form.target.file # NoFile /\ SourcesDone(form)
        /\ \A step \in Steps : CountIssuesByStep(LiveIssues)[step] = 0
    BY DoneSteps
  <2>2. IsFiniteSet(LiveIssues)
    <3>1. FormOK(form)
      BY DEF ChecklistInv, EditInv
    <3> QED  BY <3>1, DerivedIssuesFinite DEF ChecklistInv, LiveIssues, IssuesNow
  <2>3. LiveIssues = {}
    BY <2>1, <2>2, CountedNone
  <2>4. \E i \in DOMAIN form.sources : form.sources[i].file # NoFile
    <3>1. IsSeq(form.sources) /\ form.sources # <<>>
      BY <2>1 DEF ChecklistInv, EditInv, FormOK, SourcesOK, SourcesDone
    <3>2. Len(form.sources) \in Nat /\ DOMAIN form.sources = 1..Len(form.sources)
      BY <3>1, SeqShape
    <3>3. 1 \in DOMAIN form.sources
      BY <3>1, <3>2 DEF IsSeq
    <3> QED  BY <2>1, <3>3 DEF SourcesDone
  <2>5. IF entry = "builder" THEN CanPreview ELSE BrowserAccepts(form)
    BY <2>1, <2>3, <2>4 DEF CanPreview, BrowserAccepts, LiveIssues, IssuesNow
  <2>6. PreviewFiles(form) = Aliases(ToConfig(form))
    <3> DEFINE c == ToConfig(form)
    <3>1. PreviewFiles(form) = {form.sources[i].alias : i \in DOMAIN form.sources}
      BY <2>1 DEF PreviewFiles, SourcesDone
    <3>2. /\ DOMAIN c.sources = DOMAIN form.sources
          /\ \A i \in DOMAIN form.sources : c.sources[i].alias = form.sources[i].alias
      BY DEF ToConfig
    <3> HIDE DEF c
    <3>3. Aliases(c) = {form.sources[i].alias : i \in DOMAIN form.sources}
      BY <3>2 DEF Aliases
    <3> QED  BY <3>1, <3>3 DEF c
  <2> QED  BY <2>5, <2>6
<1> QED  BY <1>1, ChecklistInvariant, PTL
=============================================================================
