-------------------------- MODULE DetectionProofs --------------------------
(***************************************************************************)
(* Proofs about Detection, for any packets, detectors, limits and windows. *)
(***************************************************************************)
EXTENDS Detection, SequenceTheorems, FiniteSetTheorems, WellFoundedInduction,
        TLAPS

-----------------------------------------------------------------------------
(***************************************************************************)
(* Induction over numbers, for sets and functions.                         *)
(***************************************************************************)
\* Every nonempty set of natural numbers has a least element.
LEMMA LeastElement ==
    ASSUME NEW S \in SUBSET Nat, S # {}
    PROVE  \E n \in S : \A m \in S : n <= m
<1>1. \E R : /\ IsWellFoundedOn(R, Nat)
             /\ \A m, n \in Nat : m < n => << m, n >> \in R
  <2>1. \A m, n \in Nat : m < n => << m, n >> \in OpToRel(<, Nat)
    BY DEF OpToRel
  <2> QED BY <2>1, NatLessThanWellFounded, Zenon
<1>2. PICK R : /\ IsWellFoundedOn(R, Nat)
               /\ \A m, n \in Nat : m < n => << m, n >> \in R
  BY <1>1, Zenon
<1>3. \E n \in S : \A m \in S : ~ (<< m, n >> \in R)
  <2>1. IsWellFoundedOn(R, Nat) /\ S \subseteq Nat /\ S # {}
    BY <1>2, Zenon
  <2> QED BY ONLY <2>1, WFMin
<1>4. \E n \in S : \A m \in S : ~ (m < n)
  BY <1>2, <1>3, Zenon
<1> QED BY <1>4

\* A set that holds 0, and with each number up to N the next one, holds all
\* numbers up to N.
LEMMA UpTo ==
    ASSUME NEW N \in Nat, NEW S, 0 \in S,
           \A k \in 0..(N - 1) : k \in S => k + 1 \in S
    PROVE  0..N \subseteq S
<1> DEFINE T == {k \in 0..N : k \notin S}
<1> SUFFICES ASSUME T # {} PROVE FALSE
  OBVIOUS
<1>1. PICK n \in T : \A m \in T : n <= m
  <2>1. T \in SUBSET Nat
    OBVIOUS
  <2> HIDE DEF T
  <2> QED BY <2>1, LeastElement
<1>2. n \in 0..N /\ n \notin S /\ n # 0
  OBVIOUS
<1>3. n - 1 \in 0..(N - 1) /\ n - 1 \in 0..N /\ ~ (n <= n - 1) /\ (n - 1) + 1 = n
  BY <1>2
<1>4. n - 1 \in S
  BY <1>1, <1>3
<1> QED BY <1>2, <1>3, <1>4

\* A function may be defined by recursion over the numbers up to N.
Follows(f, N, b, step) ==
    /\ f[0] = b
    /\ \A n \in 1..N : f[n] = step[n][f[n - 1]]

LEMMA Recursion ==
    ASSUME NEW N \in Nat, NEW T, NEW b \in T, NEW step \in [1..N -> [T -> T]]
    PROVE  \E f \in [0..N -> T] : Follows(f, N, b, step)
<1> DEFINE Good(f, k) == Follows(f, k, b, step)
           S == {k \in 0..N : \E f \in [0..N -> T] : Good(f, k)}
<1>1. 0 \in S
  <2> DEFINE f == [n \in 0..N |-> b]
  <2>1. f \in [0..N -> T] /\ f[0] = b
    OBVIOUS
  <2> HIDE DEF f
  <2>2. Good(f, 0) /\ 0 \in 0..N
    BY <2>1 DEF Follows
  <2> QED BY <2>1, <2>2
<1>2. ASSUME NEW k \in 0..(N - 1), k \in S PROVE k + 1 \in S
  <2>1. PICK f \in [0..N -> T] : Good(f, k)
    BY <1>2
  <2> DEFINE v == step[k + 1][f[k]]
             g == [f EXCEPT ![k + 1] = v]
  <2>2. k + 1 \in 1..N /\ k \in 0..N /\ k + 1 \in 0..N /\ v \in T
    BY <2>1
  <2> HIDE DEF v
  <2>3. g \in [0..N -> T] /\ g[k + 1] = v /\ \A n \in 0..N : n # k + 1 => g[n] = f[n]
    BY <2>1, <2>2
  <2> HIDE DEF g
  <2>6. f[0] = b /\ \A n \in 1..k : f[n] = step[n][f[n - 1]]
    BY <2>1 DEF Follows
  <2>4. \A n \in 1..(k + 1) : g[n] = step[n][g[n - 1]]
    <3> SUFFICES ASSUME NEW n \in 1..(k + 1) PROVE g[n] = step[n][g[n - 1]]
      OBVIOUS
    <3>1. g[n - 1] = f[n - 1]
      BY <2>2, <2>3
    <3>2. CASE n = k + 1
      BY <2>2, <2>3, <3>1, <3>2 DEF v
    <3>3. CASE n \in 1..k
      BY <2>2, <2>3, <2>6, <3>1, <3>3
    <3> QED BY <2>2, <3>2, <3>3
  <2>5. Good(g, k + 1)
    BY <2>2, <2>3, <2>4, <2>6 DEF Follows
  <2> HIDE DEF Good
  <2> QED BY <2>2, <2>3, <2>5
<1> HIDE DEF S
<1>3. 0..N \subseteq S
  BY <1>1, <1>2, UpTo
<1>4. N \in S
  BY <1>3
<1> QED BY <1>4 DEF S

-----------------------------------------------------------------------------
(***************************************************************************)
(* Sequences: what Pick and SumOf return.                                  *)
(***************************************************************************)
\* s is a sequence, of whatever.
IsSeq(s) == s \in Seq(ToSet(s))

LEMMA SeqFacts ==
    ASSUME NEW s, IsSeq(s)
    PROVE  /\ Len(s) \in Nat /\ DOMAIN s = 1..Len(s)
           /\ \A i \in DOMAIN s : s[i] \in ToSet(s)
           /\ s = << >> <=> Len(s) = 0
BY DEF IsSeq

LEMMA SeqIs ==
    ASSUME NEW S, NEW s \in Seq(S)
    PROVE  IsSeq(s) /\ ToSet(s) \subseteq S /\ Len(s) \in Nat /\ DOMAIN s = 1..Len(s)
           /\ (\A i \in DOMAIN s : s[i] \in S)
BY DEF IsSeq, ToSet

\* The recursion that defines Pick.
LEMMA PickUnfolds ==
    ASSUME NEW s, IsSeq(s), NEW P
    PROVE  \E f \in [0..Len(s) -> Seq(ToSet(s))] :
              /\ f[0] = << >>
              /\ \A n \in 1..Len(s) :
                    f[n] = IF n \in P THEN Append(f[n - 1], s[n]) ELSE f[n - 1]
              /\ Pick(s, P) = f[Len(s)]
<1> DEFINE N == Len(s)
           T == Seq(ToSet(s))
           b == << >>
           step == [n \in 1..N |-> [t \in T |-> IF n \in P THEN Append(t, s[n]) ELSE t]]
           Step(f, n) == IF n = 0 THEN b
                         ELSE IF n \in P THEN Append(f[n - 1], s[n])
                         ELSE f[n - 1]
           Good(f) == f = [n \in 0..N |-> Step(f, n)]
           upTo == CHOOSE f : Good(f)
<1>1. N \in Nat /\ DOMAIN s = 1..N /\ \A i \in 1..N : s[i] \in ToSet(s)
  BY SeqFacts
<1>10. Pick(s, P) = upTo[N]
  BY DEF Pick
<1> HIDE DEF N
<1>2. b \in T
  OBVIOUS
<1>3. step \in [1..N -> [T -> T]]
  BY <1>1
<1>4. \A n \in 1..N, t \in T :
        step[n][t] = IF n \in P THEN Append(t, s[n]) ELSE t
  OBVIOUS
<1> HIDE DEF step, T, b
<1>5. PICK f \in [0..N -> T] : Follows(f, N, b, step)
  BY <1>1, <1>2, <1>3, Recursion
<1>6. \A n \in 0..N : f[n] = Step(f, n)
  <2> TAKE n \in 0..N
  <2>1. CASE n \in 1..N
    <3>1. f[n - 1] \in T
      BY <1>1, <2>1
    <3> QED BY <1>4, <1>5, <2>1, <3>1 DEF Follows
  <2>2. CASE n = 0
    BY <1>5, <2>2 DEF Follows
  <2> QED BY <2>1, <2>2
<1>7. Good(f)
  <2> HIDE DEF Step
  <2> QED BY <1>6
<1>8. Good(upTo)
  <2> HIDE DEF Good
  <2> QED BY <1>7
<1> HIDE DEF upTo
<1>9. \A n \in 0..N : upTo[n] = Step(upTo, n)
  <2> HIDE DEF Step
  <2> QED BY <1>8
<1>11. upTo = f
  <2>1. DOMAIN upTo = 0..N /\ \A n \in 0..N : n = 0 \/ n - 1 \in 0..N
    BY <1>1, <1>8
  <2> DEFINE S == {n \in 0..N : upTo[n] = f[n]}
  <2>2. 0 \in S
    BY <1>1, <1>6, <1>9
  <2>3. ASSUME NEW n \in 0..(N - 1), n \in S PROVE n + 1 \in S
    <3>1. n + 1 \in 0..N /\ n + 1 # 0 /\ (n + 1) - 1 = n
      BY <1>1
    <3> QED BY <1>6, <1>9, <2>3, <3>1
  <2> HIDE DEF S
  <2>4. 0..N \subseteq S
    BY <1>1, <2>2, <2>3, UpTo
  <2>5. \A n \in 0..N : upTo[n] = f[n]
    BY <2>4 DEF S
  <2> HIDE DEF Step
  <2> QED BY <1>8, <2>5
<1>12. \A n \in 1..N : n \in 0..N /\ n # 0
  BY <1>1
<1>13. /\ f[0] = << >>
       /\ \A n \in 1..N : f[n] = IF n \in P THEN Append(f[n - 1], s[n]) ELSE f[n - 1]
  BY <1>1, <1>5, <1>6, <1>12 DEF b, Follows
<1>14. Pick(s, P) = f[N]
  BY <1>10, <1>11
<1> QED BY <1>13, <1>14 DEF N, T

\* The recursion that defines SumOf.
LEMMA SumUnfolds ==
    ASSUME NEW s \in Seq(Int)
    PROVE  \E f \in [0..Len(s) -> Int] :
              /\ f[0] = 0
              /\ \A n \in 1..Len(s) : f[n] = f[n - 1] + s[n]
              /\ SumOf(s) = f[Len(s)]
<1> DEFINE N == Len(s)
           step == [n \in 1..N |-> [t \in Int |-> t + s[n]]]
           Step(f, n) == IF n = 0 THEN 0 ELSE f[n - 1] + s[n]
           Good(f) == f = [n \in 0..N |-> Step(f, n)]
           upTo == CHOOSE f : Good(f)
<1>1. N \in Nat /\ DOMAIN s = 1..N /\ \A i \in 1..N : s[i] \in Int
  OBVIOUS
<1>2. SumOf(s) = upTo[N]
  BY DEF SumOf
<1> HIDE DEF N
<1>3. step \in [1..N -> [Int -> Int]]
  BY <1>1
<1>4. \A n \in 1..N, t \in Int : step[n][t] = t + s[n]
  OBVIOUS
<1> HIDE DEF step
<1>5. PICK f \in [0..N -> Int] : Follows(f, N, 0, step)
  <2> DEFINE T == Int
             b == 0
  <2>1. b \in T /\ step \in [1..N -> [T -> T]]
    BY <1>3
  <2> HIDE DEF T, b
  <2>2. \E f \in [0..N -> T] : Follows(f, N, b, step)
    BY <1>1, <2>1, Recursion
  <2> QED BY <2>2 DEF T, b
<1>6. \A n \in 0..N : f[n] = Step(f, n)
  <2> TAKE n \in 0..N
  <2>1. CASE n \in 1..N
    <3>1. f[n - 1] \in Int
      BY <1>1, <2>1
    <3> QED BY <1>4, <1>5, <2>1, <3>1 DEF Follows
  <2>2. CASE n = 0
    BY <1>5, <2>2 DEF Follows
  <2> QED BY <2>1, <2>2
<1>7. Good(f)
  <2> HIDE DEF Step
  <2> QED BY <1>6
<1>8. Good(upTo)
  <2> HIDE DEF Good
  <2> QED BY <1>7
<1> HIDE DEF upTo
<1>9. \A n \in 0..N : upTo[n] = Step(upTo, n)
  <2> HIDE DEF Step
  <2> QED BY <1>8
<1>10. upTo[N] = f[N]
  <2> DEFINE S == {n \in 0..N : upTo[n] = f[n]}
  <2>1. 0 \in S
    BY <1>1, <1>6, <1>9
  <2>2. ASSUME NEW n \in 0..(N - 1), n \in S PROVE n + 1 \in S
    <3>1. n + 1 \in 0..N /\ n + 1 # 0 /\ (n + 1) - 1 = n
      BY <1>1
    <3> QED BY <1>6, <1>9, <2>2, <3>1
  <2> HIDE DEF S
  <2>3. 0..N \subseteq S
    BY <1>1, <2>1, <2>2, UpTo
  <2>4. N \in S
    BY <1>1, <2>3
  <2> QED BY <2>4 DEF S
<1>11. /\ f[0] = 0
       /\ \A n \in 1..N : f[n] = f[n - 1] + s[n]
  BY <1>1, <1>6
<1> QED BY <1>2, <1>10, <1>11 DEF N

\* The places themselves, in their order.
Places(N, P) == Pick([i \in 1..N |-> i], P)

\* Pick returns the elements at those places.
LEMMA PickByPlaces ==
    ASSUME NEW s, IsSeq(s), NEW P
    PROVE  /\ Pick(s, P) \in Seq(ToSet(s))
           /\ Len(Pick(s, P)) = Len(Places(Len(s), P))
           /\ Places(Len(s), P) \in Seq(1..Len(s))
           /\ \A k \in 1..Len(Pick(s, P)) :
                Pick(s, P)[k] = s[Places(Len(s), P)[k]]
<1> DEFINE N == Len(s)
           id == [i \in 1..N |-> i]
<1>1. N \in Nat /\ DOMAIN s = 1..N /\ \A i \in 1..N : s[i] \in ToSet(s)
  BY SeqFacts
<1>2. IsSeq(id) /\ Len(id) = N /\ ToSet(id) = 1..N /\ \A i \in 1..N : id[i] = i
  BY <1>1 DEF IsSeq, ToSet
<1>3. Places(N, P) = Pick(id, P)
  BY DEF Places
<1> HIDE DEF N, id
<1>4. PICK f \in [0..N -> Seq(ToSet(s))] :
        /\ f[0] = << >>
        /\ \A n \in 1..N : f[n] = IF n \in P THEN Append(f[n - 1], s[n]) ELSE f[n - 1]
        /\ Pick(s, P) = f[N]
  BY PickUnfolds DEF N
<1>5. PICK g \in [0..N -> Seq(1..N)] :
        /\ g[0] = << >>
        /\ \A n \in 1..N : g[n] = IF n \in P THEN Append(g[n - 1], id[n]) ELSE g[n - 1]
        /\ Places(N, P) = g[N]
  <2>1. \E g \in [0..Len(id) -> Seq(ToSet(id))] :
          /\ g[0] = << >>
          /\ \A n \in 1..Len(id) : g[n] = IF n \in P THEN Append(g[n - 1], id[n]) ELSE g[n - 1]
          /\ Pick(id, P) = g[Len(id)]
    BY <1>2, PickUnfolds
  <2> QED BY <1>2, <1>3, <2>1
<1> DEFINE Same(n) == Len(f[n]) = Len(g[n]) /\ \A k \in 1..Len(f[n]) : f[n][k] = s[g[n][k]]
           S == {n \in 0..N : Same(n)}
<1>6. 0 \in S
  BY <1>1, <1>4, <1>5
<1>7. ASSUME NEW n \in 0..(N - 1), n \in S PROVE n + 1 \in S
  <2>1. n + 1 \in 1..N /\ n + 1 \in 0..N /\ n \in 0..N /\ (n + 1) - 1 = n
    BY <1>1
  <2>2. f[n] \in Seq(ToSet(s)) /\ g[n] \in Seq(1..N) /\ Same(n) /\ s[n + 1] \in ToSet(s) /\ id[n + 1] = n + 1
    BY <1>1, <1>2, <1>7, <2>1
  <2>3. CASE n + 1 \in P
    <3>1. f[n + 1] = Append(f[n], s[n + 1]) /\ g[n + 1] = Append(g[n], n + 1)
      BY <1>4, <1>5, <2>1, <2>2, <2>3
    <3>2. /\ Len(f[n + 1]) = Len(f[n]) + 1 /\ Len(g[n + 1]) = Len(f[n]) + 1 /\ Len(f[n]) \in Nat
          /\ f[n + 1][Len(f[n]) + 1] = s[n + 1] /\ g[n + 1][Len(f[n]) + 1] = n + 1
          /\ \A k \in 1..Len(f[n]) : f[n + 1][k] = f[n][k] /\ g[n + 1][k] = g[n][k]
      BY <2>1, <2>2, <3>1
    <3>3. \A k \in 1..(Len(f[n]) + 1) : k \in 1..Len(f[n]) \/ k = Len(f[n]) + 1
      BY <3>2
    <3>4. Same(n + 1)
      BY <2>2, <3>2, <3>3
    <3> QED BY <2>1, <3>4
  <2>4. CASE n + 1 \notin P
    <3>1. f[n + 1] = f[n] /\ g[n + 1] = g[n]
      BY <1>4, <1>5, <2>1, <2>4
    <3> QED BY <2>1, <2>2, <3>1
  <2> QED BY <2>3, <2>4
<1> HIDE DEF S
<1>8. 0..N \subseteq S
  BY <1>1, <1>6, <1>7, UpTo
<1>9. Same(N)
  <2>1. N \in S
    BY <1>1, <1>8
  <2> QED BY <2>1 DEF S
<1>10. f[N] \in Seq(ToSet(s)) /\ g[N] \in Seq(1..N)
  BY <1>1
<1> QED BY <1>4, <1>5, <1>9, <1>10 DEF N

\* The places are picked in their order, each once.
LEMMA PlacesFacts ==
    ASSUME NEW N \in Nat, NEW P \in SUBSET (1..N)
    PROVE  /\ Places(N, P) \in Seq(P)
           /\ Len(Places(N, P)) = Cardinality(P)
           /\ \A i, j \in 1..Len(Places(N, P)) : i < j => Places(N, P)[i] < Places(N, P)[j]
           /\ \A p \in P : \E k \in 1..Len(Places(N, P)) : Places(N, P)[k] = p
<1> DEFINE id == [i \in 1..N |-> i]
           Below(n) == P \cap (1..n)
<1>1. IsSeq(id) /\ Len(id) = N /\ ToSet(id) = 1..N /\ \A i \in 1..N : id[i] = i
  BY DEF IsSeq, ToSet
<1>2. Places(N, P) = Pick(id, P)
  BY DEF Places
<1> HIDE DEF id
<1>3. PICK g \in [0..N -> Seq(1..N)] :
        /\ g[0] = << >>
        /\ \A n \in 1..N : g[n] = IF n \in P THEN Append(g[n - 1], n) ELSE g[n - 1]
        /\ Places(N, P) = g[N]
  <2>1. \E g \in [0..Len(id) -> Seq(ToSet(id))] :
          /\ g[0] = << >>
          /\ \A n \in 1..Len(id) : g[n] = IF n \in P THEN Append(g[n - 1], id[n]) ELSE g[n - 1]
          /\ Pick(id, P) = g[Len(id)]
    BY <1>1, PickUnfolds
  <2> QED BY <1>1, <1>2, <2>1
<1> DEFINE Lists(t, Q) == /\ t \in Seq(Q)
                          /\ \A i, j \in 1..Len(t) : i < j => t[i] < t[j]
                          /\ \A p \in Q : \E k \in 1..Len(t) : t[k] = p
                          /\ Len(t) = Cardinality(Q)
           S == {n \in 0..N : Lists(g[n], Below(n)) /\ IsFiniteSet(Below(n))}
<1>4. 0 \in S
  <2>1. Below(0) = {}
    OBVIOUS
  <2>2. Cardinality({}) = 0 /\ IsFiniteSet({})
    BY FS_EmptySet
  <2> QED BY <1>3, <2>1, <2>2
<1>5. ASSUME NEW n \in 0..(N - 1), n \in S PROVE n + 1 \in S
  <2>1. n + 1 \in 1..N /\ n + 1 \in 0..N /\ n \in 0..N /\ (n + 1) - 1 = n
    OBVIOUS
  <2> DEFINE t == g[n]
             u == g[n + 1]
             Q == Below(n)
             R == Below(n + 1)
  <2>2. Lists(t, Q) /\ IsFiniteSet(Q)
    BY <1>5
  <2>3. CASE n + 1 \in P
    <3>1. u = Append(t, n + 1)
      BY <1>3, <2>1, <2>3
    <3>2. R = Q \cup {n + 1} /\ n + 1 \notin Q /\ \A p \in Q : p \in Nat /\ p < n + 1
      <4>1. 1..(n + 1) = (1..n) \cup {n + 1} /\ n + 1 \notin 1..n /\ \A p \in 1..n : p \in Nat /\ p < n + 1
        BY <2>1
      <4> QED BY <2>3, <4>1
    <3> HIDE DEF t, u, Q, R
    <3>3. Cardinality(R) = Cardinality(Q) + 1 /\ IsFiniteSet(R)
      <4>1. IsFiniteSet(Q)
        BY <2>2
      <4> QED BY <3>2, <4>1, FS_AddElement
    <3>4. t \in Seq(R) /\ n + 1 \in R /\ Len(t) \in Nat
      BY <2>2, <3>2
    <3>5. /\ u \in Seq(R) /\ Len(u) = Len(t) + 1 /\ u[Len(t) + 1] = n + 1
          /\ \A k \in 1..Len(t) : u[k] = t[k] /\ t[k] \in Q
      BY <2>2, <3>1, <3>4
    <3>6. \A k \in 1..Len(u) : k \in 1..Len(t) \/ k = Len(t) + 1
      BY <3>4, <3>5
    <3>7. \A i, j \in 1..Len(u) : i < j => u[i] < u[j]
      <4> SUFFICES ASSUME NEW i \in 1..Len(u), NEW j \in 1..Len(u), i < j PROVE u[i] < u[j]
        OBVIOUS
      <4>1. i \in 1..Len(t)
        BY <3>4, <3>5
      <4>2. CASE j \in 1..Len(t)
        BY <2>2, <3>5, <4>1, <4>2
      <4>3. CASE j = Len(t) + 1
        BY <3>2, <3>5, <4>1, <4>3
      <4> QED BY <3>6, <4>2, <4>3
    <3>8. \A p \in R : \E k \in 1..Len(u) : u[k] = p
      <4> SUFFICES ASSUME NEW p \in R PROVE \E k \in 1..Len(u) : u[k] = p
        OBVIOUS
      <4>1. CASE p \in Q
        <5>1. PICK k \in 1..Len(t) : t[k] = p
          BY <2>2, <4>1
        <5>2. k \in 1..Len(u) /\ u[k] = p
          BY <3>4, <3>5, <5>1
        <5> QED BY <5>2
      <4>2. CASE p = n + 1
        <5>1. Len(t) + 1 \in 1..Len(u)
          BY <3>4, <3>5
        <5> QED BY <3>5, <4>2, <5>1
      <4> QED BY <3>2, <4>1, <4>2
    <3>9. Lists(u, R)
      BY <2>2, <3>3, <3>5, <3>7, <3>8
    <3> QED BY <2>1, <3>3, <3>9 DEF u, R
  <2>4. CASE n + 1 \notin P
    <3>1. u = t
      BY <1>3, <2>1, <2>4
    <3>2. R = Q
      BY <2>1, <2>4
    <3> HIDE DEF t, u, Q, R, Lists
    <3>3. Lists(u, R) /\ IsFiniteSet(R)
      BY <2>2, <3>1, <3>2
    <3> QED BY <2>1, <3>3 DEF u, R
  <2> QED BY <2>3, <2>4
<1> HIDE DEF S
<1>6. N \in S
  <2>1. 0..N \subseteq S
    BY <1>4, <1>5, UpTo
  <2> QED BY <2>1
<1>7. Below(N) = P
  OBVIOUS
<1>8. Lists(g[N], P)
  BY <1>6, <1>7 DEF S
<1> QED BY <1>3, <1>8

\* What Pick returns, as a set and as a number of elements.
LEMMA PickFacts ==
    ASSUME NEW s, IsSeq(s), NEW P \in SUBSET DOMAIN s
    PROVE  /\ IsSeq(Pick(s, P))
           /\ Pick(s, P) \in Seq(ToSet(s))
           /\ Len(Pick(s, P)) = Cardinality(P)
           /\ ToSet(Pick(s, P)) = {s[i] : i \in P}
           /\ \A k \in DOMAIN Pick(s, P) : \E i \in P : Pick(s, P)[k] = s[i]
<1>1. Len(s) \in Nat /\ DOMAIN s = 1..Len(s)
  BY SeqFacts
<1> DEFINE t == Pick(s, P)
           e == Places(Len(s), P)
<1>2. /\ t \in Seq(ToSet(s)) /\ Len(t) = Len(e)
      /\ \A k \in 1..Len(t) : t[k] = s[e[k]]
  BY PickByPlaces
<1>3. /\ e \in Seq(P) /\ Len(e) = Cardinality(P)
      /\ \A p \in P : \E k \in 1..Len(e) : e[k] = p
  BY <1>1, PlacesFacts
<1> HIDE DEF t, e
<1>4. DOMAIN t = 1..Len(t) /\ DOMAIN e = 1..Len(e) /\ \A k \in 1..Len(t) : e[k] \in P
  BY <1>2, <1>3
<1>5. ToSet(t) = {s[i] : i \in P}
  BY <1>2, <1>3, <1>4 DEF ToSet
<1>6. IsSeq(t)
  BY <1>2 DEF IsSeq, ToSet
<1> QED BY <1>2, <1>3, <1>4, <1>5, <1>6 DEF t

-----------------------------------------------------------------------------
(***************************************************************************)
(* The live table, packet by packet.                                       *)
(***************************************************************************)
Queries == DOMAIN Domain \cup {NoQuery}

Packet ==
    [ src : Hosts, dst : Hosts, sport : Nat, dport : Nat, proto : Nat, length : Nat,
      flags : SUBSET Flags, content : Contents, query : Queries, nxdomain : BOOLEAN,
      time : Int ]

State ==
    [ src : Hosts, dst : Hosts, sport : Nat, dport : Nat, proto : Nat,
      first : Int, last : Int, packets : Nat, bytes : Nat,
      src2dst_packets : Nat, src2dst_bytes : Nat,
      dst2src_packets : Nat, dst2src_bytes : Nat,
      syn : Nat, syn_only : Nat, syn_ack : Nat, ack : Nat, rst : Nat,
      query : Queries, nxdomain : BOOLEAN, tls : BOOLEAN, quic : BOOLEAN ]

LEMMA AtTyped ==
    ASSUME NEW kind \in Kinds, NEW time \in Int
    PROVE  At(kind, time) \in Packet /\ At(kind, time).time = time
<1> DEFINE p == At(kind, time)
           F == { "src", "dst", "sport", "dport", "proto", "length", "flags", "content",
                  "query", "nxdomain" }
<1>1. kind \in [ src : Hosts, dst : Hosts, sport : Nat, dport : Nat, proto : Nat,
                 length : Nat, flags : SUBSET Flags, content : Contents,
                 query : Queries, nxdomain : BOOLEAN ]
  BY DetectionAssumption DEF Queries
<1>2. DOMAIN kind = F /\ DOMAIN [time |-> time] = {"time"} /\ "time" \notin F
  BY <1>1
<1>3. DOMAIN p = F \cup {"time"} /\ p.time = time /\ \A f \in F : p[f] = kind[f]
  BY <1>2 DEF At, Joined
<1>4. p = [ src |-> p.src, dst |-> p.dst, sport |-> p.sport, dport |-> p.dport,
            proto |-> p.proto, length |-> p.length, flags |-> p.flags,
            content |-> p.content, query |-> p.query, nxdomain |-> p.nxdomain,
            time |-> p.time ]
  BY <1>2, <1>3 DEF At, Joined
<1> HIDE DEF p
<1> QED BY <1>1, <1>3, <1>4 DEF Packet, p

\* A new flow.
LEMMA NewStateTyped ==
    ASSUME NEW p \in Packet
    PROVE  NewState(p) \in State
BY DEF NewState, State, Packet, Queries

LEMMA TalliedFacts ==
    ASSUME NEW state \in State, NEW p \in Packet
    PROVE  LET c == Tallied(state, p)
           IN  /\ c \in State
               /\ \A f \in { "src", "dst", "sport", "dport", "proto", "first", "tls", "quic",
                           "syn", "syn_only", "syn_ack", "ack", "rst", "query", "nxdomain" } :
                    c[f] = state[f]
               /\ c.last = p.time
               /\ c.packets = state.packets + 1
               /\ c.bytes = state.bytes + p.length
               /\ c.src2dst_packets = state.src2dst_packets + One(FromSource(state, p))
               /\ c.src2dst_bytes = state.src2dst_bytes + When(FromSource(state, p), p.length)
               /\ c.dst2src_packets = state.dst2src_packets + One(~ FromSource(state, p))
               /\ c.dst2src_bytes = state.dst2src_bytes + When(~ FromSource(state, p), p.length)
<1> DEFINE n  == state.packets + 1
           b  == state.bytes + p.length
           sp == state.src2dst_packets + One(FromSource(state, p))
           sb == state.src2dst_bytes + When(FromSource(state, p), p.length)
           dp == state.dst2src_packets + One(~ FromSource(state, p))
           db == state.dst2src_bytes + When(~ FromSource(state, p), p.length)
           c == [ state EXCEPT
                    !.last = p.time, !.packets = n, !.bytes = b,
                    !.src2dst_packets = sp, !.src2dst_bytes = sb,
                    !.dst2src_packets = dp, !.dst2src_bytes = db ]
<1>1. Tallied(state, p) = c
  BY DEF Tallied
<1>2. p.time \in Int /\ p.length \in Nat
  BY DEF Packet
<1>3. n \in Nat /\ b \in Nat /\ sp \in Nat /\ sb \in Nat /\ dp \in Nat /\ db \in Nat
  <2>1. /\ state.packets \in Nat /\ state.bytes \in Nat
        /\ state.src2dst_packets \in Nat /\ state.src2dst_bytes \in Nat
        /\ state.dst2src_packets \in Nat /\ state.dst2src_bytes \in Nat
    BY DEF State
  <2> QED BY <1>2, <2>1 DEF One, When
<1> HIDE DEF n, b, sp, sb, dp, db
<1>4. c \in State
  BY <1>2, <1>3 DEF State
<1>5. /\ c.last = p.time /\ c.packets = n /\ c.bytes = b
      /\ c.src2dst_packets = sp /\ c.src2dst_bytes = sb
      /\ c.dst2src_packets = dp /\ c.dst2src_bytes = db
  BY DEF State
<1>6. \A f \in { "src", "dst", "sport", "dport", "proto", "first", "tls", "quic",
                 "syn", "syn_only", "syn_ack", "ack", "rst", "query", "nxdomain" } :
         c[f] = state[f]
  BY DEF State
<1> HIDE DEF c
<1> QED BY <1>1, <1>4, <1>5, <1>6 DEF n, b, sp, sb, dp, db

LEMMA FlaggedFacts ==
    ASSUME NEW state \in State, NEW p \in Packet
    PROVE  LET c == Flagged(state, p)
           IN  /\ c \in State
               /\ \A f \in { "src", "dst", "sport", "dport", "proto", "first", "last", "tls",
                           "quic", "packets", "bytes", "src2dst_packets", "src2dst_bytes",
                           "dst2src_packets", "dst2src_bytes", "query", "nxdomain" } :
                    c[f] = state[f]
               /\ c.syn = state.syn + One(HasFlag(p, "S"))
               /\ c.syn_only = state.syn_only + One(IsSynOnly(p))
               /\ c.syn_ack = state.syn_ack + One(IsSynAck(p))
               /\ c.ack = state.ack + One(HasFlag(p, "A"))
               /\ c.rst = state.rst + One(HasFlag(p, "R"))
<1> DEFINE syn  == state.syn + One(HasFlag(p, "S"))
           only == state.syn_only + One(IsSynOnly(p))
           both == state.syn_ack + One(IsSynAck(p))
           ack  == state.ack + One(HasFlag(p, "A"))
           rst  == state.rst + One(HasFlag(p, "R"))
           c == [ state EXCEPT !.syn = syn, !.syn_only = only, !.syn_ack = both,
                               !.ack = ack, !.rst = rst ]
<1>1. Flagged(state, p) = c
  BY DEF Flagged
<1>2. syn \in Nat /\ only \in Nat /\ both \in Nat /\ ack \in Nat /\ rst \in Nat
  <2>1. /\ state.syn \in Nat /\ state.syn_only \in Nat /\ state.syn_ack \in Nat
        /\ state.ack \in Nat /\ state.rst \in Nat
    BY DEF State
  <2> QED BY <2>1 DEF One
<1> HIDE DEF syn, only, both, ack, rst
<1>3. c \in State
  BY <1>2 DEF State
<1>4. /\ c.syn = syn /\ c.syn_only = only /\ c.syn_ack = both /\ c.ack = ack /\ c.rst = rst
  BY DEF State
<1>5. \A f \in { "src", "dst", "sport", "dport", "proto", "first", "last", "tls", "quic",
                 "packets", "bytes", "src2dst_packets", "src2dst_bytes",
                 "dst2src_packets", "dst2src_bytes", "query", "nxdomain" } :
         c[f] = state[f]
  BY DEF State
<1> HIDE DEF c
<1> QED BY <1>1, <1>3, <1>4, <1>5 DEF syn, only, both, ack, rst

LEMMA DissectedFacts ==
    ASSUME NEW state \in State, NEW p \in Packet
    PROVE  LET c == Dissected(state, p)
           IN  /\ c \in State
               /\ \A f \in { "src", "dst", "sport", "dport", "proto", "first", "last", "tls",
                           "packets", "bytes", "src2dst_packets", "src2dst_bytes",
                           "dst2src_packets", "dst2src_bytes",
                           "syn", "syn_only", "syn_ack", "ack", "rst" } :
                    c[f] = state[f]
               /\ c.query = LiveQuery(state, p)
               /\ c.nxdomain = IF p.content = "dns" THEN p.nxdomain ELSE state.nxdomain
<1> DEFINE query == LiveQuery(state, p)
           nx == IF p.content = "dns" THEN p.nxdomain ELSE state.nxdomain
           quic == LiveQuic(state, p)
           c == [ state EXCEPT !.query = query, !.nxdomain = nx, !.quic = quic ]
<1>1. Dissected(state, p) = c
  BY DEF Dissected
<1>2. query \in Queries
  BY DEF LiveQuery, Packet, State, Queries
<1>3. nx \in BOOLEAN
  BY DEF Packet, State
<1>4. quic \in BOOLEAN
  BY DEF LiveQuic, State
<1> HIDE DEF query, nx, quic
<1>5. c \in State /\ c.query = query /\ c.nxdomain = nx
  BY <1>2, <1>3, <1>4 DEF State
<1>6. \A f \in { "src", "dst", "sport", "dport", "proto", "first", "last", "tls",
                 "packets", "bytes", "src2dst_packets", "src2dst_bytes",
                 "dst2src_packets", "dst2src_bytes",
                 "syn", "syn_only", "syn_ack", "ack", "rst" } :
         c[f] = state[f]
  BY DEF State
<1> HIDE DEF c
<1> QED BY <1>1, <1>5, <1>6 DEF query, nx

\* A packet and the state of its flow, counter by counter.
LEMMA CountFacts ==
    ASSUME NEW state \in State, NEW p \in Packet
    PROVE  LET c == Count(state, p)
           IN  /\ c \in State
               /\ \A f \in { "src", "dst", "sport", "dport", "proto", "first", "tls" } :
                    c[f] = state[f]
               /\ c.last = p.time
               /\ c.packets = state.packets + 1
               /\ c.bytes = state.bytes + p.length
               /\ c.src2dst_packets = state.src2dst_packets + One(FromSource(state, p))
               /\ c.src2dst_bytes = state.src2dst_bytes + When(FromSource(state, p), p.length)
               /\ c.dst2src_packets = state.dst2src_packets + One(~ FromSource(state, p))
               /\ c.dst2src_bytes = state.dst2src_bytes + When(~ FromSource(state, p), p.length)
               /\ c.syn = state.syn + One(HasFlag(p, "S"))
               /\ c.syn_only = state.syn_only + One(IsSynOnly(p))
               /\ c.syn_ack = state.syn_ack + One(IsSynAck(p))
               /\ c.ack = state.ack + One(HasFlag(p, "A"))
               /\ c.rst = state.rst + One(HasFlag(p, "R"))
               /\ c.query = LiveQuery(state, p)
               /\ c.nxdomain = IF p.content = "dns" THEN p.nxdomain ELSE state.nxdomain
<1> DEFINE a == Tallied(state, p)
           b == Flagged(a, p)
           c == Dissected(b, p)
<1>1. /\ a \in State
      /\ \A f \in { "src", "dst", "sport", "dport", "proto", "first", "tls", "quic",
                  "syn", "syn_only", "syn_ack", "ack", "rst", "query", "nxdomain" } :
           a[f] = state[f]
      /\ a.last = p.time
      /\ a.packets = state.packets + 1
      /\ a.bytes = state.bytes + p.length
      /\ a.src2dst_packets = state.src2dst_packets + One(FromSource(state, p))
      /\ a.src2dst_bytes = state.src2dst_bytes + When(FromSource(state, p), p.length)
      /\ a.dst2src_packets = state.dst2src_packets + One(~ FromSource(state, p))
      /\ a.dst2src_bytes = state.dst2src_bytes + When(~ FromSource(state, p), p.length)
  BY TalliedFacts, Zenon
<1> HIDE DEF a
<1>2. /\ b \in State
      /\ \A f \in { "src", "dst", "sport", "dport", "proto", "first", "last", "tls",
                  "quic", "packets", "bytes", "src2dst_packets", "src2dst_bytes",
                  "dst2src_packets", "dst2src_bytes", "query", "nxdomain" } :
           b[f] = a[f]
      /\ b.syn = a.syn + One(HasFlag(p, "S"))
      /\ b.syn_only = a.syn_only + One(IsSynOnly(p))
      /\ b.syn_ack = a.syn_ack + One(IsSynAck(p))
      /\ b.ack = a.ack + One(HasFlag(p, "A"))
      /\ b.rst = a.rst + One(HasFlag(p, "R"))
  BY <1>1, FlaggedFacts, Zenon
<1> HIDE DEF b
<1>3. /\ c \in State
      /\ \A f \in { "src", "dst", "sport", "dport", "proto", "first", "last", "tls",
                  "packets", "bytes", "src2dst_packets", "src2dst_bytes",
                  "dst2src_packets", "dst2src_bytes",
                  "syn", "syn_only", "syn_ack", "ack", "rst" } :
           c[f] = b[f]
      /\ c.query = LiveQuery(b, p)
      /\ c.nxdomain = IF p.content = "dns" THEN p.nxdomain ELSE b.nxdomain
  BY <1>2, DissectedFacts, Zenon
<1> HIDE DEF c
<1>4. LiveQuery(b, p) = LiveQuery(state, p) /\ b.nxdomain = state.nxdomain
  BY <1>1, <1>2 DEF LiveQuery
<1>5. Count(state, p) = c
  BY DEF Count, a, b, c
<1>6. \A f \in { "src", "dst", "sport", "dport", "proto", "first", "tls" } : c[f] = state[f]
  BY <1>1, <1>2, <1>3
<1>7. /\ c.last = p.time
      /\ c.packets = state.packets + 1
      /\ c.bytes = state.bytes + p.length
      /\ c.src2dst_packets = state.src2dst_packets + One(FromSource(state, p))
      /\ c.src2dst_bytes = state.src2dst_bytes + When(FromSource(state, p), p.length)
      /\ c.dst2src_packets = state.dst2src_packets + One(~ FromSource(state, p))
      /\ c.dst2src_bytes = state.dst2src_bytes + When(~ FromSource(state, p), p.length)
  BY <1>1, <1>2, <1>3
<1>8. /\ c.syn = state.syn + One(HasFlag(p, "S"))
      /\ c.syn_only = state.syn_only + One(IsSynOnly(p))
      /\ c.syn_ack = state.syn_ack + One(IsSynAck(p))
      /\ c.ack = state.ack + One(HasFlag(p, "A"))
      /\ c.rst = state.rst + One(HasFlag(p, "R"))
  BY <1>1, <1>2, <1>3
<1> QED BY <1>3, <1>4, <1>5, <1>6, <1>7, <1>8

\* What add_packet does before it evicts, and after.
LEMMA UpdatedFacts ==
    ASSUME NEW t \in Seq(State), NEW p \in Packet
    PROVE  LET u == Updated(t, p)
           IN  /\ u \in Seq(State)
               /\ StateOf(t, p) # {} =>
                    /\ Len(u) = Len(t)
                    /\ \A i \in 1..Len(t) :
                         u[i] = IF i \in StateOf(t, p) THEN Count(t[i], p) ELSE t[i]
               /\ StateOf(t, p) = {} =>
                    /\ Len(u) = Len(t) + 1
                    /\ u[Len(t) + 1] = Count(NewState(p), p)
                    /\ \A i \in 1..Len(t) : u[i] = t[i]
<1> DEFINE new == Count(NewState(p), p)
           u == Updated(t, p)
<1>1. Len(t) \in Nat /\ DOMAIN t = 1..Len(t) /\ \A i \in 1..Len(t) : t[i] \in State
  OBVIOUS
<1>2. new \in State /\ \A i \in 1..Len(t) : Count(t[i], p) \in State
  BY <1>1, NewStateTyped, CountFacts
<1> HIDE DEF new
<1>3. CASE StateOf(t, p) = {}
  <2>1. Updated(t, p) = Append(t, new)
    BY <1>3 DEF Updated, new
  <2> QED BY <1>2, <1>3, <2>1 DEF new
<1>4. CASE StateOf(t, p) # {}
  <2>1. u = [i \in 1..Len(t) |-> IF i \in StateOf(t, p) THEN Count(t[i], p) ELSE t[i]]
    BY <1>1, <1>4 DEF Updated
  <2> HIDE DEF u
  <2>2. \A i \in 1..Len(t) : u[i] = IF i \in StateOf(t, p) THEN Count(t[i], p) ELSE t[i]
    BY <2>1
  <2>3. u \in [1..Len(t) -> State]
    BY <1>1, <1>2, <2>1
  <2>4. u \in Seq(State) /\ Len(u) = Len(t)
    BY <1>1, <2>3
  <2> QED BY <1>4, <2>2, <2>4 DEF u
<1> QED BY <1>3, <1>4

LEMMA AddPacketFacts ==
    ASSUME NEW t \in Seq(State), NEW p \in Packet, Len(t) <= MaxFlows
    PROVE  LET a == AddPacket(t, p)
           IN  /\ a \in Seq(State) /\ Len(a) <= MaxFlows
               /\ \A i \in DOMAIN a :
                    \/ \E j \in DOMAIN t : a[i] = t[j] \/ a[i] = Count(t[j], p)
                    \/ a[i] = Count(NewState(p), p)
<1> DEFINE a == AddPacket(t, p)
           u == Updated(t, p)
<1>1. MaxFlows \in Nat /\ Len(t) \in Nat /\ DOMAIN t = 1..Len(t)
  BY ExtractionAssumption
<1>2. /\ u \in Seq(State) /\ Len(u) <= MaxFlows + 1
      /\ \A i \in 1..Len(u) :
           \/ \E j \in DOMAIN t : u[i] = t[j] \/ u[i] = Count(t[j], p)
           \/ u[i] = Count(NewState(p), p)
  <2>1. /\ u \in Seq(State)
        /\ StateOf(t, p) # {} =>
             /\ Len(u) = Len(t)
             /\ \A i \in 1..Len(t) :
                  u[i] = IF i \in StateOf(t, p) THEN Count(t[i], p) ELSE t[i]
        /\ StateOf(t, p) = {} =>
             /\ Len(u) = Len(t) + 1
             /\ u[Len(t) + 1] = Count(NewState(p), p)
             /\ \A i \in 1..Len(t) : u[i] = t[i]
    BY UpdatedFacts, Zenon
  <2> HIDE DEF u
  <2>2. CASE StateOf(t, p) = {}
    <3>1. \A i \in 1..(Len(t) + 1) : i \in 1..Len(t) \/ i = Len(t) + 1
      BY <1>1
    <3> QED BY <1>1, <2>1, <2>2, <3>1
  <2>3. CASE StateOf(t, p) # {}
    BY <1>1, <2>1, <2>3
  <2> QED BY <2>2, <2>3
<1>3. CASE a = t
  BY <1>1, <1>3
<1>4. CASE a = u /\ Len(u) <= MaxFlows
  BY <1>2, <1>4
<1>5. CASE a = Tail(u) /\ Len(u) > MaxFlows
  <2> HIDE DEF a, u
  <2>1. u # << >> /\ Len(u) \in Nat /\ Len(u) = MaxFlows + 1
    BY <1>1, <1>2, <1>5
  <2>2. a \in Seq(State) /\ Len(a) = Len(u) - 1 /\ DOMAIN a = 1..Len(a)
        /\ \A i \in 1..Len(a) : a[i] = u[i + 1] /\ i + 1 \in 1..Len(u)
    BY <1>2, <1>5, <2>1
  <2> QED BY <1>1, <1>2, <2>1, <2>2 DEF a
<1>6. a = t \/ (a = u /\ ~ (Len(u) > MaxFlows)) \/ (a = Tail(u) /\ Len(u) > MaxFlows)
  BY Zenon DEF AddPacket
<1>7. Len(u) \in Nat
  BY <1>2
<1> HIDE DEF a, u
<1>8. Len(u) <= MaxFlows \/ Len(u) > MaxFlows
  BY <1>1, <1>7
<1> QED BY <1>1, <1>3, <1>4, <1>5, <1>6, <1>7, <1>8 DEF a

-----------------------------------------------------------------------------
(***************************************************************************)
(* The counters.                                                           *)
(***************************************************************************)
\* The types of what arrives and of the live table.
Typing ==
    /\ reader \in Readers
    /\ clock \in Int
    /\ packets \in Seq(Packet)
    /\ table \in Seq(State)
    /\ Len(table) <= MaxFlows

LEMMA TypingInit == Init => Typing
<1> SUFFICES ASSUME Init PROVE Typing
  OBVIOUS
<1>1. table = << >> /\ packets = << >> /\ clock = StartTime /\ reader \in Readers
  BY DEF Init
<1>2. Len(<< >>) = 0 /\ << >> \in Seq(State) /\ << >> \in Seq(Packet)
  OBVIOUS
<1> QED BY <1>1, <1>2, DetectionAssumption, ExtractionAssumption DEF Typing

\* The packet of a step, and what it finds.
LEMMA ArriveTyped ==
    ASSUME Typing, NEW kind \in Kinds, NEW time \in Times, Arrive(kind, time)
    PROVE  /\ time \in Int
           /\ At(kind, time) \in Packet /\ At(kind, time).time = time
           /\ packets' = Append(packets, At(kind, time))
           /\ reader = "live" => table' = AddPacket(table, At(kind, time))
           /\ reader # "live" => table' = table
<1>1. time \in Int
  BY DetectionAssumption DEF Typing, Times
<1> QED BY <1>1, AtTyped DEF Arrive

LEMMA TypingNext == Typing /\ [Next]_vars => Typing'
<1> SUFFICES ASSUME Typing, [Next]_vars PROVE Typing'
  OBVIOUS
<1>1. ASSUME NEW kind \in Kinds, NEW time \in Times, Arrive(kind, time) PROVE Typing'
  <2> DEFINE p == At(kind, time)
  <2>1. clock' = time /\ reader' = reader
    BY <1>1 DEF Arrive
  <2>2. /\ time \in Int /\ p \in Packet /\ packets' = Append(packets, p)
        /\ table' = table \/ table' = AddPacket(table, p)
    BY <1>1, ArriveTyped
  <2> HIDE DEF p
  <2>3. table' \in Seq(State) /\ Len(table') <= MaxFlows
    BY <2>2, AddPacketFacts DEF Typing
  <2> QED BY <2>1, <2>2, <2>3 DEF Typing
<1>2. ASSUME Forget, UNCHANGED << reader, clock >> PROVE Typing'
  <2>1. Len(<< >>) = 0 /\ << >> \in Seq(State) /\ << >> \in Seq(Packet)
    OBVIOUS
  <2> QED BY <1>2, <2>1, ExtractionAssumption DEF Forget, Typing
<1>3. CASE UNCHANGED vars
  BY <1>3 DEF vars, Typing
<1>4. ASSUME NEW kept \in 0..Len(window), NEW records \in NewRecords, Analyse(kept, records)
      PROVE  Typing'
  BY <1>2, <1>4 DEF Analyse
<1>5. CASE ReadFails
  BY <1>2, <1>5 DEF ReadFails
<1> QED BY <1>1, <1>3, <1>4, <1>5 DEF Next

\* CountersAddUp, of one state.
Adds(f) ==
    /\ f.packets > 0
    /\ f.src2dst_packets + f.dst2src_packets = f.packets
    /\ f.src2dst_bytes + f.dst2src_bytes = f.bytes
    /\ f.syn_only + f.syn_ack = f.syn
    /\ f.syn_ack <= f.ack
    /\ f.syn <= f.packets
    /\ f.ack <= f.packets

\* A packet keeps every balance, also from a state that has seen none yet.
LEMMA CountAdds ==
    ASSUME NEW state \in State, NEW p \in Packet,
           Adds(state) \/ state = NewState(p)
    PROVE  Adds(Count(state, p))
<1> DEFINE c == Count(state, p)
<1>1. /\ state.src2dst_packets + state.dst2src_packets = state.packets
      /\ state.src2dst_bytes + state.dst2src_bytes = state.bytes
      /\ state.syn_only + state.syn_ack = state.syn
      /\ state.syn_ack <= state.ack
      /\ state.syn <= state.packets
      /\ state.ack <= state.packets
  BY DEF Adds, NewState
<1>2. /\ state.packets \in Nat /\ state.bytes \in Nat
      /\ state.src2dst_packets \in Nat /\ state.src2dst_bytes \in Nat
      /\ state.dst2src_packets \in Nat /\ state.dst2src_bytes \in Nat
      /\ state.syn \in Nat /\ state.syn_only \in Nat /\ state.syn_ack \in Nat
      /\ state.ack \in Nat /\ p.length \in Nat
  BY DEF State, Packet
<1>3. /\ c.packets = state.packets + 1
      /\ c.bytes = state.bytes + p.length
      /\ c.src2dst_packets = state.src2dst_packets + One(FromSource(state, p))
      /\ c.src2dst_bytes = state.src2dst_bytes + When(FromSource(state, p), p.length)
      /\ c.dst2src_packets = state.dst2src_packets + One(~ FromSource(state, p))
      /\ c.dst2src_bytes = state.dst2src_bytes + When(~ FromSource(state, p), p.length)
      /\ c.syn = state.syn + One(HasFlag(p, "S"))
      /\ c.syn_only = state.syn_only + One(IsSynOnly(p))
      /\ c.syn_ack = state.syn_ack + One(IsSynAck(p))
      /\ c.ack = state.ack + One(HasFlag(p, "A"))
  BY CountFacts
<1>4. /\ One(FromSource(state, p)) + One(~ FromSource(state, p)) = 1
      /\ When(FromSource(state, p), p.length) + When(~ FromSource(state, p), p.length) = p.length
      /\ One(FromSource(state, p)) \in Nat /\ One(~ FromSource(state, p)) \in Nat
      /\ When(FromSource(state, p), p.length) \in Nat
      /\ When(~ FromSource(state, p), p.length) \in Nat
  BY <1>2 DEF One, When
<1>5. /\ One(IsSynOnly(p)) + One(IsSynAck(p)) = One(HasFlag(p, "S"))
      /\ One(IsSynAck(p)) <= One(HasFlag(p, "A"))
      /\ One(IsSynOnly(p)) \in Nat /\ One(IsSynAck(p)) \in Nat
      /\ One(HasFlag(p, "S")) \in 0..1 /\ One(HasFlag(p, "A")) \in 0..1
  BY DEF One, IsSynOnly, IsSynAck, HasFlag
<1> HIDE DEF c
<1>6. /\ c.packets > 0 /\ c.syn <= c.packets /\ c.ack <= c.packets
      /\ c.syn_only + c.syn_ack = c.syn /\ c.syn_ack <= c.ack
  BY <1>1, <1>2, <1>3, <1>5
<1>7. /\ c.src2dst_packets + c.dst2src_packets = c.packets
      /\ c.src2dst_bytes + c.dst2src_bytes = c.bytes
  BY <1>1, <1>2, <1>3, <1>4
<1> QED BY <1>6, <1>7 DEF Adds, c

LEMMA CountersNext == Typing /\ CountersAddUp /\ [Next]_vars => CountersAddUp'
<1> SUFFICES ASSUME Typing, CountersAddUp, [Next]_vars PROVE CountersAddUp'
  OBVIOUS
<1>1. \A i \in DOMAIN table : table[i] \in State /\ Adds(table[i])
  BY DEF Typing, CountersAddUp, Adds
<1>2. ASSUME NEW kind \in Kinds, NEW time \in Times, Arrive(kind, time),
             NEW i \in DOMAIN table'
      PROVE  Adds(table'[i])
  <2> DEFINE p == At(kind, time)
  <2>1. p \in Packet /\ (table' = table \/ table' = AddPacket(table, p))
    BY <1>2, ArriveTyped
  <2> HIDE DEF p
  <2>2. CASE table' = table
    BY <1>1, <1>2, <2>2
  <2>3. CASE table' = AddPacket(table, p)
    <3>1. \/ \E j \in DOMAIN table : table'[i] = table[j] \/ table'[i] = Count(table[j], p)
          \/ table'[i] = Count(NewState(p), p)
      BY <1>2, <2>1, <2>3, AddPacketFacts DEF Typing
    <3>2. Adds(Count(NewState(p), p)) /\ \A j \in DOMAIN table : Adds(Count(table[j], p))
      BY <1>1, <2>1, CountAdds, NewStateTyped
    <3> QED BY <1>1, <3>1, <3>2
  <2> QED BY <2>1, <2>2, <2>3
<1>3. ASSUME Forget PROVE CountersAddUp'
  BY <1>3 DEF Forget, CountersAddUp
<1>4. CASE UNCHANGED vars
  BY <1>4 DEF vars, CountersAddUp
<1>5. CASE \E kind \in Kinds, time \in Times : Arrive(kind, time)
  BY <1>2, <1>5 DEF CountersAddUp, Adds
<1>6. CASE \E kept \in 0..Len(window), records \in NewRecords : Analyse(kept, records)
  BY <1>3, <1>6 DEF Analyse
<1>7. CASE ReadFails
  BY <1>3, <1>7 DEF ReadFails
<1> QED BY <1>4, <1>5, <1>6, <1>7 DEF Next

LEMMA TypingAlways == Spec => []Typing
<1>1. Init => Typing
  BY TypingInit
<1>2. Typing /\ [Next]_vars => Typing'
  BY TypingNext
<1> QED BY <1>1, <1>2, PTL DEF Spec

\* The counters of a live flow fit together (add_packet): a packet counts for
\* one direction, and a SYN either carries an ACK or does not.
THEOREM CountersAgree == Spec => []CountersAddUp
<1>1. Init => CountersAddUp
  BY DEF Init, CountersAddUp
<1>2. Typing /\ CountersAddUp /\ [Next]_vars => CountersAddUp'
  BY CountersNext
<1> QED BY <1>1, <1>2, TypingAlways, PTL DEF Spec

-----------------------------------------------------------------------------
(***************************************************************************)
(* The windows: sequences of flows, each with its time.                    *)
(***************************************************************************)
LEMMA MaxOfTwo ==
    ASSUME NEW a \in Int, NEW b \in Int
    PROVE  Max({a, b}) = IF a >= b THEN a ELSE b
BY DEF Max

LEMMA LastOfFacts ==
    ASSUME NEW n \in Nat, NEW s, IsSeq(s)
    PROVE  /\ IsSeq(LastOf(n, s)) /\ LastOf(n, s) \in Seq(ToSet(s))
           /\ Len(LastOf(n, s)) = IF Len(s) <= n THEN Len(s) ELSE n
           /\ \A i \in 1..Len(LastOf(n, s)) :
                /\ i + (Len(s) - Len(LastOf(n, s))) \in DOMAIN s
                /\ LastOf(n, s)[i] = s[i + (Len(s) - Len(LastOf(n, s)))]
<1> DEFINE m == Max({1, Len(s) - n + 1})
           t == LastOf(n, s)
<1>1. Len(s) \in Nat /\ DOMAIN s = 1..Len(s) /\ s \in Seq(ToSet(s))
  BY SeqFacts DEF IsSeq
<1>2. m = IF Len(s) <= n THEN 1 ELSE Len(s) - n + 1
  BY <1>1, MaxOfTwo
<1> HIDE DEF m
<1>3. t = SubSeq(s, m, Len(s))
  BY DEF LastOf, m
<1> HIDE DEF t
<1>4. m \in 1..(Len(s) + 1)
  BY <1>1, <1>2
<1>5. \A i \in m..Len(s) : i \in 1..Len(s) /\ s[i] \in ToSet(s)
  BY <1>1, <1>4, SeqFacts
<1>6. /\ t \in Seq(ToSet(s)) /\ Len(t) = Len(s) - m + 1
      /\ \A i \in 1..Len(t) : t[i] = s[m + i - 1]
  BY <1>1, <1>3, <1>4, <1>5, SubSeqProperties
<1>7. Len(t) = IF Len(s) <= n THEN Len(s) ELSE n
  BY <1>1, <1>2, <1>6
<1>8. \A i \in 1..Len(t) : i + (Len(s) - Len(t)) = m + i - 1 /\ m + i - 1 \in 1..Len(s)
  BY <1>1, <1>4, <1>6
<1>9. IsSeq(t)
  BY <1>6, SeqIs
<1> QED BY <1>1, <1>6, <1>7, <1>8, <1>9 DEF t

LEMMA ConcatFacts ==
    ASSUME NEW s, IsSeq(s), NEW t, IsSeq(t)
    PROVE  /\ IsSeq(s \o t) /\ Len(s \o t) = Len(s) + Len(t)
           /\ ToSet(s \o t) = ToSet(s) \cup ToSet(t)
           /\ \A i \in 1..Len(s) : (s \o t)[i] = s[i]
           /\ \A i \in 1..Len(t) : (s \o t)[Len(s) + i] = t[i]
<1> DEFINE S == ToSet(s) \cup ToSet(t)
           u == s \o t
<1>1. s \in Seq(S) /\ t \in Seq(S) /\ Len(s) \in Nat /\ Len(t) \in Nat
      /\ DOMAIN s = 1..Len(s) /\ DOMAIN t = 1..Len(t)
  BY SeqFacts DEF IsSeq
<1>2. u \in Seq(S) /\ Len(u) = Len(s) + Len(t) /\ DOMAIN u = 1..(Len(s) + Len(t))
      /\ (\A i \in 1..Len(s) : u[i] = s[i])
      /\ \A i \in (Len(s) + 1)..(Len(s) + Len(t)) : u[i] = t[i - Len(s)]
  BY <1>1, ConcatProperties
<1> HIDE DEF u, S
<1>3. \A i \in 1..Len(t) : u[Len(s) + i] = t[i]
  <2> TAKE i \in 1..Len(t)
  <2>1. Len(s) + i \in (Len(s) + 1)..(Len(s) + Len(t)) /\ (Len(s) + i) - Len(s) = i
    BY <1>1
  <2> QED BY <1>2, <2>1
<1>4. \A i \in DOMAIN u : i \in 1..Len(s) \/ (i - Len(s) \in 1..Len(t) /\ i = Len(s) + (i - Len(s)))
  BY <1>1, <1>2
<1>5. (\A i \in 1..Len(s) : i \in DOMAIN u) /\ (\A i \in 1..Len(t) : Len(s) + i \in DOMAIN u)
  BY <1>1, <1>2
<1>6. ToSet(u) = ToSet(s) \cup ToSet(t)
  <2>1. \A i \in DOMAIN u : u[i] \in ToSet(s) \cup ToSet(t)
    BY <1>1, <1>2, <1>3, <1>4 DEF ToSet
  <2>2. (\A i \in DOMAIN s : s[i] \in ToSet(u)) /\ \A i \in DOMAIN t : t[i] \in ToSet(u)
    BY <1>1, <1>2, <1>3, <1>5 DEF ToSet
  <2> QED BY <2>1, <2>2 DEF ToSet
<1>7. IsSeq(u)
  BY <1>2, SeqIs
<1> QED BY <1>2, <1>3, <1>6, <1>7 DEF u

LEMMA JoinedField ==
    ASSUME NEW r, NEW s, NEW f \in DOMAIN r \cup DOMAIN s
    PROVE  Joined(r, s)[f] = IF f \in DOMAIN r THEN r[f] ELSE s[f]
BY DEF Joined

\* A conversation is a nonempty sequence of packets that begins with its
\* opening packet.
LEMMA ConversationsFacts ==
    ASSUME NEW ps \in Seq(Packet)
    PROVE  /\ IsSeq(Conversations(ps))
           /\ \A k \in DOMAIN Conversations(ps) :
                Conversations(ps)[k] \in Seq(Packet) /\ Len(Conversations(ps)[k]) > 0
<1> DEFINE openings == Pick(ps, FirstPackets(ps))
           cs == Conversations(ps)
<1>1. IsSeq(ps) /\ ToSet(ps) \subseteq Packet
  BY SeqIs
<1>2. FirstPackets(ps) \in SUBSET DOMAIN ps
  BY DEF FirstPackets
<1>3. IsSeq(openings) /\ \A k \in DOMAIN openings : \E i \in DOMAIN ps : openings[k] = ps[i]
  BY <1>1, <1>2, PickFacts
<1>4. cs = [k \in DOMAIN openings |-> PacketsOf(openings[k], ps)]
  BY DEF Conversations
<1> HIDE DEF openings, cs
<1>5. DOMAIN openings = 1..Len(openings) /\ Len(openings) \in Nat
  BY <1>3, SeqFacts
<1>6. IsSeq(cs)
  BY <1>4, <1>5 DEF IsSeq, ToSet
<1>7. ASSUME NEW k \in DOMAIN cs PROVE cs[k] \in Seq(Packet) /\ Len(cs[k]) > 0
  <2> DEFINE P == {i \in DOMAIN ps : Conversation(ps[i]) = Conversation(openings[k])}
  <2>1. cs[k] = Pick(ps, P)
    BY <1>4, <1>7 DEF PacketsOf
  <2>2. P \in SUBSET DOMAIN ps /\ P # {}
    BY <1>3, <1>4, <1>7
  <2> HIDE DEF P
  <2>3. cs[k] \in Seq(Packet) /\ Len(cs[k]) = Cardinality(P)
    BY <1>1, <2>1, <2>2, PickFacts
  <2>4. Cardinality(P) # 0
    <3>1. IsFiniteSet(P)
      <4>1. DOMAIN ps = 1..Len(ps) /\ Len(ps) \in Nat
        OBVIOUS
      <4>2. IsFiniteSet(DOMAIN ps)
        BY <4>1, FS_Interval
      <4> QED BY <2>2, <4>2, FS_Subset
    <3> QED BY <2>2, <3>1, FS_EmptySet
  <2>5. Len(cs[k]) \in Nat
    BY <2>3
  <2> QED BY <2>3, <2>4, <2>5
<1> QED BY <1>6, <1>7 DEF cs

\* Whatever reads the packets makes a sequence of records that have a time.
Timed(flows) == IsSeq(flows) /\ \A i \in DOMAIN flows : flows[i].last \in Int

LEMMA LiveTimed ==
    ASSUME NEW t \in Seq(State)
    PROVE  Timed(Records(t))
<1>1. DOMAIN t = 1..Len(t) /\ Len(t) \in Nat /\ \A i \in DOMAIN t : t[i] \in State
  OBVIOUS
<1>2. ASSUME NEW state \in State, NEW index PROVE LiveRecord(state, index).last = state.last
  <2> DEFINE r == [state EXCEPT !.tls = FALSE, !.quic = FALSE]
  <2>1. "last" \in DOMAIN r /\ r.last = state.last
    BY DEF State
  <2> HIDE DEF r
  <2>2. \A s : Joined(r, s)["last"] = r["last"]
    BY <2>1, JoinedField
  <2> QED BY <2>1, <2>2 DEF LiveRecord, r
<1>3. Records(t) = [i \in 1..Len(t) |-> LiveRecord(t[i], i - 1)]
  BY <1>1 DEF Records
<1>4. \A i \in 1..Len(t) : Records(t)[i].last \in Int
  <2> SUFFICES ASSUME NEW i \in 1..Len(t) PROVE Records(t)[i].last \in Int
    OBVIOUS
  <2>1. t[i].last \in Int
    BY <1>1 DEF State
  <2> QED BY <1>1, <1>2, <1>3, <2>1
<1>5. IsSeq(Records(t)) /\ DOMAIN Records(t) = 1..Len(t)
  BY <1>1, <1>3 DEF IsSeq, ToSet
<1> QED BY <1>4, <1>5 DEF Timed

LEMMA CommonLast ==
    ASSUME NEW ps \in Seq(Packet), Len(ps) > 0
    PROVE  "last" \in DOMAIN Common(ps) /\ Common(ps).last \in Int
<1>1. ps[Len(ps)].time \in Int
  <2>1. Len(ps) \in 1..Len(ps)
    OBVIOUS
  <2>2. ps[Len(ps)] \in Packet
    BY <2>1
  <2> QED BY <2>2 DEF Packet
<1> QED BY <1>1 DEF Common

LEMMA FileTimed ==
    ASSUME NEW ps \in Seq(Packet)
    PROVE  Timed(StdlibFlows(ps)) /\ Timed(ScapyFlows(ps)) /\ Timed(NfstreamFlows(ps))
<1>1. ASSUME NEW qs \in Seq(Packet), Len(qs) > 0
      PROVE  /\ StdlibRecord(qs).last \in Int
             /\ ScapyRecord(qs).last \in Int
             /\ NfstreamRecord(qs).last \in Int
  <2> DEFINE flow == Common(qs)
  <2>1. "last" \in DOMAIN flow /\ flow.last \in Int
    BY <1>1, CommonLast
  <2>2. \A s : Joined(flow, s)["last"] = flow["last"]
    BY <2>1, JoinedField
  <2> HIDE DEF flow
  <2>3. \A s : Joined([flow EXCEPT !.syn_only = 0], s)["last"] = flow["last"]
    <3> DEFINE g == [flow EXCEPT !.syn_only = 0]
    <3>1. "last" \in DOMAIN g /\ g["last"] = flow["last"]
      BY <2>1
    <3> HIDE DEF g
    <3> QED BY <3>1, JoinedField DEF g
  <2>4. StdlibRecord(qs).last \in Int
    BY <2>1, <2>2 DEF StdlibRecord, flow
  <2>5. ScapyRecord(qs).last \in Int
    BY <2>1, <2>2 DEF ScapyRecord, flow
  <2>6. NfstreamRecord(qs).last \in Int
    BY <2>1, <2>3 DEF NfstreamRecord, flow
  <2> QED BY <2>4, <2>5, <2>6
<1>2. ASSUME NEW qs \in Seq(Packet), NEW flows,
             flows \in { [k \in DOMAIN Conversations(qs) |-> StdlibRecord(Conversations(qs)[k])],
                         [k \in DOMAIN Conversations(qs) |-> ScapyRecord(Conversations(qs)[k])],
                         [k \in DOMAIN Conversations(qs) |-> NfstreamRecord(Conversations(qs)[k])] }
      PROVE  Timed(flows)
  <2> DEFINE cs == Conversations(qs)
  <2>1. /\ IsSeq(cs) /\ DOMAIN cs = 1..Len(cs) /\ Len(cs) \in Nat
        /\ \A k \in DOMAIN cs : cs[k] \in Seq(Packet) /\ Len(cs[k]) > 0
    BY ConversationsFacts, SeqFacts
  <2> HIDE DEF cs
  <2>2. DOMAIN flows = 1..Len(cs) /\ flows = [k \in 1..Len(cs) |-> flows[k]]
    BY <1>2, <2>1 DEF cs
  <2>3. \A k \in 1..Len(cs) : flows[k] \in {StdlibRecord(cs[k]), ScapyRecord(cs[k]), NfstreamRecord(cs[k])}
    BY <1>2, <2>1 DEF cs
  <2>4. \A k \in 1..Len(cs) : flows[k].last \in Int
    BY <1>1, <2>1, <2>3
  <2>5. IsSeq(flows)
    BY <2>1, <2>2 DEF IsSeq, ToSet
  <2> QED BY <2>2, <2>4, <2>5 DEF Timed
<1>3. Timed(StdlibFlows(ps)) /\ Timed(NfstreamFlows(ps))
  BY <1>2 DEF StdlibFlows, NfstreamFlows
<1>4. Timed(ScapyFlows(ps))
  <2> DEFINE known == Pick(ps, {i \in DOMAIN ps : ps[i].proto \in KnownProtocols})
  <2>1. IsSeq(ps) /\ ToSet(ps) \subseteq Packet
    BY SeqIs
  <2>2. known \in Seq(ToSet(ps))
    BY <2>1, PickFacts
  <2>3. known \in Seq(Packet)
    BY <2>1, <2>2
  <2> QED BY <1>2, <2>3 DEF ScapyFlows
<1> QED BY <1>3, <1>4

LEMMA NewRecordsTimed ==
    ASSUME Typing, NEW records \in NewRecords
    PROVE  Timed(records)
<1>1. Timed(Records(table)) /\ Timed(StdlibFlows(packets)) /\ Timed(ScapyFlows(packets))
      /\ Timed(NfstreamFlows(packets))
  BY LiveTimed, FileTimed DEF Typing
<1>2. records \in {Records(table), StdlibFlows(packets), ScapyFlows(packets), NfstreamFlows(packets)}
  BY DetectionAssumption DEF Typing, NewRecords, NfstreamOrScapy
<1> QED BY <1>1, <1>2

\* The verdicts are what the detectors report of the last window, given the
\* history that holds it.
Judged ==
    /\ Timed(window)
    /\ \/ window = << >> /\ verdicts = {}
       \/ window # << >> /\ verdicts \in Reports(beacons, window)

\* The window of a step: records are new, so it is not empty.
LEMMA AnalyseTimed ==
    ASSUME Typing, Timed(window), NEW kept \in 0..Len(window), NEW records \in NewRecords,
           records # << >>
    PROVE  /\ Timed(LastOf(kept, window) \o records)
           /\ LastOf(kept, window) \o records # << >>
<1> DEFINE old == LastOf(kept, window)
           flows == old \o records
<1>1. Timed(records) /\ kept \in Nat
  BY NewRecordsTimed DEF Timed
<1>2. IsSeq(old) /\ \A i \in 1..Len(old) : old[i].last \in Int
  BY <1>1, LastOfFacts DEF Timed
<1> HIDE DEF old
<1>3. /\ Len(old) \in Nat /\ Len(records) \in Nat /\ Len(records) # 0
      /\ DOMAIN old = 1..Len(old) /\ DOMAIN records = 1..Len(records)
  BY <1>1, <1>2, SeqFacts DEF Timed
<1>4. /\ IsSeq(flows) /\ Len(flows) = Len(old) + Len(records)
      /\ \A i \in 1..Len(old) : flows[i] = old[i]
      /\ \A i \in 1..Len(records) : flows[Len(old) + i] = records[i]
  BY <1>1, <1>2, ConcatFacts DEF Timed
<1> HIDE DEF flows
<1>5. DOMAIN flows = 1..Len(flows) /\ flows # << >>
  BY <1>3, <1>4, SeqFacts
<1>6. \A i \in DOMAIN flows : \/ i \in 1..Len(old)
                              \/ i - Len(old) \in 1..Len(records) /\ i = Len(old) + (i - Len(old))
  BY <1>3, <1>4, <1>5
<1>7. \A i \in DOMAIN flows : flows[i].last \in Int
  BY <1>1, <1>2, <1>3, <1>4, <1>6 DEF Timed
<1> QED BY <1>4, <1>5, <1>7 DEF Timed, flows, old

LEMMA JudgedInit == Init => Judged
<1>1. IsSeq(<< >>) /\ Timed(<< >>)
  BY DEF IsSeq, ToSet, Timed
<1> QED BY <1>1 DEF Init, Judged

LEMMA JudgedNext == Typing /\ Judged /\ [Next]_vars => Judged'
<1> SUFFICES ASSUME Typing, Judged, [Next]_vars PROVE Judged'
  OBVIOUS
<1>1. ASSUME UNCHANGED << window, verdicts, beacons >> PROVE Judged'
  BY <1>1 DEF Judged
<1>2. ASSUME NEW kept \in 0..Len(window), NEW records \in NewRecords, Analyse(kept, records)
      PROVE  Judged'
  <2> DEFINE flows == LastOf(kept, window) \o records
             history == Remember(beacons, flows)
  <2>1. records # << >> /\ window' = flows /\ beacons' = history /\ verdicts' \in Reports(history, flows)
    BY <1>2 DEF Analyse
  <2>2. Timed(flows) /\ flows # << >>
    BY <2>1, AnalyseTimed DEF Judged
  <2> HIDE DEF flows, history
  <2> QED BY <2>1, <2>2 DEF Judged
<1>3. CASE UNCHANGED vars
  BY <1>1, <1>3 DEF vars
<1>4. CASE \E kind \in Kinds, time \in Times : Arrive(kind, time)
  BY <1>1, <1>4 DEF Arrive
<1>5. CASE ReadFails
  BY <1>1, <1>5 DEF ReadFails
<1> QED BY <1>2, <1>3, <1>4, <1>5 DEF Next

LEMMA JudgedAlways == Spec => []Judged
<1>1. Init => Judged
  BY JudgedInit
<1>2. Typing /\ Judged /\ [Next]_vars => Judged'
  BY JudgedNext
<1> QED BY <1>1, <1>2, TypingAlways, PTL DEF Spec

-----------------------------------------------------------------------------
(***************************************************************************)
(* What the detectors report.                                              *)
(***************************************************************************)
LEMMA ResultFields ==
    ASSUME NEW detector, NEW type, NEW src, NEW dst, NEW score, NEW severity
    PROVE  /\ Result(detector, type, src, dst, score, severity).detector = detector
           /\ Result(detector, type, src, dst, score, severity).src = src
           /\ Result(detector, type, src, dst, score, severity).dst = dst
BY DEF Result

\* A report is made of what each enabled detector reports.
Composed(h, flows, v) ==
    \E scans     \in Enabled("port_scan", {PortScanResults(flows)}),
       ddos      \in Enabled("ddos", DDoSOutcomes(flows)),
       syn       \in Enabled("syn_flood", SynFloodOutcomes(flows)),
       udp       \in Enabled("udp_flood", UdpFloodOutcomes(flows)),
       beaconing \in Enabled("c2", {BeaconResults(h, flows)}),
       dns       \in Enabled("dns_threat", {DnsResults(flows)}),
       encrypted \in Enabled("encrypted_session", {EncryptedResults(flows)}),
       transfers \in Enabled("exfiltration", {ExfiltrationResults(flows)}) :
         v = scans \cup ddos \cup syn \cup udp \cup beaconing \cup dns
            \cup encrypted \cup transfers

LEMMA ReportsFacts ==
    ASSUME NEW h, NEW flows, NEW v \in Reports(h, flows)
    PROVE  Composed(h, flows, v)
<1> DEFINE A == Enabled("port_scan", {PortScanResults(flows)})
           B == Enabled("ddos", DDoSOutcomes(flows))
           C == Enabled("syn_flood", SynFloodOutcomes(flows))
           D == Enabled("udp_flood", UdpFloodOutcomes(flows))
           E == Enabled("c2", {BeaconResults(h, flows)})
           F == Enabled("dns_threat", {DnsResults(flows)})
           G == Enabled("encrypted_session", {EncryptedResults(flows)})
           H == Enabled("exfiltration", {ExfiltrationResults(flows)})
           R == {scans \cup ddos \cup syn \cup udp \cup beaconing \cup dns \cup encrypted \cup transfers :
                   scans \in A, ddos \in B, syn \in C, udp \in D, beaconing \in E, dns \in F,
                   encrypted \in G, transfers \in H}
<1>1. v \in R
  <2>1. Reports(h, flows) = R
    BY DEF Reports
  <2> HIDE DEF R
  <2> QED BY <2>1
<1> HIDE DEF A, B, C, D, E, F, G, H
<1>2. \E a \in A, b \in B, c \in C, d \in D, e \in E, f \in F, g \in G, i \in H :
         v = a \cup b \cup c \cup d \cup e \cup f \cup g \cup i
  BY <1>1, SMT
<1> QED BY <1>2, Zenon DEF Composed, A, B, C, D, E, F, G, H

Names(results, detector) == \A r \in results : r.detector = detector

LEMMA EnabledNames ==
    ASSUME NEW detector, NEW name, NEW outcomes, \A o \in outcomes : Names(o, name),
           NEW o \in Enabled(detector, outcomes)
    PROVE  Names(o, name) /\ (detector \in Detectors => o \in outcomes)
BY DEF Enabled, Names

\* Every detector signs with its own name.
LEMMA AggregateNames ==
    ASSUME NEW flows, NEW dst, NEW corroborated
    PROVE  /\ \A r \in DDoSAggregate(flows, dst) : r.detector = "ddos"
           /\ \A r \in DDoSTo(dst, flows) : r.detector = "ddos" /\ r.dst = dst
           /\ \A r \in SynFloodIf(dst, flows, corroborated) : r.detector = "syn_flood" /\ r.dst = dst
           /\ \A r \in UdpFloodIf(dst, flows, corroborated) : r.detector = "udp_flood" /\ r.dst = dst
<1>1. \A type, src, score, severity :
        /\ Result("ddos", type, src, dst, score, severity).detector = "ddos"
        /\ Result("ddos", type, src, dst, score, severity).dst = dst
        /\ Result("syn_flood", type, src, dst, score, severity).detector = "syn_flood"
        /\ Result("syn_flood", type, src, dst, score, severity).dst = dst
        /\ Result("udp_flood", type, src, dst, score, severity).detector = "udp_flood"
        /\ Result("udp_flood", type, src, dst, score, severity).dst = dst
  BY ResultFields
<1>2. \A r \in DDoSAggregate(flows, dst) : r.detector = "ddos"
  BY <1>1 DEF DDoSAggregate
<1>3. \A r \in DDoSTo(dst, flows) : r.detector = "ddos" /\ r.dst = dst
  BY <1>1 DEF DDoSTo
<1>4. \A r \in SynFloodIf(dst, flows, corroborated) : r.detector = "syn_flood" /\ r.dst = dst
  BY <1>1 DEF SynFloodIf
<1>5. \A r \in UdpFloodIf(dst, flows, corroborated) : r.detector = "udp_flood" /\ r.dst = dst
  BY <1>1 DEF UdpFloodIf
<1> QED BY <1>2, <1>3, <1>4, <1>5

LEMMA ToNames ==
    ASSUME NEW flows, NEW dst
    PROVE  /\ \A r \in SynFloodTo(dst, flows) : r.detector = "syn_flood" /\ r.dst = dst
           /\ \A r \in UdpFloodTo(dst, flows) : r.detector = "udp_flood" /\ r.dst = dst
<1>1. \A r \in SynFloodTo(dst, flows) : r.detector = "syn_flood" /\ r.dst = dst
  <2> DEFINE c == AtLeast(SpoofingLikelihood(flows), Thresholds.syn_flood.min_spoofing_likelihood)
  <2>1. SynFloodTo(dst, flows) = SynFloodIf(dst, flows, c)
    BY DEF SynFloodTo
  <2> HIDE DEF c
  <2> QED BY <2>1, AggregateNames
<1>2. \A r \in UdpFloodTo(dst, flows) : r.detector = "udp_flood" /\ r.dst = dst
  <2> DEFINE c == /\ Cardinality(Sources(flows)) >= Thresholds.udp_flood.min_flows
                  /\ AtLeast(OnePacketSourceRatio(flows),
                             Thresholds.udp_flood.min_one_packet_source_ratio)
  <2>1. UdpFloodTo(dst, flows) = UdpFloodIf(dst, flows, c)
    BY DEF UdpFloodTo
  <2> HIDE DEF c
  <2> QED BY <2>1, AggregateNames
<1> QED BY <1>1, <1>2

LEMMA RateNames ==
    ASSUME NEW flows
    PROVE  /\ Names(PortScanResults(flows), "port_scan")
           /\ \A o \in DDoSOutcomes(flows) : Names(o, "ddos")
           /\ \A o \in SynFloodOutcomes(flows) : Names(o, "syn_flood")
           /\ \A o \in UdpFloodOutcomes(flows) : Names(o, "udp_flood")
<1>1. Names(PortScanResults(flows), "port_scan")
  <2>1. \A src, fl : \A r \in ScanOf(src, fl) : r.detector = "port_scan"
    BY ResultFields DEF ScanOf
  <2> QED BY <2>1 DEF PortScanResults, Names
<1>2. \A agg, per, name : Names(agg, name) /\ Names(per, name) => Names(WithDestinations(agg, per), name)
  BY DEF Names, WithDestinations
<1>3. \A fl : Names(DDoSPerDestination(fl), "ddos")
  <2>1. \A dst, fl : \A r \in DDoSTo(dst, fl) : r.detector = "ddos"
    BY AggregateNames
  <2> QED BY <2>1 DEF DDoSPerDestination, Names
<1>4. \A fl, main : Names(DDoSAggregate(fl, main), "ddos")
  BY AggregateNames DEF Names
<1>5. \A o \in DDoSOutcomes(flows) : Names(o, "ddos")
  <2>1. Names({}, "ddos")
    BY DEF Names
  <2> QED BY <1>2, <1>3, <1>4, <2>1 DEF DDoSOutcomes
<1>6. \A fl : Names(SynFloodPerDestination(fl), "syn_flood")
  <2>1. \A dst, fl : \A r \in SynFloodTo(dst, fl) : r.detector = "syn_flood"
    BY ToNames
  <2> QED BY <2>1 DEF SynFloodPerDestination, Names
<1>7. \A fl, main : Names(SynFloodAggregate(fl, main), "syn_flood")
  BY AggregateNames DEF SynFloodAggregate, Names
<1>8. \A o \in SynFloodOutcomes(flows) : Names(o, "syn_flood")
  <2>1. Names({}, "syn_flood")
    BY DEF Names
  <2> QED BY <1>2, <1>6, <1>7, <2>1 DEF SynFloodOutcomes
<1>9. \A fl : Names(UdpFloodPerDestination(fl), "udp_flood")
  <2>1. \A dst, fl : \A r \in UdpFloodTo(dst, fl) : r.detector = "udp_flood"
    BY ToNames
  <2> QED BY <2>1 DEF UdpFloodPerDestination, Names
<1>10. \A fl, main : Names(UdpFloodAggregate(fl, main), "udp_flood")
  BY AggregateNames DEF UdpFloodAggregate, Names
<1>11. \A fl : Names(ReflectionResults(fl), "udp_flood")
  <2>1. \A service, fl : \A r \in ReflectionFrom(service, fl) : r.detector = "udp_flood"
    BY ResultFields DEF ReflectionFrom
  <2> QED BY <2>1 DEF ReflectionResults, Names
<1>12. \A o \in UdpFloodOutcomes(flows) : Names(o, "udp_flood")
  <2>1. Names({}, "udp_flood")
    BY DEF Names
  <2>2. \A a, b : Names(a, "udp_flood") /\ Names(b, "udp_flood") => Names(a \cup b, "udp_flood")
    BY DEF Names
  <2> QED BY <1>2, <1>9, <1>10, <1>11, <2>1, <2>2 DEF UdpFloodOutcomes
<1> QED BY <1>1, <1>5, <1>8, <1>12

LEMMA SessionNames ==
    ASSUME NEW h, NEW flows
    PROVE  /\ Names(BeaconResults(h, flows), "c2_beacon")
           /\ Names(DnsResults(flows), "dns_threat")
           /\ Names(EncryptedResults(flows), "encrypted_session")
           /\ Names(ExfiltrationResults(flows), "exfiltration")
<1>1. Names(BeaconResults(h, flows), "c2_beacon")
  BY ResultFields DEF BeaconResults, Names
<1>2. Names(DnsResults(flows), "dns_threat")
  <2>1. ASSUME NEW src, NEW items, NEW r \in DnsResultsFrom(src, items)
        PROVE  r.detector = "dns_threat"
    <3>1. \E type, dst, score : r = Result("dns_threat", type, src, dst, score, "none")
      BY Zenon DEF DnsResultsFrom
    <3> QED BY <3>1, ResultFields
  <2> QED BY <2>1, Zenon DEF DnsResults, Names
<1>3. Names(EncryptedResults(flows), "encrypted_session")
  <2> SUFFICES ASSUME NEW r \in EncryptedResults(flows) PROVE r.detector = "encrypted_session"
    BY DEF Names
  <2>1. \E type, src, dst, score : r = Result("encrypted_session", type, src, dst, score, "none")
    BY Zenon DEF EncryptedResults
  <2> QED BY <2>1, ResultFields
<1>4. Names(ExfiltrationResults(flows), "exfiltration")
  BY ResultFields DEF ExfiltrationResults, Names
<1> QED BY <1>1, <1>2, <1>3, <1>4

\* What a report holds of each detector that the theorems are about.
LEMMA ReportsOf ==
    ASSUME NEW h, NEW flows, NEW v \in Reports(h, flows)
    PROVE  /\ "ddos" \in Detectors => \E o \in DDoSOutcomes(flows) : o \subseteq v
           /\ "syn_flood" \in Detectors => \E o \in SynFloodOutcomes(flows) : o \subseteq v
           /\ "udp_flood" \in Detectors => \E o \in UdpFloodOutcomes(flows) : o \subseteq v
           /\ "c2" \in Detectors => BeaconResults(h, flows) \subseteq v
           /\ \A r \in v :
                /\ r.detector = "c2_beacon" => r \in BeaconResults(h, flows)
                /\ r.detector = "encrypted_session" => r \in EncryptedResults(flows)
                /\ r.detector = "exfiltration" => r \in ExfiltrationResults(flows)
<1>1. PICK scans     \in Enabled("port_scan", {PortScanResults(flows)}),
           ddos      \in Enabled("ddos", DDoSOutcomes(flows)),
           syn       \in Enabled("syn_flood", SynFloodOutcomes(flows)),
           udp       \in Enabled("udp_flood", UdpFloodOutcomes(flows)),
           beaconing \in Enabled("c2", {BeaconResults(h, flows)}),
           dns       \in Enabled("dns_threat", {DnsResults(flows)}),
           encrypted \in Enabled("encrypted_session", {EncryptedResults(flows)}),
           transfers \in Enabled("exfiltration", {ExfiltrationResults(flows)}) :
             v = scans \cup ddos \cup syn \cup udp \cup beaconing \cup dns
                   \cup encrypted \cup transfers
  <2>1. Composed(h, flows, v)
    BY ReportsFacts
  <2> QED BY <2>1, Zenon DEF Composed
<1>2. Names(scans, "port_scan") /\ Names(ddos, "ddos") /\ Names(syn, "syn_flood") /\ Names(udp, "udp_flood")
  BY <1>1, RateNames, EnabledNames
<1>3. /\ Names(beaconing, "c2_beacon") /\ Names(dns, "dns_threat")
      /\ Names(encrypted, "encrypted_session") /\ Names(transfers, "exfiltration")
  BY <1>1, SessionNames, EnabledNames
<1>4. /\ "ddos" \in Detectors => ddos \in DDoSOutcomes(flows)
      /\ "syn_flood" \in Detectors => syn \in SynFloodOutcomes(flows)
      /\ "udp_flood" \in Detectors => udp \in UdpFloodOutcomes(flows)
      /\ "c2" \in Detectors => beaconing = BeaconResults(h, flows)
      /\ beaconing \subseteq BeaconResults(h, flows)
      /\ encrypted \subseteq EncryptedResults(flows)
      /\ transfers \subseteq ExfiltrationResults(flows)
  BY <1>1 DEF Enabled
<1>5. /\ ddos \subseteq v /\ syn \subseteq v /\ udp \subseteq v /\ beaconing \subseteq v
      /\ \A r \in v : \/ r \in scans \/ r \in ddos \/ r \in syn \/ r \in udp \/ r \in beaconing
                      \/ r \in dns \/ r \in encrypted \/ r \in transfers
  BY <1>1
<1>6. ASSUME NEW r \in v
      PROVE  /\ r.detector = "c2_beacon" => r \in beaconing
             /\ r.detector = "encrypted_session" => r \in encrypted
             /\ r.detector = "exfiltration" => r \in transfers
  BY <1>2, <1>3, <1>5 DEF Names
<1> QED BY <1>4, <1>5, <1>6

\* Nothing that a detector reports of a destination is lost to its aggregate
\* result: that names the same destination.
LEMMA NotMasked ==
    ASSUME NEW aggregate, NEW per, NEW name, Names(aggregate, name), Names(per, name), NEW r \in per
    PROVE  r.dst \in AccusedOf(WithDestinations(aggregate, per), name)
<1>1. CASE \A a \in aggregate : a.dst # r.dst
  BY <1>1 DEF WithDestinations, AccusedOf, Names
<1>2. CASE \E a \in aggregate : a.dst = r.dst
  BY <1>2 DEF WithDestinations, AccusedOf, Names
<1> QED BY <1>1, <1>2

\* A host with enough flows is the destination of one.
LEMMA EnoughFlows ==
    ASSUME NEW flows, IsSeq(flows), NEW dst, NEW n \in Nat \ {0}, ~ (Len(FlowsTo(dst, flows)) < n)
    PROVE  flows # << >> /\ dst \in Destinations(flows)
<1> DEFINE P == {i \in DOMAIN flows : flows[i].dst = dst}
<1>1. Len(FlowsTo(dst, flows)) = Cardinality(P)
  <2>1. FlowsTo(dst, flows) = Pick(flows, P) /\ P \in SUBSET DOMAIN flows
    BY DEF FlowsTo
  <2> HIDE DEF P
  <2> QED BY <2>1, PickFacts
<1>2. P # {}
  <2>1. Cardinality({}) = 0
    BY FS_EmptySet
  <2> HIDE DEF P
  <2> QED BY <1>1, <2>1
<1>3. PICK i \in DOMAIN flows : flows[i].dst = dst
  BY <1>2
<1>4. flows # << >>
  BY <1>3, SeqFacts
<1> QED BY <1>3, <1>4 DEF Destinations, Distinct

LEMMA AccusedGrows ==
    ASSUME NEW o, NEW v, o \subseteq v, NEW name
    PROVE  AccusedOf(o, name) \subseteq AccusedOf(v, name)
BY DEF AccusedOf

LEMMA DDoSNamed ==
    ASSUME NEW flows, flows # << >>, NEW dst \in Destinations(flows),
           DDoSTo(dst, FlowsTo(dst, flows)) # {}, NEW o \in DDoSOutcomes(flows)
    PROVE  dst \in AccusedOf(o, "ddos")
<1>1. PICK main : o = WithDestinations(DDoSAggregate(flows, main), DDoSPerDestination(flows))
  BY Zenon DEF DDoSOutcomes
<1>2. PICK r \in DDoSTo(dst, FlowsTo(dst, flows)) : TRUE
  OBVIOUS
<1>3. r.dst = dst /\ \A to, fl : \A q \in DDoSTo(to, fl) : q.detector = "ddos"
  BY AggregateNames
<1>4. r \in DDoSPerDestination(flows)
  BY Zenon DEF DDoSPerDestination
<1>5. Names(DDoSPerDestination(flows), "ddos") /\ Names(DDoSAggregate(flows, main), "ddos")
  <2>1. Names(DDoSPerDestination(flows), "ddos")
    BY <1>3, Zenon DEF Names, DDoSPerDestination
  <2>2. Names(DDoSAggregate(flows, main), "ddos")
    BY AggregateNames DEF Names
  <2> QED BY <2>1, <2>2
<1> QED BY <1>1, <1>3, <1>4, <1>5, NotMasked

LEMMA SynNamed ==
    ASSUME NEW flows, IsSeq(FlowsOfProtocol(TCP, flows)), NEW dst,
           SynFloodTo(dst, FlowsTo(dst, FlowsOfProtocol(TCP, flows))) # {},
           NEW o \in SynFloodOutcomes(flows)
    PROVE  dst \in AccusedOf(o, "syn_flood")
<1> DEFINE tcp == FlowsOfProtocol(TCP, flows)
<1>1. ~ (Len(FlowsTo(dst, tcp)) < Thresholds.syn_flood.min_flows)
  BY DEF SynFloodTo, SynFloodIf
<1>2. o \in (IF tcp = << >> THEN {{}}
             ELSE {WithDestinations(SynFloodAggregate(tcp, main), SynFloodPerDestination(tcp)) :
                     main \in MainTargets(tcp)})
  BY Zenon DEF SynFloodOutcomes
<1> HIDE DEF tcp
<1>3. tcp # << >> /\ dst \in Destinations(tcp)
  BY <1>1, EnoughFlows, ThresholdAssumption DEF tcp
<1>4. PICK main : o = WithDestinations(SynFloodAggregate(tcp, main), SynFloodPerDestination(tcp))
  BY <1>2, <1>3, Zenon
<1>5. PICK r \in SynFloodTo(dst, FlowsTo(dst, tcp)) : TRUE
  BY DEF tcp
<1>6. r.dst = dst /\ \A to, fl : \A q \in SynFloodTo(to, fl) : q.detector = "syn_flood"
  BY ToNames
<1>7. r \in SynFloodPerDestination(tcp)
  BY <1>3, Zenon DEF SynFloodPerDestination
<1>8. Names(SynFloodPerDestination(tcp), "syn_flood") /\ Names(SynFloodAggregate(tcp, main), "syn_flood")
  BY <1>6, AggregateNames DEF Names, SynFloodPerDestination, SynFloodAggregate
<1> QED BY <1>4, <1>6, <1>7, <1>8, NotMasked

LEMMA UdpNamed ==
    ASSUME NEW flows, IsSeq(FlowsOfProtocol(UDP, flows)), NEW dst,
           UdpFloodTo(dst, FlowsTo(dst, FlowsOfProtocol(UDP, flows))) # {},
           NEW o \in UdpFloodOutcomes(flows)
    PROVE  dst \in AccusedOf(o, "udp_flood")
<1> DEFINE udp == FlowsOfProtocol(UDP, flows)
<1>1. ~ (Len(FlowsTo(dst, udp)) < Thresholds.udp_flood.min_flows)
  BY DEF UdpFloodTo, UdpFloodIf
<1>2. o \in (IF udp = << >> THEN {{}}
             ELSE {WithDestinations(UdpFloodAggregate(udp, main), UdpFloodPerDestination(udp))
                     \cup ReflectionResults(udp) : main \in MainTargets(udp)})
  BY Zenon DEF UdpFloodOutcomes
<1> HIDE DEF udp
<1>3. udp # << >> /\ dst \in Destinations(udp)
  BY <1>1, EnoughFlows, ThresholdAssumption DEF udp
<1>4. PICK main : o = WithDestinations(UdpFloodAggregate(udp, main), UdpFloodPerDestination(udp))
                        \cup ReflectionResults(udp)
  BY <1>2, <1>3, Zenon
<1>5. PICK r \in UdpFloodTo(dst, FlowsTo(dst, udp)) : TRUE
  BY DEF udp
<1>6. r.dst = dst /\ \A to, fl : \A q \in UdpFloodTo(to, fl) : q.detector = "udp_flood"
  BY ToNames
<1>7. r \in UdpFloodPerDestination(udp)
  BY <1>3, Zenon DEF UdpFloodPerDestination
<1>8. Names(UdpFloodPerDestination(udp), "udp_flood") /\ Names(UdpFloodAggregate(udp, main), "udp_flood")
  BY <1>6, AggregateNames DEF Names, UdpFloodPerDestination, UdpFloodAggregate
<1> DEFINE w == WithDestinations(UdpFloodAggregate(udp, main), UdpFloodPerDestination(udp))
<1>9. dst \in AccusedOf(w, "udp_flood")
  BY <1>6, <1>7, <1>8, NotMasked
<1>10. w \subseteq o
  BY <1>4
<1> HIDE DEF w
<1> QED BY <1>9, <1>10, AccusedGrows

\* A flood on the whole network hides none on a single host (the detectors'
\* detect): what is evidence enough for one destination names it.
THEOREM TargetsNotMasked == Spec => []NoTargetMasked
<1>1. Judged => NoTargetMasked
  <2> SUFFICES ASSUME Judged, NEW dst \in Destinations(window)
      PROVE  LET tcp == FlowsTo(dst, FlowsOfProtocol(TCP, window))
                 udp == FlowsTo(dst, FlowsOfProtocol(UDP, window))
             IN  /\ "ddos" \in Detectors /\ DDoSTo(dst, FlowsTo(dst, window)) # {}
                      => dst \in AccusedOf(verdicts, "ddos")
                 /\ "syn_flood" \in Detectors /\ SynFloodTo(dst, tcp) # {}
                      => dst \in AccusedOf(verdicts, "syn_flood")
                 /\ "udp_flood" \in Detectors /\ UdpFloodTo(dst, udp) # {}
                      => dst \in AccusedOf(verdicts, "udp_flood")
    BY Zenon DEF NoTargetMasked
  <2>1. IsSeq(window) /\ window # << >> /\ verdicts \in Reports(beacons, window)
    BY SeqFacts DEF Judged, Timed, Destinations, Distinct
  <2>2. \A proto : IsSeq(FlowsOfProtocol(proto, window))
    <3> SUFFICES ASSUME NEW proto PROVE IsSeq(FlowsOfProtocol(proto, window))
      OBVIOUS
    <3> DEFINE P == {i \in DOMAIN window : window[i].proto = proto}
    <3>1. FlowsOfProtocol(proto, window) = Pick(window, P) /\ P \in SUBSET DOMAIN window
      BY DEF FlowsOfProtocol
    <3> HIDE DEF P
    <3> QED BY <2>1, <3>1, PickFacts
  <2>3. "ddos" \in Detectors /\ DDoSTo(dst, FlowsTo(dst, window)) # {}
          => dst \in AccusedOf(verdicts, "ddos")
    BY <2>1, ReportsOf, DDoSNamed, AccusedGrows
  <2>4. "syn_flood" \in Detectors /\ SynFloodTo(dst, FlowsTo(dst, FlowsOfProtocol(TCP, window))) # {}
          => dst \in AccusedOf(verdicts, "syn_flood")
    BY <2>1, <2>2, ReportsOf, SynNamed, AccusedGrows
  <2>5. "udp_flood" \in Detectors /\ UdpFloodTo(dst, FlowsTo(dst, FlowsOfProtocol(UDP, window))) # {}
          => dst \in AccusedOf(verdicts, "udp_flood")
    BY <2>1, <2>2, ReportsOf, UdpNamed, AccusedGrows
  <2> QED BY <2>3, <2>4, <2>5
<1> QED BY <1>1, JudgedAlways, PTL

\* No other factor makes up for the volume.
LEMMA TransferNeedsVolume ==
    ASSUME NEW out, NEW in, NEW duration, NEW rare, NEW total, NEW n,
           ExfiltrationScore(out, in, duration, rare, total, n) >= Defaults.exfiltration.min_score
    PROVE  out >= Defaults.exfiltration.min_outbound_bytes
<1> SUFFICES ASSUME ~ (out >= Defaults.exfiltration.min_outbound_bytes) PROVE FALSE
  OBVIOUS
<1> DEFINE a == When(Outweighs(out, in, Defaults.exfiltration.min_ratio), 20)
           b == When(duration >= Defaults.exfiltration.min_duration, 15)
           c == When(rare, 15)
<1>1. a \in 0..20 /\ b \in 0..15 /\ c \in 0..15
  BY DEF When
<1>2. ExfiltrationScore(out, in, duration, rare, total, n) = 0 + a + b + c + 0
  BY DEF ExfiltrationScore, When
<1>3. Defaults.exfiltration.min_score \in 51..100
  BY SessionAssumption
<1> HIDE DEF a, b, c
<1> QED BY <1>1, <1>2, <1>3

LEMMA SessionNeedsVolume ==
    ASSUME NEW out, NEW in, NEW duration, NEW rare, NEW fingerprint, NEW rapid,
           EncryptedScore(out, in, duration, rare, fingerprint, rapid)
             >= Defaults.encrypted_session.min_score
    PROVE  out >= Defaults.encrypted_session.min_bytes
<1> SUFFICES ASSUME ~ (out >= Defaults.encrypted_session.min_bytes) PROVE FALSE
  OBVIOUS
<1> DEFINE a == When(duration >= Defaults.encrypted_session.min_duration, 15)
           b == When(Outweighs(out, in, 5), 20)
           c == When(rare, 15)
           d == When(fingerprint, 5)
           e == When(rapid, 10)
<1>1. a \in 0..15 /\ b \in 0..20 /\ c \in 0..15 /\ d \in 0..5 /\ e \in 0..10
  BY DEF When
<1>2. EncryptedScore(out, in, duration, rare, fingerprint, rapid) = 0 + a + b + c + d + e
  BY DEF EncryptedScore, When
<1>3. Defaults.encrypted_session.min_score \in 66..100
  BY SessionAssumption
<1> HIDE DEF a, b, c, d, e
<1> QED BY <1>1, <1>2, <1>3

\* No report of exfiltration or of an encrypted session without the volume it
\* is about (exfiltration.py, encrypted_session.py).
THEOREM VolumeIsNeeded == Spec => []VolumeNeeded
<1>1. Judged => VolumeNeeded
  <2> SUFFICES ASSUME Judged, NEW r \in verdicts
      PROVE  /\ r.detector = "exfiltration" =>
                  \E f \in ToSet(window) :
                     /\ f.src = r.src /\ f.dst = r.dst
                     /\ f.src2dst_bytes >= Defaults.exfiltration.min_outbound_bytes
             /\ r.detector = "encrypted_session" =>
                  \E f \in ToSet(window) :
                     /\ f.src = r.src /\ f.dst = r.dst
                     /\ f.src2dst_bytes >= Defaults.encrypted_session.min_bytes
    BY Zenon DEF VolumeNeeded
  <2>1. IsSeq(window) /\ verdicts \in Reports(beacons, window)
    BY DEF Judged, Timed
  <2>2. /\ r.detector = "exfiltration" => r \in ExfiltrationResults(window)
        /\ r.detector = "encrypted_session" => r \in EncryptedResults(window)
    BY <2>1, ReportsOf
  <2>3. ASSUME r \in ExfiltrationResults(window)
        PROVE  \E f \in ToSet(window) :
                  /\ f.src = r.src /\ f.dst = r.dst
                  /\ f.src2dst_bytes >= Defaults.exfiltration.min_outbound_bytes
    <3>1. PICK f \in ToSet(window) :
            /\ r = Result("exfiltration", "POTENTIAL_DATA_EXFILTRATION", f.src, f.dst,
                          ScoreOfTransfer(f, window), "none")
            /\ ScoreOfTransfer(f, window) >= Defaults.exfiltration.min_score
      BY <2>3, Zenon DEF ExfiltrationResults
    <3>2. f.src2dst_bytes >= Defaults.exfiltration.min_outbound_bytes
      BY <3>1, TransferNeedsVolume DEF ScoreOfTransfer
    <3>3. f.src = r.src /\ f.dst = r.dst
      BY <3>1, ResultFields
    <3> QED BY <3>2, <3>3
  <2>4. ASSUME r \in EncryptedResults(window)
        PROVE  \E f \in ToSet(window) :
                  /\ f.src = r.src /\ f.dst = r.dst
                  /\ f.src2dst_bytes >= Defaults.encrypted_session.min_bytes
    <3> DEFINE P == {i \in DOMAIN window : MayBeEncrypted(window[i])}
               candidates == Pick(window, P)
    <3>1. PICK f \in ToSet(candidates) :
            /\ r = Result("encrypted_session", "ENCRYPTED_SESSION_MALWARE", f.src, f.dst,
                          ScoreOfSession(f, candidates), "none")
            /\ ScoreOfSession(f, candidates) >= Defaults.encrypted_session.min_score
      BY <2>4, Zenon DEF EncryptedResults
    <3>2. f \in ToSet(window)
      <4>1. P \in SUBSET DOMAIN window
        OBVIOUS
      <4> HIDE DEF P
      <4>2. \E i \in P : f = window[i]
        BY <2>1, <3>1, <4>1, PickFacts
      <4> QED BY <2>1, <4>1, <4>2, SeqFacts
    <3> HIDE DEF candidates
    <3>3. f.src2dst_bytes >= Defaults.encrypted_session.min_bytes
      BY <3>1, SessionNeedsVolume DEF ScoreOfSession
    <3>4. f.src = r.src /\ f.dst = r.dst
      BY <3>1, ResultFields
    <3> QED BY <3>2, <3>3, <3>4
  <2> QED BY <2>2, <2>3, <2>4
<1> QED BY <1>1, JudgedAlways, PTL

-----------------------------------------------------------------------------
(***************************************************************************)
(* Finite sets of numbers: greatest, least, in ascending order.            *)
(***************************************************************************)
LEMMA Extremes ==
    ASSUME NEW S \in SUBSET Int, IsFiniteSet(S), S # {}
    PROVE  /\ \E m \in S : \A y \in S : m >= y
           /\ \E m \in S : \A y \in S : m <= y
<1> DEFINE N == Cardinality(S)
           Bounded(Q) == /\ \E m \in Q : \A y \in Q : m >= y
                         /\ \E m \in Q : \A y \in Q : m <= y
           T == {k \in 0..N : \A Q \in SUBSET S : Cardinality(Q) = k /\ Q # {} => Bounded(Q)}
<1>1. N \in Nat
  BY FS_CardinalityType
<1> HIDE DEF N
<1>2. 0 \in T
  <2>1. \A Q \in SUBSET S : Cardinality(Q) = 0 => Q = {}
    BY FS_Subset, FS_EmptySet
  <2>2. 0 \in 0..N
    BY <1>1
  <2> HIDE DEF Bounded
  <2> QED BY <2>1, <2>2, Zenon
<1>3. ASSUME NEW k \in 0..(N - 1), k \in T PROVE k + 1 \in T
  <2>1. ASSUME NEW Q \in SUBSET S, Cardinality(Q) = k + 1, Q # {} PROVE Bounded(Q)
    <3>1. PICK x \in Q : TRUE
      BY <2>1
    <3> DEFINE R == Q \ {x}
    <3>2. IsFiniteSet(Q) /\ R \in SUBSET S /\ Q = R \cup {x} /\ x \in Int
      BY <3>1, FS_Subset
    <3>3. Cardinality(R) = k
      <4>1. Cardinality(R) = Cardinality(Q) - 1
        BY <3>1, <3>2, FS_RemoveElement
      <4>2. (k + 1) - 1 = k
        BY <1>1
      <4> HIDE DEF R
      <4> QED BY <2>1, <4>1, <4>2
    <3> HIDE DEF R
    <3>4. CASE R = {}
      BY <3>2, <3>4
    <3>5. CASE R # {}
      <4>1. Bounded(R)
        <5> HIDE DEF Bounded
        <5> QED BY <1>3, <3>2, <3>3, <3>5
      <4>2. PICK a \in R, b \in R : \A y \in R : a >= y /\ b <= y
        BY <4>1
      <4>3. a \in Int /\ b \in Int /\ R \subseteq Int
        BY <3>2
      <4>4. \E m \in Q : \A y \in Q : m >= y
        <5>1. CASE a >= x
          BY <3>2, <4>2, <4>3, <5>1
        <5>2. CASE x >= a
          BY <3>2, <4>2, <4>3, <5>2
        <5> QED BY <3>2, <4>3, <5>1, <5>2
      <4>5. \E m \in Q : \A y \in Q : m <= y
        <5>1. CASE b <= x
          BY <3>2, <4>2, <4>3, <5>1
        <5>2. CASE x <= b
          BY <3>2, <4>2, <4>3, <5>2
        <5> QED BY <3>2, <4>3, <5>1, <5>2
      <4> QED BY <4>4, <4>5
    <3> QED BY <3>4, <3>5
  <2> HIDE DEF Bounded
  <2>2. k + 1 \in 0..N
    BY <1>1
  <2> QED BY <2>1, <2>2
<1> HIDE DEF T
<1>4. N \in T
  <2>1. 0..N \subseteq T
    BY <1>1, <1>2, <1>3, UpTo
  <2> QED BY <1>1, <2>1
<1>5. Bounded(S)
  <2> HIDE DEF Bounded
  <2> QED BY <1>4 DEF T, N
<1> QED BY <1>5

LEMMA MaxMin ==
    ASSUME NEW S \in SUBSET Int, IsFiniteSet(S), S # {}
    PROVE  /\ Max(S) \in S /\ \A y \in S : Max(S) >= y
           /\ Min(S) \in S /\ \A y \in S : Min(S) <= y
BY Extremes DEF Max, Min

Increasing(s) == \A i, j \in DOMAIN s : i < j => s[i] < s[j]

\* A finite set of numbers has its elements in one ascending order.
LEMMA AscendingExists ==
    ASSUME NEW S \in SUBSET Int, IsFiniteSet(S)
    PROVE  \E s \in [1..Cardinality(S) -> S] : Increasing(s)
<1> DEFINE N == Cardinality(S)
           Lists(Q, k) == \E s \in [1..k -> Q] : Increasing(s)
           T == {k \in 0..N : \A Q \in SUBSET S : Cardinality(Q) = k => Lists(Q, k)}
<1>1. N \in Nat
  BY FS_CardinalityType
<1> HIDE DEF N
<1>2. 0 \in T
  <2>1. \A Q : Lists(Q, 0)
    <3> SUFFICES ASSUME NEW Q PROVE Lists(Q, 0)
      OBVIOUS
    <3> DEFINE s == [i \in 1..0 |-> 0]
    <3>1. s \in [1..0 -> Q] /\ Increasing(s)
      BY DEF Increasing
    <3> HIDE DEF s
    <3> QED BY <3>1
  <2> HIDE DEF Lists
  <2> QED BY <1>1, <2>1
<1>3. ASSUME NEW k \in 0..(N - 1), k \in T PROVE k + 1 \in T
  <2>1. ASSUME NEW Q \in SUBSET S, Cardinality(Q) = k + 1 PROVE Lists(Q, k + 1)
    <3>1. IsFiniteSet(Q) /\ Q # {}
      <4>1. IsFiniteSet(Q)
        BY FS_Subset
      <4>2. k + 1 # 0
        BY <1>1
      <4> QED BY <2>1, <4>1, <4>2, FS_EmptySet
    <3>2. PICK m \in Q : \A y \in Q : m >= y
      BY <3>1, Extremes
    <3> DEFINE R == Q \ {m}
    <3>3. R \in SUBSET S /\ m \in Int /\ Q \subseteq Int /\ (\A y \in R : y < m) /\ R \subseteq Q
      BY <3>2
    <3>4. Cardinality(R) = k
      <4>1. Cardinality(R) = Cardinality(Q) - 1
        BY <3>1, <3>2, FS_RemoveElement
      <4>2. (k + 1) - 1 = k
        BY <1>1
      <4> HIDE DEF R
      <4> QED BY <2>1, <4>1, <4>2
    <3> HIDE DEF R
    <3>5. Lists(R, k)
      <4> HIDE DEF Lists
      <4> QED BY <1>3, <3>3, <3>4
    <3>6. PICK s \in [1..k -> R] : Increasing(s)
      BY <3>5
    <3> DEFINE t == [i \in 1..(k + 1) |-> IF i = k + 1 THEN m ELSE s[i]]
    <3>7. \A i \in 1..(k + 1) : i \in 1..k \/ i = k + 1
      BY <1>1
    <3>8. t \in [1..(k + 1) -> Q]
      BY <3>3, <3>6, <3>7
    <3>9. Increasing(t)
      <4> SUFFICES ASSUME NEW i \in 1..(k + 1), NEW j \in 1..(k + 1), i < j PROVE t[i] < t[j]
        BY DEF Increasing
      <4>1. i \in 1..k /\ t[i] = s[i] /\ s[i] \in R
        BY <3>6, <3>7
      <4>2. CASE j = k + 1
        BY <3>3, <4>1, <4>2
      <4>3. CASE j \in 1..k
        <5>1. t[j] = s[j]
          BY <4>3
        <5> QED BY <3>6, <4>1, <4>3, <5>1 DEF Increasing
      <4> QED BY <3>7, <4>2, <4>3
    <3> HIDE DEF t
    <3> QED BY <3>8, <3>9
  <2> HIDE DEF Lists
  <2>2. k + 1 \in 0..N
    BY <1>1
  <2> QED BY <2>1, <2>2
<1> HIDE DEF T
<1>4. N \in T
  <2>1. 0..N \subseteq T
    BY <1>1, <1>2, <1>3, UpTo
  <2> QED BY <1>1, <2>1
<1>5. Lists(S, N)
  <2> HIDE DEF Lists
  <2> QED BY <1>4 DEF T, N
<1> QED BY <1>5 DEF N

LEMMA AscendingFacts ==
    ASSUME NEW S \in SUBSET Int, IsFiniteSet(S)
    PROVE  /\ Ascending(S) \in [1..Cardinality(S) -> S]
           /\ Increasing(Ascending(S))
           /\ Len(Ascending(S)) = Cardinality(S)
           /\ \A x \in S : \E i \in 1..Cardinality(S) : Ascending(S)[i] = x
<1> DEFINE N == Cardinality(S)
           a == Ascending(S)
<1>1. N \in Nat
  BY FS_CardinalityType
<1>2. a \in [1..N -> S] /\ Increasing(a)
  <2>1. a = CHOOSE s \in [1..N -> S] : Increasing(s)
    BY DEF Ascending, Increasing
  <2>2. \E s \in [1..N -> S] : Increasing(s)
    BY AscendingExists
  <2> HIDE DEF a, N
  <2> QED BY <2>1, <2>2
<1> HIDE DEF a
<1>3. Len(a) = N
  <2> HIDE DEF N
  <2>1. a \in Seq(S)
    BY <1>1, <1>2
  <2> QED BY <1>1, <1>2, <2>1
<1>4. a \in Injection(1..N, S)
  <2> SUFFICES ASSUME NEW i \in 1..N, NEW j \in 1..N, a[i] = a[j] PROVE i = j
    BY <1>2 DEF Injection, IsInjective
  <2>1. a[i] \in Int /\ DOMAIN a = 1..N
    BY <1>2
  <2>2. ~ (i < j) /\ ~ (j < i)
    BY <1>2, <2>1 DEF Increasing
  <2> QED BY <1>1, <2>2
<1>5. Cardinality(1..N) = N
  BY <1>1, FS_Interval
<1>6. a \in Surjection(1..N, S)
  BY <1>4, <1>5, FS_Injection
<1>7. \A x \in S : \E i \in 1..N : a[i] = x
  BY <1>6 DEF Surjection
<1> QED BY <1>2, <1>3, <1>7 DEF a

\* The gaps between numbers add up to the distance of the ends.
LEMMA SumOfGaps ==
    ASSUME NEW c \in Nat \ {0}, NEW a \in [1..c -> Int]
    PROVE  LET gaps == [i \in 1..(c - 1) |-> a[i + 1] - a[i]]
           IN  gaps \in Seq(Int) /\ Len(gaps) = c - 1 /\ SumOf(gaps) = a[c] - a[1]
<1> DEFINE gaps == [i \in 1..(c - 1) |-> a[i + 1] - a[i]]
           N == c - 1
<1>1. N \in Nat /\ c = N + 1 /\ 1 \in 1..c /\ c \in 1..c
  OBVIOUS
<1>2. \A i \in 1..N : i \in 1..c /\ i + 1 \in 1..c
  OBVIOUS
<1>3. gaps \in [1..N -> Int] /\ \A i \in 1..N : gaps[i] = a[i + 1] - a[i]
  BY <1>2
<1> HIDE DEF gaps, N
<1>4. gaps \in Seq(Int) /\ Len(gaps) = N
  BY <1>1, <1>3
<1>5. PICK f \in [0..N -> Int] : /\ f[0] = 0
                                 /\ \A n \in 1..N : f[n] = f[n - 1] + gaps[n]
                                 /\ SumOf(gaps) = f[N]
  BY <1>4, SumUnfolds
<1> DEFINE S == {n \in 0..N : f[n] = a[n + 1] - a[1]}
<1>6. 0 \in S
  BY <1>1, <1>5
<1>7. ASSUME NEW n \in 0..(N - 1), n \in S PROVE n + 1 \in S
  <2>1. n + 1 \in 1..N /\ n + 1 \in 0..N /\ (n + 1) - 1 = n /\ n + 1 \in 1..c /\ (n + 1) + 1 \in 1..c
    BY <1>1
  <2>2. f[n + 1] = f[n] + gaps[n + 1] /\ gaps[n + 1] = a[(n + 1) + 1] - a[n + 1]
    BY <1>3, <1>5, <2>1
  <2>3. f[n] = a[n + 1] - a[1]
    BY <1>7
  <2>4. a[1] \in Int /\ a[n + 1] \in Int /\ a[(n + 1) + 1] \in Int
    BY <1>1, <2>1
  <2> QED BY <2>1, <2>2, <2>3, <2>4
<1> HIDE DEF S
<1>8. N \in S
  <2>1. 0..N \subseteq S
    BY <1>1, <1>6, <1>7, UpTo
  <2> QED BY <1>1, <2>1
<1>9. SumOf(gaps) = a[c] - a[1]
  BY <1>1, <1>5, <1>8 DEF S
<1> QED BY <1>4, <1>9 DEF gaps, N

LEMMA IntervalsFacts ==
    ASSUME NEW times, IsSeq(times), ToSet(times) \subseteq Int, times # << >>
    PROVE  LET T == ToSet(times)
               c == Cardinality(T)
           IN  /\ IsFiniteSet(T) /\ T # {} /\ c \in Nat \ {0}
               /\ Intervals(times) \in Seq(Int)
               /\ Len(Intervals(times)) = c - 1
               /\ SumOf(Intervals(times)) = Max(T) - Min(T)
<1> DEFINE T == ToSet(times)
           c == Cardinality(T)
           a == Ascending(T)
           gaps == [i \in 1..(c - 1) |-> a[i + 1] - a[i]]
<1>1. Len(times) \in Nat \ {0} /\ DOMAIN times = 1..Len(times) /\ \A i \in 1..Len(times) : times[i] \in T
  BY SeqFacts
<1>2. IsFiniteSet(T) /\ T # {}
  <2>1. T = {times[i] : i \in 1..Len(times)}
    BY <1>1 DEF ToSet
  <2>2. times \in Surjection(1..Len(times), T)
    <3>1. times \in [1..Len(times) -> T]
      BY <1>1 DEF IsSeq
    <3> HIDE DEF T
    <3> QED BY <2>1, <3>1 DEF Surjection
  <2>3. IsFiniteSet(1..Len(times))
    BY <1>1, FS_Interval
  <2>4. 1 \in 1..Len(times)
    BY <1>1
  <2> HIDE DEF T
  <2> QED BY <1>1, <2>2, <2>3, <2>4, FS_Surjection
<1>3. T \in SUBSET Int
  OBVIOUS
<1> HIDE DEF T
<1>4. c \in Nat \ {0}
  BY <1>2, FS_CardinalityType, FS_EmptySet
<1>5. /\ a \in [1..c -> T] /\ Increasing(a) /\ Len(a) = c
      /\ \A x \in T : \E i \in 1..c : a[i] = x
  BY <1>2, <1>3, AscendingFacts
<1>6. Intervals(times) = gaps
  BY <1>5 DEF Intervals, T
<1> HIDE DEF a, c
<1>7. a \in [1..c -> Int]
  BY <1>3, <1>5
<1>8. gaps \in Seq(Int) /\ Len(gaps) = c - 1 /\ SumOf(gaps) = a[c] - a[1]
  BY <1>4, <1>7, SumOfGaps, Zenon
<1> HIDE DEF gaps
<1>9. 1 \in 1..c /\ c \in 1..c /\ DOMAIN a = 1..c
  BY <1>4, <1>5
<1>10. \A i \in 1..c : a[1] <= a[i] /\ a[i] <= a[c]
  <2> SUFFICES ASSUME NEW i \in 1..c PROVE a[1] <= a[i] /\ a[i] <= a[c]
    OBVIOUS
  <2>1. a[1] \in Int /\ a[i] \in Int /\ a[c] \in Int
    BY <1>7, <1>9
  <2>2. a[1] <= a[i]
    <3>1. CASE i = 1
      BY <2>1, <3>1
    <3>2. CASE i # 1
      <4>1. 1 < i
        BY <1>4, <3>2
      <4> QED BY <1>5, <1>9, <2>1, <4>1 DEF Increasing
    <3> QED BY <3>1, <3>2
  <2>3. a[i] <= a[c]
    <3>1. CASE i = c
      BY <2>1, <3>1
    <3>2. CASE i # c
      <4>1. i < c
        BY <1>4, <3>2
      <4> QED BY <1>5, <1>9, <2>1, <4>1 DEF Increasing
    <3> QED BY <3>1, <3>2
  <2> QED BY <2>2, <2>3
<1>11. Max(T) = a[c] /\ Min(T) = a[1]
  <2>1. Max(T) \in T /\ Min(T) \in T /\ \A y \in T : Max(T) >= y /\ Min(T) <= y
    BY <1>2, <1>3, MaxMin
  <2>2. a[c] \in T /\ a[1] \in T
    BY <1>5, <1>9
  <2>3. \A y \in T : a[1] <= y /\ y <= a[c]
    BY <1>5, <1>10
  <2>4. Max(T) >= a[c] /\ a[c] >= Max(T) /\ Min(T) <= a[1] /\ a[1] <= Min(T) /\ Max(T) \in Int /\ Min(T) \in Int
    BY <1>3, <2>1, <2>2, <2>3
  <2>5. a[1] \in Int /\ a[c] \in Int
    BY <1>7, <1>9
  <2> QED BY <2>4, <2>5
<1>12. SumOf(gaps) = Max(T) - Min(T)
  BY <1>8, <1>11
<1> QED BY <1>2, <1>4, <1>6, <1>8, <1>12 DEF T, c

-----------------------------------------------------------------------------
(***************************************************************************)
(* The history of the C2 detector and the times it stands for.             *)
(***************************************************************************)
LEMMA TimesOfFacts ==
    ASSUME NEW flows, Timed(flows), NEW session
    PROVE  /\ IsSeq(TimesOf(session, flows)) /\ ToSet(TimesOf(session, flows)) \subseteq Int
           /\ ToSet(TimesOf(session, flows))
                = {flows[i].last : i \in {j \in DOMAIN flows : SessionOf(flows[j]) = session}}
           /\ Len(TimesOf(session, flows)) <= Len(flows)
           /\ session \in Sessions(flows) => TimesOf(session, flows) # << >>
<1> DEFINE P == {i \in DOMAIN flows : SessionOf(flows[i]) = session}
           now == Pick(flows, P)
           times == TimesOf(session, flows)
<1>1. IsSeq(flows) /\ Len(flows) \in Nat /\ DOMAIN flows = 1..Len(flows) /\ P \in SUBSET DOMAIN flows
      /\ \A i \in DOMAIN flows : flows[i].last \in Int
  BY SeqFacts DEF Timed
<1>2. times = [i \in DOMAIN now |-> now[i].last]
  BY DEF TimesOf
<1>3. session \in Sessions(flows) => P # {}
  BY DEF Sessions
<1> HIDE DEF P, times
<1>4. /\ IsSeq(now) /\ Len(now) = Cardinality(P) /\ ToSet(now) = {flows[i] : i \in P}
      /\ \A k \in DOMAIN now : \E i \in P : now[k] = flows[i]
  BY <1>1, PickFacts
<1> HIDE DEF now
<1>5. Len(now) \in Nat /\ DOMAIN now = 1..Len(now)
  BY <1>4, SeqFacts
<1>6. IsFiniteSet(P) /\ Cardinality(P) <= Len(flows)
  <2>1. IsFiniteSet(DOMAIN flows) /\ Cardinality(DOMAIN flows) = Len(flows)
    BY <1>1, FS_Interval
  <2> QED BY <1>1, <2>1, FS_Subset
<1>7. IsSeq(times) /\ Len(times) = Len(now)
  BY <1>2, <1>5 DEF IsSeq, ToSet
<1>8. ToSet(times) = {flows[i].last : i \in P}
  <2>1. \A i \in P : \E k \in DOMAIN now : now[k] = flows[i]
    BY <1>4 DEF ToSet
  <2> QED BY <1>2, <1>4, <2>1 DEF ToSet
<1>9. ToSet(times) \subseteq Int
  BY <1>1, <1>8
<1>10. session \in Sessions(flows) => times # << >>
  <2>1. session \in Sessions(flows) => Cardinality(P) # 0
    BY <1>3, <1>6, FS_EmptySet
  <2> QED BY <1>4, <1>7, <2>1
<1> QED BY <1>4, <1>6, <1>7, <1>8, <1>9, <1>10 DEF P, times

\* What a deque holds after more times are appended.
LEMMA DequeFacts ==
    ASSUME NEW n \in Nat, NEW past, IsSeq(past), NEW more, IsSeq(more)
    PROVE  LET next == LastOf(n, past \o more)
           IN  /\ IsSeq(next)
               /\ ToSet(next) \subseteq ToSet(past) \cup ToSet(more)
               /\ Len(next) <= Len(past) + Len(more)
               /\ Len(past) + Len(more) <= n => ToSet(next) = ToSet(past) \cup ToSet(more)
               /\ n # 0 /\ more # << >> => next # << >>
<1> DEFINE all == past \o more
           next == LastOf(n, all)
<1>1. IsSeq(all) /\ Len(all) = Len(past) + Len(more) /\ ToSet(all) = ToSet(past) \cup ToSet(more)
      /\ Len(past) \in Nat /\ Len(more) \in Nat /\ (more # << >> => Len(more) # 0)
  BY ConcatFacts, SeqFacts
<1> HIDE DEF all
<1>2. /\ IsSeq(next) /\ next \in Seq(ToSet(all))
      /\ Len(next) = IF Len(all) <= n THEN Len(all) ELSE n
      /\ \A i \in 1..Len(next) : /\ i + (Len(all) - Len(next)) \in DOMAIN all
                                 /\ next[i] = all[i + (Len(all) - Len(next))]
  BY <1>1, LastOfFacts
<1> HIDE DEF next
<1>3. ToSet(next) \subseteq ToSet(all)
  BY <1>2, SeqIs
<1>4. ASSUME Len(all) <= n PROVE ToSet(next) = ToSet(all)
  <2>1. Len(next) = Len(all) /\ DOMAIN all = 1..Len(all) /\ DOMAIN next = 1..Len(next) /\ Len(all) \in Nat
    BY <1>1, <1>2, <1>4, SeqFacts
  <2>2. \A i \in 1..Len(all) : next[i] = all[i]
    <3>1. \A i \in 1..Len(all) : i + (Len(all) - Len(next)) = i
      BY <2>1
    <3> QED BY <1>2, <2>1, <3>1
  <2> QED BY <2>1, <2>2 DEF ToSet
<1>5. Len(next) <= Len(past) + Len(more) /\ (n # 0 /\ more # << >> => Len(next) # 0)
  BY <1>1, <1>2
<1>6. n # 0 /\ more # << >> => next # << >>
  BY <1>2, <1>5, SeqFacts
<1> QED BY <1>1, <1>2, <1>3, <1>4, <1>5, <1>6 DEF next, all

\* The deques hold times at which their sessions were active, and all of them
\* as long as no deque was full.
Remembered ==
    /\ IsFiniteSet(sightings) /\ \A s \in sightings : s[2] \in Int
    /\ handed \in Nat
    /\ Sessions(window) \subseteq DOMAIN beacons
    /\ \A q \in Sessions(window) : beacons[q] # << >>
    /\ \A q : /\ IsSeq(Past(beacons, q))
              /\ ToSet(Past(beacons, q)) \subseteq Contacts(q)
              /\ Len(Past(beacons, q)) <= handed
              /\ handed <= Defaults.c2.history_limit
                   => ToSet(Past(beacons, q)) = Contacts(q)

LEMMA RememberedInit == Init => Remembered
<1> SUFFICES ASSUME Init PROVE Remembered
  OBVIOUS
<1>1. window = << >> /\ beacons = << >> /\ sightings = {} /\ handed = 0
  BY DEF Init
<1>2. \A q : Past(beacons, q) = << >>
  BY <1>1 DEF Past
<1>3. \A q : Contacts(q) = {}
  BY <1>1 DEF Contacts
<1>4. IsSeq(<< >>) /\ ToSet(<< >>) = {} /\ Len(<< >>) = 0
  BY DEF IsSeq, ToSet
<1>5. Sessions(window) = {}
  BY <1>1 DEF Sessions
<1>6. IsFiniteSet(sightings) /\ (\A s \in sightings : s[2] \in Int) /\ handed \in Nat
  BY <1>1, FS_EmptySet
<1>7. Sessions(window) \subseteq DOMAIN beacons /\ \A q \in Sessions(window) : beacons[q] # << >>
  BY <1>5
<1>8. ASSUME NEW q
      PROVE  /\ IsSeq(Past(beacons, q)) /\ ToSet(Past(beacons, q)) = Contacts(q)
             /\ Len(Past(beacons, q)) <= handed
  <2>1. Past(beacons, q) = << >> /\ Contacts(q) = {} /\ handed = 0
    BY <1>1, <1>2, <1>3
  <2>2. IsSeq(Past(beacons, q)) /\ ToSet(Past(beacons, q)) = Contacts(q) /\ Len(Past(beacons, q)) = 0
    BY <1>4, <2>1, Zenon
  <2> QED BY <2>1, <2>2
<1> QED BY <1>6, <1>7, <1>8 DEF Remembered

\* The sightings of a window.
LEMMA SightedFacts ==
    ASSUME NEW flows, Timed(flows)
    PROVE  /\ IsFiniteSet(Sighted(flows)) /\ \A s \in Sighted(flows) : s[2] \in Int
           /\ \A q : {s[2] : s \in {e \in Sighted(flows) : e[1] = q}} = ToSet(TimesOf(q, flows))
<1>1. IsSeq(flows) /\ Len(flows) \in Nat /\ DOMAIN flows = 1..Len(flows)
      /\ \A i \in DOMAIN flows : flows[i].last \in Int
  BY SeqFacts DEF Timed
<1>2. IsFiniteSet(Sighted(flows))
  <2> DEFINE N == Len(flows)
             f == [i \in 1..N |-> << SessionOf(flows[i]), flows[i].last >>]
  <2>1. Sighted(flows) = {f[i] : i \in 1..N}
    BY <1>1 DEF Sighted
  <2>2. f \in [1..N -> Sighted(flows)]
    BY <1>1 DEF Sighted
  <2>3. IsFiniteSet(1..N)
    BY <1>1, FS_Interval
  <2> HIDE DEF f, N
  <2>4. f \in Surjection(1..N, Sighted(flows))
    BY <2>1, <2>2 DEF Surjection
  <2> QED BY <2>3, <2>4, FS_Surjection
<1>3. \A s \in Sighted(flows) : s[2] \in Int
  BY <1>1 DEF Sighted
<1>4. ASSUME NEW q
      PROVE  {s[2] : s \in {e \in Sighted(flows) : e[1] = q}} = ToSet(TimesOf(q, flows))
  <2>1. ToSet(TimesOf(q, flows))
          = {flows[i].last : i \in {j \in DOMAIN flows : SessionOf(flows[j]) = q}}
    BY TimesOfFacts
  <2>2. \A i : << SessionOf(flows[i]), flows[i].last >>[1] = SessionOf(flows[i])
               /\ << SessionOf(flows[i]), flows[i].last >>[2] = flows[i].last
    OBVIOUS
  <2>3. \A e \in Sighted(flows) : \E i \in DOMAIN flows :
            e = << SessionOf(flows[i]), flows[i].last >> /\ e[1] = SessionOf(flows[i]) /\ e[2] = flows[i].last
    BY <2>2 DEF Sighted
  <2>4. \A i \in DOMAIN flows : << SessionOf(flows[i]), flows[i].last >> \in Sighted(flows)
    BY DEF Sighted
  <2>5. \A x \in {s[2] : s \in {e \in Sighted(flows) : e[1] = q}} : x \in ToSet(TimesOf(q, flows))
    BY <2>1, <2>3
  <2>6. \A x \in ToSet(TimesOf(q, flows)) : x \in {s[2] : s \in {e \in Sighted(flows) : e[1] = q}}
    BY <2>1, <2>2, <2>4
  <2> QED BY <2>5, <2>6
<1> QED BY <1>2, <1>3, <1>4

LEMMA RememberedNext == Typing /\ Judged /\ Remembered /\ [Next]_vars => Remembered'
<1> SUFFICES ASSUME Typing, Judged, Remembered, [Next]_vars PROVE Remembered'
  OBVIOUS
<1>1. ASSUME UNCHANGED << window, beacons, sightings, handed >> PROVE Remembered'
  BY <1>1 DEF Remembered, Contacts
<1>2. ASSUME NEW kept \in 0..Len(window), NEW records \in NewRecords, Analyse(kept, records)
      PROVE  Remembered'
  <2> DEFINE flows == LastOf(kept, window) \o records
             n == Defaults.c2.history_limit
             Now(q) == TimesOf(q, flows)
             Old(q) == Past(beacons, q)
             New(q) == Past(beacons', q)
  <2>1. /\ records # << >> /\ window' = flows /\ beacons' = Remember(beacons, flows)
        /\ sightings' = sightings \cup Sighted(flows) /\ handed' = handed + Len(flows)
    BY <1>2 DEF Analyse
  <2>2. Timed(flows) /\ n \in Nat /\ n # 0
    BY <2>1, AnalyseTimed, SessionAssumption DEF Judged
  <2> HIDE DEF flows
  <2>3. Len(flows) \in Nat /\ handed \in Nat
    BY <2>2, SeqFacts DEF Timed, Remembered
  <2>4. /\ IsFiniteSet(sightings') /\ handed' \in Nat /\ handed <= handed'
        /\ \A s \in sightings' : s[2] \in Int
    <3>1. IsFiniteSet(Sighted(flows)) /\ \A s \in Sighted(flows) : s[2] \in Int
      BY <2>2, SightedFacts
    <3>2. IsFiniteSet(sightings \cup Sighted(flows))
      BY <3>1, FS_Union DEF Remembered
    <3> QED BY <2>1, <2>3, <3>1, <3>2 DEF Remembered
  <2>5. ASSUME NEW q PROVE Contacts(q)' = Contacts(q) \cup ToSet(Now(q))
    <3>1. {s[2] : s \in {e \in Sighted(flows) : e[1] = q}} = ToSet(Now(q))
      BY <2>2, SightedFacts
    <3>2. Contacts(q)' = Contacts(q) \cup {s[2] : s \in {e \in Sighted(flows) : e[1] = q}}
      BY <2>1 DEF Contacts
    <3> QED BY <3>1, <3>2
  <2>6. /\ DOMAIN beacons' = DOMAIN beacons \cup Sessions(flows)
        /\ \A q \in DOMAIN beacons' : /\ New(q) = LastOf(n, Old(q) \o Now(q))
                                      /\ beacons'[q] = New(q)
        /\ \A q : q \notin DOMAIN beacons' => New(q) = << >> /\ Old(q) = << >>
    BY <2>1 DEF Remember, Past
  <2>7. ASSUME NEW q
        PROVE  /\ IsSeq(Old(q)) /\ ToSet(Old(q)) \subseteq Contacts(q) /\ Len(Old(q)) <= handed
               /\ handed <= n => ToSet(Old(q)) = Contacts(q)
    BY DEF Remembered
  <2>8. ASSUME NEW q
        PROVE  /\ IsSeq(Now(q)) /\ Len(Now(q)) <= Len(flows)
               /\ q \in Sessions(flows) => Now(q) # << >>
               /\ q \notin Sessions(flows) => ToSet(Now(q)) = {}
    <3>1. ToSet(Now(q)) = {flows[i].last : i \in {j \in DOMAIN flows : SessionOf(flows[j]) = q}}
      BY <2>2, TimesOfFacts
    <3>2. q \notin Sessions(flows) => ToSet(Now(q)) = {}
      BY <3>1 DEF Sessions
    <3> QED BY <2>2, <3>2, TimesOfFacts
  <2>9. ASSUME NEW q
        PROVE  /\ IsSeq(New(q)) /\ ToSet(New(q)) \subseteq Contacts(q)'
               /\ Len(New(q)) <= handed'
               /\ handed' <= n => ToSet(New(q)) = Contacts(q)'
               /\ q \in Sessions(flows) => New(q) # << >>
    <3> DEFINE C == Contacts(q)
               D == Contacts(q)'
               t == Now(q)
               o == Old(q)
               w == New(q)
    <3>1. /\ D = C \cup ToSet(t) /\ IsSeq(o) /\ ToSet(o) \subseteq C /\ Len(o) <= handed
          /\ (handed <= n => ToSet(o) = C) /\ IsSeq(t) /\ Len(t) <= Len(flows)
          /\ q \in Sessions(flows) => t # << >>
      BY <2>5, <2>7, <2>8
    <3>2. Len(o) \in Nat /\ Len(t) \in Nat
      BY <3>1, SeqFacts
    <3>3. CASE q \in DOMAIN beacons'
      <4>1. w = LastOf(n, o \o t)
        BY <2>6, <3>3
      <4> HIDE DEF C, D, t, o, w
      <4>2. /\ IsSeq(w) /\ ToSet(w) \subseteq ToSet(o) \cup ToSet(t)
            /\ Len(w) <= Len(o) + Len(t)
            /\ Len(o) + Len(t) <= n => ToSet(w) = ToSet(o) \cup ToSet(t)
            /\ n # 0 /\ t # << >> => w # << >>
        BY <2>2, <3>1, <4>1, DequeFacts, Zenon
      <4>3. Len(w) \in Nat
        BY <4>2, SeqFacts
      <4>4. Len(o) + Len(t) <= handed' /\ Len(w) <= handed' /\ (handed' <= n => handed <= n)
        BY <2>1, <2>2, <2>3, <3>1, <3>2, <4>2, <4>3
      <4>5. handed' <= n => Len(o) + Len(t) <= n
        BY <2>1, <2>2, <2>3, <3>2, <4>4
      <4>6. ToSet(w) \subseteq D /\ (handed' <= n => ToSet(w) = D)
        BY <3>1, <4>2, <4>4, <4>5
      <4> QED BY <2>2, <3>1, <4>2, <4>4, <4>6 DEF C, D, t, o, w
    <3>4. CASE q \notin DOMAIN beacons'
      <4>1. w = << >> /\ o = << >> /\ q \notin Sessions(flows) /\ ToSet(t) = {}
        BY <2>6, <2>8, <3>4
      <4>2. IsSeq(<< >>) /\ ToSet(<< >>) = {} /\ Len(<< >>) = 0
        BY DEF IsSeq, ToSet
      <4> HIDE DEF C, D, t, o, w
      <4>3. handed' <= n => handed <= n
        BY <2>1, <2>2, <2>3
      <4>4. IsSeq(w) /\ ToSet(w) \subseteq D /\ (handed' <= n => ToSet(w) = D)
        BY <3>1, <4>1, <4>2, <4>3
      <4>5. Len(w) <= handed'
        BY <2>4, <4>1, <4>2
      <4> QED BY <4>1, <4>4, <4>5 DEF C, D, t, o, w
    <3> QED BY <3>3, <3>4
  <2>10. Sessions(flows) \subseteq DOMAIN beacons' /\ \A q \in Sessions(flows) : beacons'[q] # << >>
    BY <2>6, <2>9
  <2> HIDE DEF Times, Old
  <2> QED BY <2>1, <2>4, <2>9, <2>10 DEF Remembered
<1>3. CASE UNCHANGED vars
  BY <1>1, <1>3 DEF vars
<1>4. CASE \E kind \in Kinds, time \in Times : Arrive(kind, time)
  BY <1>1, <1>4 DEF Arrive
<1>5. CASE ReadFails
  BY <1>1, <1>5 DEF ReadFails
<1> QED BY <1>2, <1>3, <1>4, <1>5 DEF Next

LEMMA RememberedAlways == Spec => []Remembered
<1>1. Init => Remembered
  BY RememberedInit
<1>2. Typing /\ Judged /\ Remembered /\ [Next]_vars => Remembered'
  BY RememberedNext
<1> QED BY <1>1, <1>2, TypingAlways, JudgedAlways, PTL DEF Spec

LEMMA ProductGrows ==
    ASSUME NEW k \in Nat, NEW m \in Nat, NEW n \in Nat, m <= n
    PROVE  k * m <= k * n
<1>1. PICK d \in Nat : n = m + d
  <2>1. n - m \in Nat /\ n = m + (n - m)
    OBVIOUS
  <2> QED BY <2>1
<1>2. k * d \in Nat /\ k * m \in Nat
  OBVIOUS
<1>3. k * n = k * m + k * d
  BY <1>1
<1> QED BY <1>2, <1>3

\* A periodic history has enough different times, far enough apart.
LEMMA PeriodicFacts ==
    ASSUME NEW times, IsSeq(times), ToSet(times) \subseteq Int, times # << >>, Periodic(times)
    PROVE  LET T == ToSet(times)
           IN  /\ IsFiniteSet(T) /\ T # {} /\ Cardinality(T) >= Defaults.c2.min_repeats
               /\ Max(T) - Min(T) >= Defaults.c2.min_interval * (Defaults.c2.min_repeats - 1)
<1> DEFINE T == ToSet(times)
           c == Cardinality(T)
           d == Intervals(times)
           k == Defaults.c2.min_interval
           m == Defaults.c2.min_repeats
           x == Defaults.c2.max_interval
<1>1. /\ IsFiniteSet(T) /\ T # {} /\ c \in Nat \ {0} /\ Len(d) = c - 1
      /\ SumOf(d) = Max(T) - Min(T)
  BY IntervalsFacts
<1>2. k \in Nat /\ m \in Nat /\ x \in Nat /\ m - 1 \in Nat \ {0}
  BY SessionAssumption
<1>3. Len(d) >= Max({1, m - 1}) /\ SumOf(d) \in (k * Len(d))..(x * Len(d))
  BY DEF Periodic
<1> HIDE DEF T, c, d, k, m, x
<1>4. c - 1 >= m - 1
  BY <1>1, <1>2, <1>3, MaxOfTwo
<1>5. k * (m - 1) <= k * (c - 1) /\ k * (m - 1) \in Int /\ k * (c - 1) \in Int
  BY <1>1, <1>2, <1>4, ProductGrows
<1>6. SumOf(d) \in Int /\ k * (c - 1) <= SumOf(d)
  BY <1>1, <1>3, <1>5
<1>7. SumOf(d) >= k * (m - 1)
  BY <1>5, <1>6
<1>8. c >= m
  BY <1>1, <1>2, <1>4
<1> QED BY <1>1, <1>7, <1>8 DEF T, c, k, m

\* A session is reported as a beacon only if it was active at enough different
\* times, far enough apart (c2_beacon.py): overlapping windows repeat nothing.
THEOREM BeaconsAreReal == Spec => []BeaconsReal
<1>1. Judged /\ Remembered => BeaconsReal
  <2> SUFFICES ASSUME Judged, Remembered, NEW r \in verdicts, r.detector = "c2_beacon"
      PROVE  \E session \in Sessions(window) :
                LET times == Contacts(session)
                IN  /\ session[1] = r.src /\ session[2] = r.dst
                    /\ Cardinality(times) >= Defaults.c2.min_repeats
                    /\ Max(times) - Min(times)
                         >= Defaults.c2.min_interval * (Defaults.c2.min_repeats - 1)
    BY Zenon DEF BeaconsReal
  <2>1. verdicts \in Reports(beacons, window)
    BY DEF Judged
  <2>2. r \in BeaconResults(beacons, window)
    BY <2>1, ReportsOf
  <2>3. PICK q \in Sessions(window) :
          /\ Periodic(beacons[q])
          /\ r = Result("c2_beacon", "C2_BEACONING", q[1], q[2], BeaconScore(beacons[q]), "none")
    BY <2>2, Zenon DEF BeaconResults
  <2>4. q[1] = r.src /\ q[2] = r.dst
    BY <2>3, ResultFields
  <2> DEFINE times == beacons[q]
             T == ToSet(times)
             C == Contacts(q)
             k == Defaults.c2.min_interval * (Defaults.c2.min_repeats - 1)
  <2>5. times = Past(beacons, q) /\ times # << >>
    BY <2>3 DEF Remembered, Past
  <2>6. IsSeq(times) /\ T \subseteq C
    BY <2>5 DEF Remembered
  <2>7. C \subseteq Int /\ IsFiniteSet(C)
    <3> DEFINE P == {e \in sightings : e[1] = q}
               f == [e \in P |-> e[2]]
    <3>1. C = {e[2] : e \in P} /\ C \subseteq Int
      BY DEF Contacts, Remembered
    <3>2. IsFiniteSet(P)
      BY FS_Subset DEF Remembered
    <3> HIDE DEF C, P
    <3>3. f \in Surjection(P, C)
      BY <3>1 DEF Surjection
    <3> QED BY <3>1, <3>2, <3>3, FS_Surjection
  <2> HIDE DEF C, times
  <2>8. /\ IsFiniteSet(T) /\ T # {} /\ Cardinality(T) >= Defaults.c2.min_repeats
        /\ Max(T) - Min(T) >= k
    <3>1. Periodic(times) /\ ToSet(times) \subseteq Int
      BY <2>3, <2>6, <2>7 DEF times
    <3> QED BY <2>5, <2>6, <3>1, PeriodicFacts
  <2>9. k \in Int /\ Defaults.c2.min_repeats \in Nat
    BY SessionAssumption
  <2> HIDE DEF T, k
  <2>10. Cardinality(C) >= Defaults.c2.min_repeats
    <3>1. Cardinality(T) <= Cardinality(C) /\ Cardinality(T) \in Nat /\ Cardinality(C) \in Nat
      BY <2>6, <2>7, <2>8, FS_Subset, FS_CardinalityType
    <3> QED BY <2>8, <2>9, <3>1
  <2>11. Max(C) - Min(C) >= k
    <3>1. C # {} /\ T \in SUBSET Int /\ C \in SUBSET Int
      BY <2>6, <2>7, <2>8
    <3>2. /\ Max(C) \in C /\ Min(C) \in C /\ \A y \in C : Max(C) >= y /\ Min(C) <= y
          /\ Max(T) \in T /\ Min(T) \in T
      BY <2>7, <2>8, <3>1, MaxMin
    <3>3. Max(C) >= Max(T) /\ Min(C) <= Min(T) /\ Max(T) \in Int /\ Min(T) \in Int
          /\ Max(C) \in Int /\ Min(C) \in Int
      BY <2>6, <3>1, <3>2
    <3> QED BY <2>8, <2>9, <3>3
  <2> QED BY <2>4, <2>10, <2>11 DEF C, k
<1> QED BY <1>1, JudgedAlways, RememberedAlways, PTL

\* Equal numbers add up to their number times each.
LEMMA SumOfEqual ==
    ASSUME NEW n \in Nat, NEW s \in Seq(Int), Len(s) = n, NEW k \in Int, \A i \in 1..n : s[i] = k
    PROVE  SumOf(s) = n * k
<1>1. PICK f \in [0..n -> Int] : /\ f[0] = 0
                                 /\ \A i \in 1..n : f[i] = f[i - 1] + s[i]
                                 /\ SumOf(s) = f[n]
  BY SumUnfolds
<1> DEFINE S == {i \in 0..n : f[i] = i * k}
<1>2. 0 \in S
  BY <1>1
<1>3. ASSUME NEW i \in 0..(n - 1), i \in S PROVE i + 1 \in S
  <2>1. i + 1 \in 1..n /\ i + 1 \in 0..n /\ (i + 1) - 1 = i /\ i \in Int
    OBVIOUS
  <2>2. f[i + 1] = i * k + k
    BY <1>1, <1>3, <2>1
  <2>3. (i + 1) * k = i * k + k
    BY <2>1
  <2> QED BY <2>1, <2>2, <2>3
<1> HIDE DEF S
<1>4. n \in S
  <2>1. 0..n \subseteq S
    BY <1>2, <1>3, UpTo
  <2> QED BY <2>1
<1> QED BY <1>1, <1>4 DEF S

\* At an even cadence every interval is the step.
LEMMA EvenIntervals ==
    ASSUME NEW times, IsSeq(times), ToSet(times) \subseteq Int, times # << >>,
           NEW step \in Nat \ {0},
           \A t \in ToSet(times) : \/ t = Max(ToSet(times))
                                   \/ /\ t + step \in ToSet(times)
                                      /\ \A u \in ToSet(times) : u <= t \/ u >= t + step
    PROVE  \A i \in 1..Len(Intervals(times)) : Intervals(times)[i] = step
<1> DEFINE T == ToSet(times)
           c == Cardinality(T)
           a == Ascending(T)
<1>1. /\ IsFiniteSet(T) /\ T # {} /\ c \in Nat \ {0} /\ Len(Intervals(times)) = c - 1
  BY IntervalsFacts
<1>2. /\ a \in [1..c -> T] /\ Increasing(a) /\ Len(a) = c
      /\ \A x \in T : \E i \in 1..c : a[i] = x
  BY <1>1, AscendingFacts
<1>3. Intervals(times) = [i \in 1..(c - 1) |-> a[i + 1] - a[i]]
  BY <1>2 DEF Intervals
<1>4. T \subseteq Int /\ Max(T) \in T /\ \A y \in T : Max(T) >= y
  BY <1>1, MaxMin
<1> HIDE DEF T, c, a
<1>5. ASSUME NEW i \in 1..(c - 1) PROVE a[i + 1] - a[i] = step
  <2>1. i \in 1..c /\ i + 1 \in 1..c /\ i < i + 1 /\ DOMAIN a = 1..c
    BY <1>1, <1>2
  <2>2. a[i] \in T /\ a[i + 1] \in T /\ a[i] < a[i + 1] /\ a[i] \in Int /\ a[i + 1] \in Int
    BY <1>2, <1>4, <2>1 DEF Increasing
  <2>3. a[i] # Max(T)
    BY <1>4, <2>2
  <2>4. a[i] + step \in T /\ \A u \in T : u <= a[i] \/ u >= a[i] + step
    BY <2>2, <2>3 DEF T
  <2>5. a[i + 1] >= a[i] + step
    BY <2>2, <2>4
  <2>6. PICK j \in 1..c : a[j] = a[i] + step
    BY <1>2, <2>4
  <2>7. a[i + 1] <= a[j]
    <3>1. CASE j <= i
      <4>1. a[j] <= a[i]
        <5>1. CASE j = i
          BY <2>2, <5>1
        <5>2. CASE j < i
          BY <1>2, <2>1, <2>2, <2>6, <5>2 DEF Increasing
        <5> QED BY <3>1, <5>1, <5>2
      <4> QED BY <2>2, <2>6, <4>1
    <3>2. CASE j = i + 1
      BY <2>2, <3>2
    <3>3. CASE j > i + 1
      BY <1>2, <2>1, <2>2, <2>6, <3>3 DEF Increasing
    <3> QED BY <2>1, <3>1, <3>2, <3>3
  <2> QED BY <2>2, <2>5, <2>6, <2>7
<1> QED BY <1>1, <1>3, <1>5

\* A history at an even cadence is periodic.
LEMMA EvenIsPeriodic ==
    ASSUME NEW times, IsSeq(times), ToSet(times) \subseteq Int, times # << >>,
           Cardinality(ToSet(times)) >= Defaults.c2.min_repeats, Even(ToSet(times))
    PROVE  Periodic(times)
<1> DEFINE T == ToSet(times)
           c == Cardinality(T)
           d == Intervals(times)
           n == Len(d)
           k == Defaults.c2.min_interval
           m == Defaults.c2.min_repeats
           x == Defaults.c2.max_interval
           v == Defaults.c2.max_cv
           sum == SumOf(d)
           squares == [i \in DOMAIN d |-> d[i] * d[i]]
<1>1. /\ IsFiniteSet(T) /\ T # {} /\ c \in Nat \ {0} /\ d \in Seq(Int) /\ n = c - 1
  BY IntervalsFacts
<1>2. k \in Nat /\ m \in Nat /\ x \in Nat /\ m - 1 \in Nat \ {0} /\ v \in Nat
  BY SessionAssumption
<1>3. PICK step \in (k..x) \ {0} :
        \A t \in T : \/ t = Max(T)
                     \/ t + step \in T /\ \A u \in T : u <= t \/ u >= t + step
  BY Zenon DEF Even
<1>4. step \in Nat \ {0} /\ k <= step /\ step <= x
  BY <1>2, <1>3
<1>5. \A i \in 1..n : d[i] = step
  <2> HIDE DEF d
  <2> QED BY <1>3, <1>4, EvenIntervals DEF d
<1>6. Len(times) >= m
  <2>1. Len(times) \in Nat /\ DOMAIN times = 1..Len(times)
    BY SeqFacts
  <2>2. times \in Surjection(1..Len(times), T)
    <3>1. times \in [1..Len(times) -> T]
      BY <2>1 DEF IsSeq
    <3>2. T = {times[i] : i \in 1..Len(times)}
      BY <2>1 DEF ToSet
    <3> HIDE DEF T
    <3> QED BY <3>1, <3>2 DEF Surjection
  <2>3. IsFiniteSet(1..Len(times)) /\ Cardinality(1..Len(times)) = Len(times)
    BY <2>1, FS_Interval
  <2>4. c <= Len(times)
    <3> HIDE DEF T
    <3> QED BY <2>2, <2>3, FS_Surjection
  <2>5. c >= m
    OBVIOUS
  <2> HIDE DEF c, m
  <2> QED BY <1>1, <1>2, <2>1, <2>4, <2>5
<1>7. c >= m
  OBVIOUS
<1>8. n \in Nat /\ sum = n * step
  <2>1. n \in Nat /\ d \in Seq(Int) /\ step \in Int
    BY <1>1, <1>4
  <2> HIDE DEF T, c, d, n
  <2>2. Len(d) = n
    BY DEF n
  <2> QED BY <1>5, <2>1, <2>2, SumOfEqual
<1>9. SumOfSquares(d) = n * (step * step)
  <2> HIDE DEF T, c, d
  <2>1. step * step \in Int
    BY <1>4
  <2>2. squares \in Seq(Int) /\ Len(squares) = n /\ \A i \in 1..n : squares[i] = step * step
    <3>1. DOMAIN d = 1..n
      BY <1>1
    <3>2. \A i \in 1..n : squares[i] = step * step
      BY <1>5, <3>1
    <3>3. DOMAIN squares = 1..n
      BY <3>1
    <3>4. squares = [i \in 1..n |-> squares[i]]
      BY <3>1
    <3> HIDE DEF squares, n
    <3>5. squares \in [1..n -> Int]
      BY <2>1, <3>2, <3>4
    <3> QED BY <1>8, <3>2, <3>5
  <2> HIDE DEF squares
  <2>3. SumOf(squares) = n * (step * step)
    BY <1>8, <2>1, <2>2, SumOfEqual
  <2> QED BY <2>3 DEF SumOfSquares, squares
<1> HIDE DEF T, c, d, k, m, x, v
<1>10. n >= Max({1, m - 1})
  BY <1>1, <1>2, <1>7, <1>8, MaxOfTwo
<1> HIDE DEF n, sum
<1>11. sum \in (k * n)..(x * n)
  <2>1. n * k <= n * step /\ n * step <= n * x
    BY <1>2, <1>4, <1>8, ProductGrows
  <2>2. n * k = k * n /\ n * x = x * n
    BY <1>2, <1>8
  <2>3. k * n \in Int /\ x * n \in Int /\ n * step \in Int
    BY <1>2, <1>4, <1>8
  <2> QED BY <1>8, <2>1, <2>2, <2>3
<1>12. n * SumOfSquares(d) - sum * sum = 0
  <2>1. n * (n * (step * step)) = (n * step) * (n * step)
    BY <1>4, <1>8
  <2>2. (n * step) * (n * step) \in Int
    BY <1>4, <1>8
  <2> QED BY <1>8, <1>9, <2>1, <2>2
<1>13. 10000 * Spread(d) <= v * v * sum * sum
  <2>1. sum \in Nat
    BY <1>4, <1>8
  <2>2. v * v * sum * sum >= 0
    BY <1>2, <2>1
  <2>3. Spread(d) = 0
    BY <1>12 DEF Spread, n, sum
  <2> QED BY <2>2, <2>3
<1> QED BY <1>6, <1>10, <1>11, <1>13 DEF Periodic, d, n, sum, k, m, x, v

\* A session of the window that was active at an even cadence, and often
\* enough, is reported (c2_beacon.py), however short the windows are.
THEOREM BeaconsAreSeen == Spec => []BeaconsSeen
<1>1. Judged /\ Remembered => BeaconsSeen
  <2> SUFFICES ASSUME Judged, Remembered, NEW q \in Sessions(window), "c2" \in Detectors,
                      handed <= Defaults.c2.history_limit,
                      Cardinality(Contacts(q)) >= Defaults.c2.min_repeats,
                      Even(Contacts(q))
      PROVE  Beaconing(q)
    BY DEF BeaconsSeen
  <2> DEFINE times == beacons[q]
             r == Result("c2_beacon", "C2_BEACONING", q[1], q[2], BeaconScore(beacons[q]), "none")
  <2>1. times = Past(beacons, q) /\ times # << >>
    BY DEF Remembered, Past
  <2>2. IsSeq(times) /\ ToSet(times) = Contacts(q)
    BY <2>1 DEF Remembered
  <2>3. Contacts(q) \subseteq Int
    BY DEF Contacts, Remembered
  <2>4. Periodic(times)
    <3> HIDE DEF times
    <3> QED BY <2>1, <2>2, <2>3, EvenIsPeriodic
  <2>5. r \in BeaconResults(beacons, window)
    BY <2>4, Zenon DEF BeaconResults
  <2>6. window # << >> /\ verdicts \in Reports(beacons, window)
    BY DEF Judged, Sessions
  <2>7. r \in verdicts
    <3> HIDE DEF r
    <3> QED BY <2>5, <2>6, ReportsOf
  <2>8. r.detector = "c2_beacon" /\ r.src = q[1] /\ r.dst = q[2]
    BY ResultFields
  <2> HIDE DEF r
  <2> QED BY <2>7, <2>8 DEF Beaconing
<1> QED BY <1>1, JudgedAlways, RememberedAlways, PTL

-----------------------------------------------------------------------------
(***************************************************************************)
(* The live table and an ACK on a known connection.                        *)
(***************************************************************************)
\* The span of a live flow is the times of two of the packets, in the order
\* of their arrival.
Framed ==
    /\ arrived \in Nat
    /\ \A i \in DOMAIN table : \E j, k \in DOMAIN packets :
          j <= k /\ table[i].first = packets[j].time /\ table[i].last = packets[k].time

LEMMA FramedNext == Typing /\ Framed /\ [Next]_vars => Framed'
<1> SUFFICES ASSUME Typing, Framed, [Next]_vars PROVE Framed'
  OBVIOUS
<1>1. ASSUME NEW kind \in Kinds, NEW time \in Times, Arrive(kind, time) PROVE Framed'
  <2> DEFINE p == At(kind, time)
             n == Len(packets)
  <2>1. /\ p \in Packet /\ p.time = time /\ packets' = Append(packets, p)
        /\ table' = table \/ table' = AddPacket(table, p)
    BY <1>1, ArriveTyped
  <2>2. arrived' = arrived + 1 /\ arrived' \in Nat
    BY <1>1 DEF Arrive, Framed
  <2> HIDE DEF p
  <2>3. packets \in Seq(Packet) /\ table \in Seq(State) /\ Len(table) <= MaxFlows
    BY DEF Typing
  <2>4. /\ n \in Nat /\ DOMAIN packets = 1..n /\ DOMAIN packets' = 1..(n + 1)
        /\ packets'[n + 1] = p /\ \A i \in 1..n : packets'[i] = packets[i]
    BY <2>1, <2>3
  <2> HIDE DEF n
  <2>5. /\ n + 1 \in 1..(n + 1) /\ n + 1 <= n + 1
        /\ \A i \in 1..n : i \in 1..(n + 1) /\ i <= n + 1
    BY <2>4
  <2>6. ASSUME NEW f, NEW j \in DOMAIN table, f.first = table[j].first,
               f.last = table[j].last \/ f.last = p.time
        PROVE  \E x, y \in DOMAIN packets' :
                  x <= y /\ f.first = packets'[x].time /\ f.last = packets'[y].time
    <3>1. PICK x \in 1..n, y \in 1..n :
            x <= y /\ table[j].first = packets[x].time /\ table[j].last = packets[y].time
      BY <2>4 DEF Framed
    <3>2. CASE f.last = table[j].last
      BY <2>4, <2>5, <2>6, <3>1, <3>2
    <3>3. CASE f.last = p.time
      BY <2>4, <2>5, <2>6, <3>1, <3>3
    <3> QED BY <2>6, <3>2, <3>3
  <2>7. ASSUME NEW i \in DOMAIN table'
        PROVE  \E x, y \in DOMAIN packets' :
                  x <= y /\ table'[i].first = packets'[x].time /\ table'[i].last = packets'[y].time
    <3>1. \/ \E j \in DOMAIN table : table'[i] = table[j] \/ table'[i] = Count(table[j], p)
          \/ table'[i] = Count(NewState(p), p)
      <4>1. CASE table' = table
        BY <2>7, <4>1
      <4>2. CASE table' = AddPacket(table, p)
        BY <2>1, <2>3, <2>7, <4>2, AddPacketFacts
      <4> QED BY <2>1, <4>1, <4>2
    <3>2. ASSUME NEW j \in DOMAIN table, table'[i] = Count(table[j], p)
          PROVE  table'[i].first = table[j].first /\ table'[i].last = p.time
      <4>1. table[j] \in State
        BY <2>3
      <4> QED BY <2>1, <3>2, <4>1, CountFacts
    <3>3. CASE table'[i] = Count(NewState(p), p)
      <4>1. NewState(p) \in State /\ NewState(p).first = p.time
        BY <2>1, NewStateTyped DEF NewState
      <4>2. table'[i].first = p.time /\ table'[i].last = p.time
        BY <2>1, <3>3, <4>1, CountFacts
      <4> QED BY <2>4, <2>5, <4>2
    <3> QED BY <2>6, <3>1, <3>2, <3>3
  <2> QED BY <2>2, <2>7 DEF Framed
<1>2. ASSUME Forget, arrived' = arrived PROVE Framed'
  BY <1>2 DEF Forget, Framed
<1>3. CASE UNCHANGED vars
  BY <1>3 DEF vars, Framed
<1>4. CASE \E kept \in 0..Len(window), records \in NewRecords : Analyse(kept, records)
  BY <1>2, <1>4 DEF Analyse
<1>5. CASE ReadFails
  BY <1>2, <1>5 DEF ReadFails
<1> QED BY <1>1, <1>3, <1>4, <1>5 DEF Next

LEMMA FramedAlways == Spec => []Framed
<1>1. Init => Framed
  BY DEF Init, Framed
<1>2. Typing /\ Framed /\ [Next]_vars => Framed'
  BY FramedNext
<1> QED BY <1>1, <1>2, TypingAlways, PTL DEF Spec

\* Two observations of the same flow, the second one later.
Aged(f, g) ==
    /\ g.src = f.src /\ g.dst = f.dst /\ g.proto = f.proto
    /\ g.first = f.first /\ g.syn_only = f.syn_only
    /\ f.first \in Int /\ f.last \in Int /\ g.last \in Int
    /\ f.first <= f.last /\ f.last <= g.last
    /\ f.syn_only \in Nat
    /\ f.ack \in Nat /\ g.ack \in Nat /\ f.ack <= g.ack
    /\ f.packets \in Nat \ {0} /\ g.packets \in Nat /\ f.packets <= g.packets
Older(s, t) ==
    /\ IsSeq(s) /\ IsSeq(t) /\ Len(s) = Len(t)
    /\ \A i \in 1..Len(s) : Aged(s[i], t[i])

LEMMA OlderPick ==
    ASSUME NEW s, NEW t, Older(s, t), NEW P \in SUBSET (1..Len(s))
    PROVE  Older(Pick(s, P), Pick(t, P)) /\ Len(Pick(s, P)) = Cardinality(P)
<1> DEFINE n == Len(s)
           a == Pick(s, P)
           b == Pick(t, P)
           e == Places(n, P)
<1>1. /\ IsSeq(s) /\ IsSeq(t) /\ n \in Nat /\ Len(t) = n
      /\ DOMAIN s = 1..n /\ DOMAIN t = 1..n
  BY SeqFacts DEF Older
<1>2. /\ a \in Seq(ToSet(s)) /\ Len(a) = Len(e) /\ e \in Seq(1..n)
      /\ \A k \in 1..Len(a) : a[k] = s[e[k]]
  BY <1>1, PickByPlaces
<1>3. /\ b \in Seq(ToSet(t)) /\ Len(b) = Len(e)
      /\ \A k \in 1..Len(b) : b[k] = t[e[k]]
  BY <1>1, PickByPlaces
<1>4. Len(a) = Cardinality(P)
  BY <1>1, PickFacts
<1> HIDE DEF a, b, e, n
<1>5. IsSeq(a) /\ IsSeq(b)
  BY <1>2, <1>3, SeqIs
<1>6. \A k \in 1..Len(a) : e[k] \in 1..n
  <2> DEFINE R == 1..n
  <2>1. e \in Seq(R) /\ Len(a) = Len(e)
    BY <1>2
  <2> HIDE DEF R
  <2>2. \A k \in 1..Len(e) : e[k] \in R
    BY <2>1
  <2> QED BY <2>1, <2>2 DEF R
<1>7. \A k \in 1..Len(a) : Aged(a[k], b[k])
  <2>1. \A i \in 1..n : Aged(s[i], t[i])
    BY DEF Older, n
  <2> QED BY <1>2, <1>3, <1>6, <2>1
<1> QED BY <1>2, <1>3, <1>4, <1>5, <1>7 DEF Older, a, b

\* What does not depend on the age, and the flows of a protocol or a host.
LEMMA OlderSame ==
    ASSUME NEW s, NEW t, Older(s, t)
    PROVE  /\ DOMAIN s = 1..Len(s) /\ DOMAIN t = 1..Len(s) /\ Len(s) \in Nat
           /\ Sources(t) = Sources(s) /\ Destinations(t) = Destinations(s)
           /\ \A d : Occurrences("dst", d, t) = Occurrences("dst", d, s)
           /\ MainTargets(t) = MainTargets(s)
           /\ Concentration("dst", t) = Concentration("dst", s)
           /\ \A d : Older(FlowsTo(d, s), FlowsTo(d, t))
           /\ \A x : Older(FlowsFrom(x, s), FlowsFrom(x, t))
           /\ \A proto : Older(FlowsOfProtocol(proto, s), FlowsOfProtocol(proto, t))
<1> DEFINE n == Len(s)
<1>1. IsSeq(s) /\ IsSeq(t) /\ n \in Nat /\ DOMAIN s = 1..n /\ DOMAIN t = 1..n /\ Len(t) = n
  BY SeqFacts DEF Older
<1>2. \A i \in 1..n : t[i].src = s[i].src /\ t[i].dst = s[i].dst /\ t[i].proto = s[i].proto
  BY DEF Older, Aged
<1> HIDE DEF n
<1>3. Sources(t) = Sources(s) /\ Destinations(t) = Destinations(s)
      /\ Distinct("dst", t) = Distinct("dst", s)
  BY <1>1, <1>2 DEF Sources, Destinations, Distinct
<1>4. \A d : Occurrences("dst", d, t) = Occurrences("dst", d, s)
  <2> TAKE d
  <2>1. {i \in DOMAIN t : t[i].dst = d} = {i \in DOMAIN s : s[i].dst = d}
    BY <1>1, <1>2
  <2> QED BY <2>1 DEF Occurrences
<1>5. MainTargets(t) = MainTargets(s)
  BY <1>3, <1>4 DEF MainTargets
<1>6. Concentration("dst", t) = Concentration("dst", s)
  <2>1. [v \in Distinct("dst", t) |-> Occurrences("dst", v, t)]
          = [v \in Distinct("dst", s) |-> Occurrences("dst", v, s)]
    BY <1>3, <1>4
  <2>2. Len(t) = Len(s)
    BY DEF Older
  <2> QED BY <2>1, <2>2 DEF Concentration
<1>7. ASSUME NEW P \in SUBSET (1..n) PROVE Older(Pick(s, P), Pick(t, P))
  BY <1>7, OlderPick DEF n
<1>8. ASSUME NEW d PROVE Older(FlowsTo(d, s), FlowsTo(d, t))
  <2> DEFINE P == {i \in 1..n : s[i].dst = d}
  <2>1. FlowsTo(d, s) = Pick(s, P)
    BY <1>1 DEF FlowsTo
  <2>2. {i \in DOMAIN t : t[i].dst = d} = P
    BY <1>1, <1>2
  <2>3. FlowsTo(d, t) = Pick(t, P)
    BY <2>2 DEF FlowsTo
  <2>4. P \in SUBSET (1..n)
    OBVIOUS
  <2> HIDE DEF P
  <2> QED BY <1>7, <2>1, <2>3, <2>4
<1>9. ASSUME NEW x PROVE Older(FlowsFrom(x, s), FlowsFrom(x, t))
  <2> DEFINE P == {i \in 1..n : s[i].src = x}
  <2>1. FlowsFrom(x, s) = Pick(s, P)
    BY <1>1 DEF FlowsFrom
  <2>2. {i \in DOMAIN t : t[i].src = x} = P
    BY <1>1, <1>2
  <2>3. FlowsFrom(x, t) = Pick(t, P)
    BY <2>2 DEF FlowsFrom
  <2>4. P \in SUBSET (1..n)
    OBVIOUS
  <2> HIDE DEF P
  <2> QED BY <1>7, <2>1, <2>3, <2>4
<1>10. ASSUME NEW proto PROVE Older(FlowsOfProtocol(proto, s), FlowsOfProtocol(proto, t))
  <2> DEFINE P == {i \in 1..n : s[i].proto = proto}
  <2>1. FlowsOfProtocol(proto, s) = Pick(s, P)
    BY <1>1 DEF FlowsOfProtocol
  <2>2. {i \in DOMAIN t : t[i].proto = proto} = P
    BY <1>1, <1>2
  <2>3. FlowsOfProtocol(proto, t) = Pick(t, P)
    BY <2>2 DEF FlowsOfProtocol
  <2>4. P \in SUBSET (1..n)
    OBVIOUS
  <2> HIDE DEF P
  <2> QED BY <1>7, <2>1, <2>3, <2>4
<1> QED BY <1>1, <1>3, <1>4, <1>5, <1>6, <1>8, <1>9, <1>10 DEF n

LEMMA SumGrows ==
    ASSUME NEW s \in Seq(Int), NEW t \in Seq(Int), Len(s) = Len(t),
           \A i \in 1..Len(s) : s[i] <= t[i]
    PROVE  SumOf(s) \in Int /\ SumOf(t) \in Int /\ SumOf(s) <= SumOf(t)
<1> DEFINE n == Len(s)
<1>1. n \in Nat /\ Len(t) = n /\ \A i \in 1..n : s[i] \in Int /\ t[i] \in Int /\ s[i] <= t[i]
  OBVIOUS
<1> HIDE DEF n
<1>2. PICK f \in [0..n -> Int] : /\ f[0] = 0 /\ SumOf(s) = f[n]
                                 /\ \A i \in 1..n : f[i] = f[i - 1] + s[i]
  BY SumUnfolds DEF n
<1>3. PICK g \in [0..n -> Int] : /\ g[0] = 0 /\ SumOf(t) = g[n]
                                 /\ \A i \in 1..n : g[i] = g[i - 1] + t[i]
  BY <1>1, SumUnfolds
<1> DEFINE S == {i \in 0..n : f[i] <= g[i]}
<1>4. 0 \in S
  BY <1>1, <1>2, <1>3
<1>5. ASSUME NEW i \in 0..(n - 1), i \in S PROVE i + 1 \in S
  <2>1. i + 1 \in 1..n /\ i + 1 \in 0..n /\ i \in 0..n /\ (i + 1) - 1 = i
    BY <1>1
  <2>2. f[i + 1] = f[i] + s[i + 1] /\ g[i + 1] = g[i] + t[i + 1]
    BY <1>2, <1>3, <2>1
  <2>3. f[i] \in Int /\ g[i] \in Int /\ f[i] <= g[i]
    BY <1>5, <2>1
  <2> QED BY <1>1, <2>1, <2>2, <2>3
<1> HIDE DEF S
<1>6. n \in S
  <2>1. 0..n \subseteq S
    BY <1>1, <1>4, <1>5, UpTo
  <2> QED BY <1>1, <2>1
<1>7. f[n] <= g[n]
  BY <1>6 DEF S
<1>8. f[n] \in Int /\ g[n] \in Int
  BY <1>1
<1> QED BY <1>2, <1>3, <1>7, <1>8

LEMMA SumAtLeast ==
    ASSUME NEW s \in Seq(Int), \A i \in 1..Len(s) : s[i] >= 1
    PROVE  SumOf(s) >= Len(s)
<1> DEFINE n == Len(s)
           ones == [i \in 1..n |-> 1]
<1>1. n \in Nat
  OBVIOUS
<1>2. ones \in [1..n -> Int] /\ \A i \in 1..n : ones[i] = 1
  OBVIOUS
<1> HIDE DEF n, ones
<1>3. ones \in Seq(Int) /\ Len(ones) = n
  BY <1>1, <1>2
<1>4. SumOf(ones) = n * 1
  <2>1. 1 \in Int
    OBVIOUS
  <2> QED BY <1>1, <1>2, <1>3, <2>1, SumOfEqual
<1>5. \A i \in 1..Len(ones) : ones[i] <= s[i]
  BY <1>2, <1>3 DEF n
<1>6. SumOf(ones) <= SumOf(s) /\ SumOf(s) \in Int
  BY <1>3, <1>5, SumGrows DEF n
<1> QED BY <1>1, <1>4, <1>6 DEF n

\* The totals of the flows of a sequence, and those observed later.
LEMMA OlderTotals ==
    ASSUME NEW s, NEW t, Older(s, t)
    PROVE  /\ SynOnly(t) = SynOnly(s) /\ SynOnly(s) \in Int
           /\ Total("ack", s) \in Int /\ Total("ack", t) \in Int
           /\ Total("ack", s) <= Total("ack", t)
           /\ TotalPackets(s) \in Int /\ TotalPackets(t) \in Int
           /\ TotalPackets(s) <= TotalPackets(t)
           /\ s # << >> => TotalPackets(s) >= 1
<1> DEFINE n == Len(s)
           Of(f, u) == [i \in DOMAIN u |-> u[i][f]]
<1>1. n \in Nat /\ DOMAIN s = 1..n /\ DOMAIN t = 1..n /\ IsSeq(s)
  BY OlderSame DEF Older
<1>2. \A i \in 1..n :
        /\ s[i].syn_only = t[i].syn_only /\ s[i].syn_only \in Int
        /\ s[i].ack \in Int /\ t[i].ack \in Int /\ s[i].ack <= t[i].ack
        /\ s[i].packets \in Int /\ t[i].packets \in Int /\ s[i].packets <= t[i].packets
        /\ s[i].packets >= 1
  BY DEF Older, Aged
<1> HIDE DEF n
<1>3. ASSUME NEW f, NEW u, DOMAIN u = 1..n, \A i \in 1..n : u[i][f] \in Int
      PROVE  /\ Of(f, u) \in Seq(Int) /\ Len(Of(f, u)) = n
             /\ \A i \in 1..n : Of(f, u)[i] = u[i][f]
  <2>1. Of(f, u) \in [1..n -> Int] /\ \A i \in 1..n : Of(f, u)[i] = u[i][f]
    BY <1>3
  <2> HIDE DEF Of
  <2>2. Of(f, u) \in Seq(Int) /\ Len(Of(f, u)) = n
    BY <1>1, <2>1
  <2> QED BY <2>1, <2>2
<1>4. \A f, u : Total(f, u) = SumOf(Of(f, u))
  BY DEF Total
<1> HIDE DEF Of
<1>5. SynOnly(t) = SynOnly(s) /\ SynOnly(s) \in Int
  <2> DEFINE a == Of("syn_only", s)
             b == Of("syn_only", t)
  <2>1. a \in Seq(Int) /\ Len(a) = n /\ \A i \in 1..n : a[i] = s[i].syn_only
    BY <1>1, <1>2, <1>3
  <2>2. b \in Seq(Int) /\ Len(b) = n /\ \A i \in 1..n : b[i] = t[i].syn_only
    BY <1>1, <1>2, <1>3
  <2> HIDE DEF a, b
  <2>3. (\A i \in 1..n : a[i] <= b[i]) /\ \A i \in 1..n : b[i] <= a[i]
    <3>1. \A i \in 1..n : a[i] = b[i] /\ a[i] \in Int
      BY <1>2, <2>1, <2>2
    <3> QED BY <3>1
  <2>4. SumOf(a) \in Int /\ SumOf(b) \in Int /\ SumOf(a) <= SumOf(b) /\ SumOf(b) <= SumOf(a)
    BY <2>1, <2>2, <2>3, SumGrows
  <2> QED BY <1>4, <2>4 DEF SynOnly, a, b
<1>6. Total("ack", s) \in Int /\ Total("ack", t) \in Int /\ Total("ack", s) <= Total("ack", t)
  <2> DEFINE a == Of("ack", s)
             b == Of("ack", t)
  <2>1. a \in Seq(Int) /\ Len(a) = n /\ \A i \in 1..n : a[i] = s[i].ack
    BY <1>1, <1>2, <1>3
  <2>2. b \in Seq(Int) /\ Len(b) = n /\ \A i \in 1..n : b[i] = t[i].ack
    BY <1>1, <1>2, <1>3
  <2> HIDE DEF a, b
  <2>3. \A i \in 1..n : a[i] <= b[i]
    BY <1>2, <2>1, <2>2
  <2>4. SumOf(a) \in Int /\ SumOf(b) \in Int /\ SumOf(a) <= SumOf(b)
    BY <2>1, <2>2, <2>3, SumGrows
  <2> QED BY <1>4, <2>4 DEF a, b
<1>7. /\ TotalPackets(s) \in Int /\ TotalPackets(t) \in Int /\ TotalPackets(s) <= TotalPackets(t)
      /\ s # << >> => TotalPackets(s) >= 1
  <2> DEFINE a == Of("packets", s)
             b == Of("packets", t)
  <2>1. a \in Seq(Int) /\ Len(a) = n /\ \A i \in 1..n : a[i] = s[i].packets
    BY <1>1, <1>2, <1>3
  <2>2. b \in Seq(Int) /\ Len(b) = n /\ \A i \in 1..n : b[i] = t[i].packets
    BY <1>1, <1>2, <1>3
  <2>3. TotalPackets(s) = SumOf(a) /\ TotalPackets(t) = SumOf(b)
    BY <1>4 DEF TotalPackets
  <2> HIDE DEF a, b
  <2>4. (\A i \in 1..n : a[i] <= b[i]) /\ \A i \in 1..n : a[i] >= 1
    BY <1>2, <2>1, <2>2
  <2>5. SumOf(a) \in Int /\ SumOf(b) \in Int /\ SumOf(a) <= SumOf(b) /\ SumOf(a) >= n
    BY <2>1, <2>2, <2>4, SumGrows, SumAtLeast
  <2>6. s # << >> => n # 0
    BY <1>1, SeqFacts DEF n
  <2> QED BY <1>1, <2>3, <2>5, <2>6
<1> QED BY <1>5, <1>6, <1>7

\* The window of later observations begins with the same packet and is no
\* narrower: a number of things reaches no rate in it that it did not reach.
LEMMA OlderRates ==
    ASSUME NEW s, NEW t, Older(s, t), NEW k \in Int, NEW rate \in Nat, RateReaches(k, t, rate)
    PROVE  RateReaches(k, s, rate)
<1> DEFINE n == Len(s)
           A == {s[i].first : i \in DOMAIN s}
           B == {t[i].first : i \in DOMAIN t}
           C == {s[i].last : i \in DOMAIN s}
           D == {t[i].last : i \in DOMAIN t}
<1>1. n \in Nat /\ DOMAIN s = 1..n /\ DOMAIN t = 1..n /\ IsSeq(s) /\ IsSeq(t) /\ Len(t) = n
  BY OlderSame DEF Older
<1>2. \A i \in 1..n : /\ t[i].first = s[i].first /\ s[i].first \in Int
                      /\ s[i].last \in Int /\ t[i].last \in Int
                      /\ s[i].first <= s[i].last /\ s[i].last <= t[i].last
  BY DEF Older, Aged
<1>3. t # << >> /\ WindowStart(t) <= WindowEnd(t) /\ 1000 * k >= rate * WindowMs(t)
  BY DEF RateReaches, WindowKnown
<1>4. n # 0 /\ s # << >>
  BY <1>1, <1>3, SeqFacts
<1> HIDE DEF n
<1>5. 1 \in 1..n /\ A = B
  BY <1>1, <1>2, <1>4
<1>6. A \in SUBSET Int /\ C \in SUBSET Int /\ D \in SUBSET Int /\ A # {} /\ C # {} /\ D # {}
  BY <1>1, <1>2, <1>5
<1>7. IsFiniteSet(A) /\ IsFiniteSet(C) /\ IsFiniteSet(D)
  <2>1. IsFiniteSet(1..n)
    BY <1>1, FS_Interval
  <2> DEFINE a == [i \in 1..n |-> s[i].first]
             c == [i \in 1..n |-> s[i].last]
             d == [i \in 1..n |-> t[i].last]
  <2>2. a \in Surjection(1..n, A)
    BY <1>1 DEF Surjection
  <2>3. c \in Surjection(1..n, C)
    BY <1>1 DEF Surjection
  <2>4. d \in Surjection(1..n, D)
    BY <1>1 DEF Surjection
  <2> HIDE DEF A, C, D, a, c, d
  <2> QED BY <2>1, <2>2, <2>3, <2>4, FS_Surjection
<1>8. /\ Min(A) \in A /\ \A y \in A : Min(A) <= y
      /\ Max(C) \in C /\ \A y \in C : Max(C) >= y
      /\ Max(D) \in D /\ \A y \in D : Max(D) >= y
  <2> HIDE DEF A, C, D
  <2> QED BY <1>6, <1>7, MaxMin
<1>9. Min(A) \in Int /\ Max(C) \in Int /\ Max(D) \in Int
  <2> HIDE DEF A, C, D
  <2> QED BY <1>6, <1>8
<1>10. Min(A) <= Max(C)
  <2>1. s[1].first \in A /\ s[1].last \in C
    BY <1>1, <1>5
  <2>2. Min(A) <= s[1].first /\ s[1].last <= Max(C)
    <3> HIDE DEF A, C
    <3> QED BY <1>2, <1>5, <1>8, <1>9, <2>1
  <2> HIDE DEF A, C
  <2> QED BY <1>2, <1>5, <1>9, <2>2
<1>11. Max(C) <= Max(D)
  <2>1. PICK i \in 1..n : Max(C) = s[i].last
    BY <1>1, <1>8
  <2>2. t[i].last \in D
    BY <1>1
  <2>3. Max(D) >= t[i].last
    <3> HIDE DEF D
    <3> QED BY <1>8, <2>2
  <2> HIDE DEF C, D
  <2> QED BY <1>2, <1>9, <2>1, <2>3
<1> DEFINE v == Max({MinWindowMs, Max(C) - Min(A)})
           w == Max({MinWindowMs, Max(D) - Min(A)})
<1>12. /\ WindowStart(s) = Min(A) /\ WindowEnd(s) = Max(C)
       /\ WindowMs(s) = v /\ WindowMs(t) = w
  BY <1>5 DEF WindowStart, WindowEnd, WindowMs
<1>13. v \in Nat /\ w \in Nat /\ v <= w
  <2> HIDE DEF A, C, D
  <2>1. MinWindowMs = 1 /\ Max(C) - Min(A) \in Int /\ Max(D) - Min(A) \in Int
    BY <1>9 DEF MinWindowMs
  <2>2. /\ v = IF 1 >= Max(C) - Min(A) THEN 1 ELSE Max(C) - Min(A)
        /\ w = IF 1 >= Max(D) - Min(A) THEN 1 ELSE Max(D) - Min(A)
    BY <2>1, MaxOfTwo
  <2> HIDE DEF v, w
  <2> QED BY <1>9, <1>11, <2>2
<1> HIDE DEF A, B, C, D, v, w
<1>14. rate * v <= rate * w /\ rate * v \in Int /\ rate * w \in Int
  BY <1>13, ProductGrows
<1>15. 1000 * k >= rate * v
  BY <1>3, <1>12, <1>14
<1> QED BY <1>4, <1>10, <1>12, <1>15 DEF RateReaches, WindowKnown

\* More packets make no new source with one packet only.
LEMMA OlderSpoofing ==
    ASSUME NEW s, NEW t, Older(s, t), NEW limit \in Nat, AtLeast(SpoofingLikelihood(t), limit)
    PROVE  AtLeast(SpoofingLikelihood(s), limit)
<1>1. Sources(t) = Sources(s) /\ \A x : Older(FlowsFrom(x, s), FlowsFrom(x, t))
  BY OlderSame
<1>2. DOMAIN s = 1..Len(s) /\ Len(s) \in Nat
  BY OlderSame
<1>3. IsFiniteSet(Sources(s))
  <2> DEFINE f == [i \in 1..Len(s) |-> s[i].src]
  <2>1. f \in Surjection(1..Len(s), Sources(s))
    BY <1>2 DEF Surjection, Sources, Distinct
  <2>2. IsFiniteSet(1..Len(s))
    BY <1>2, FS_Interval
  <2> HIDE DEF f
  <2> QED BY <2>1, <2>2, FS_Surjection
<1>4. ~ (Cardinality(Sources(s)) < Thresholds.syn_flood.min_flows)
  BY <1>1 DEF SpoofingLikelihood, NoRatio, AtLeast, Defined
<1>5. OnePacketSources(t) \subseteq OnePacketSources(s)
  <2> SUFFICES ASSUME NEW x \in Sources(s), TotalPackets(FlowsFrom(x, t)) = 1
      PROVE  TotalPackets(FlowsFrom(x, s)) = 1
    BY <1>1 DEF OnePacketSources
  <2> DEFINE a == FlowsFrom(x, s)
             P == {i \in DOMAIN s : s[i].src = x}
  <2>1. Older(a, FlowsFrom(x, t))
    BY <1>1
  <2>2. a # << >>
    <3>1. a = Pick(s, P) /\ P \in SUBSET (1..Len(s)) /\ P # {}
      BY <1>2 DEF FlowsFrom, Sources, Distinct
    <3> HIDE DEF P, a
    <3>2. Len(a) = Cardinality(P)
      BY <3>1, OlderPick
    <3>3. IsFiniteSet(P)
      <4>1. IsFiniteSet(1..Len(s))
        BY <1>2, FS_Interval
      <4> QED BY <3>1, <4>1, FS_Subset
    <3>4. Cardinality(P) # 0
      BY <3>1, <3>3, FS_EmptySet
    <3> QED BY <3>2, <3>4
  <2> HIDE DEF a
  <2>3. TotalPackets(a) \in Int /\ TotalPackets(a) <= TotalPackets(FlowsFrom(x, t))
        /\ TotalPackets(a) >= 1
    BY <2>1, <2>2, OlderTotals
  <2> QED BY <2>3 DEF a
<1>6. /\ Cardinality(OnePacketSources(t)) <= Cardinality(OnePacketSources(s))
      /\ Cardinality(OnePacketSources(t)) \in Nat /\ Cardinality(OnePacketSources(s)) \in Nat
      /\ Cardinality(Sources(s)) \in Nat
  <2>1. OnePacketSources(s) \in SUBSET Sources(s)
    BY DEF OnePacketSources
  <2> QED BY <1>3, <1>5, <2>1, FS_Subset, FS_CardinalityType
<1>7. AtLeast(OnePacketSourceRatio(t), limit)
  BY <1>1, <1>4 DEF SpoofingLikelihood
<1> DEFINE a == Cardinality(OnePacketSources(s))
           b == Cardinality(OnePacketSources(t))
           c == Cardinality(Sources(s))
<1>8. c > 0 /\ 100 * b >= limit * c
  BY <1>1, <1>7 DEF AtLeast, Defined, OnePacketSourceRatio, Ratio
<1>9. 100 * a >= limit * c
  <2>1. a \in Nat /\ b \in Nat /\ c \in Nat /\ b <= a /\ limit * c \in Int
    BY <1>6
  <2> HIDE DEF a, b, c
  <2> QED BY <1>8, <2>1
<1>10. AtLeast(OnePacketSourceRatio(s), limit)
  BY <1>8, <1>9 DEF AtLeast, Defined, OnePacketSourceRatio, Ratio
<1> QED BY <1>4, <1>10 DEF SpoofingLikelihood

\* What is no SYN flood with fewer ACKs is none later, if nothing else speaks
\* for it.
LEMMA OlderSynFlood ==
    ASSUME NEW s, NEW t, Older(s, t), NEW dst, NEW c \in BOOLEAN, NEW d \in BOOLEAN, d => c,
           SynFloodIf(dst, t, d) # {}
    PROVE  SynFloodIf(dst, s, c) # {}
<1> DEFINE F == SynFloodFactors(s, c)
           G == SynFloodFactors(t, d)
           only == SynOnly(s)
           ack == Total("ack", s)
           bck == Total("ack", t)
           max == Thresholds.syn_flood.max_ack_completion_ratio
           rate == Thresholds.syn_flood.min_syn_only_pps
<1>1. ~ (Len(t) < Thresholds.syn_flood.min_flows) /\ ~ (Cardinality(G) < 2)
  BY DEF SynFloodIf
<1>2. Len(s) = Len(t)
  BY DEF Older
<1>3. only = SynOnly(t) /\ only \in Int /\ ack \in Int /\ bck \in Int /\ ack <= bck
  BY OlderTotals
<1>4. rate \in Nat /\ max \in Nat
  BY ThresholdAssumption
<1>5. SynRateReaches(t, rate) => SynRateReaches(s, rate)
  BY <1>3, <1>4, OlderRates DEF SynRateReaches
<1>6. AtMost(AckCompletion(t), max) => AtMost(AckCompletion(s), max)
  <2> HIDE DEF only, ack, bck, max
  <2>1. AckCompletion(s) = << ack, only >> /\ AckCompletion(t) = << bck, only >>
    BY <1>3 DEF AckCompletion, Ratio, only, ack, bck
  <2>2. /\ AtMost(AckCompletion(s), max) <=> only > 0 /\ 100 * ack <= max * only
        /\ AtMost(AckCompletion(t), max) <=> only > 0 /\ 100 * bck <= max * only
    BY <2>1 DEF AtMost, Defined
  <2>3. max * only \in Int
    BY <1>3, <1>4
  <2> QED BY <1>3, <2>2, <2>3
<1>7. G \subseteq F
  <2>1. G = {e \in {"rate", "completion", "corroboration"} :
               CASE e = "rate" -> SynRateReaches(t, rate)
                 [] e = "completion" -> AtMost(AckCompletion(t), max)
                 [] e = "corroboration" -> d}
    BY DEF SynFloodFactors, SynFloodWeights
  <2>2. F = {e \in {"rate", "completion", "corroboration"} :
               CASE e = "rate" -> SynRateReaches(s, rate)
                 [] e = "completion" -> AtMost(AckCompletion(s), max)
                 [] e = "corroboration" -> c}
    BY DEF SynFloodFactors, SynFloodWeights
  <2> HIDE DEF F, G, rate, max
  <2> QED BY <1>5, <1>6, <2>1, <2>2
<1>8. IsFiniteSet(F) /\ F \subseteq {"rate", "completion", "corroboration"}
  <2>1. F \subseteq {"rate", "completion", "corroboration"}
    BY DEF SynFloodFactors, SynFloodWeights
  <2>2. IsFiniteSet({"rate"} \cup {"completion"} \cup {"corroboration"})
    BY FS_Singleton, FS_Union
  <2>3. {"rate", "completion", "corroboration"} = {"rate"} \cup {"completion"} \cup {"corroboration"}
    OBVIOUS
  <2> HIDE DEF F
  <2> QED BY <2>1, <2>2, <2>3, FS_Subset
<1>9. ~ (Cardinality(F) < 2)
  <2> HIDE DEF F, G
  <2>1. Cardinality(G) <= Cardinality(F) /\ Cardinality(F) \in Nat /\ Cardinality(G) \in Nat
    BY <1>7, <1>8, FS_Subset, FS_CardinalityType
  <2> QED BY <1>1, <2>1
<1>10. ~ (Len(s) < Thresholds.syn_flood.min_flows)
  BY <1>1, <1>2
<1> QED BY <1>9, <1>10 DEF SynFloodIf

\* Nobody is accused later who was not before.
LEMMA OlderAccused ==
    ASSUME NEW s, NEW t, Older(s, t)
    PROVE  SynAccused(t) \subseteq SynAccused(s)
<1> SUFFICES ASSUME NEW o \in SynFloodOutcomes(t), NEW r \in o PROVE r.dst \in SynAccused(s)
  BY DEF SynAccused, AccusedOf
<1> DEFINE a == FlowsOfProtocol(TCP, s)
           b == FlowsOfProtocol(TCP, t)
<1>1. Older(a, b)
  BY OlderSame
<1>2. o \in (IF b = << >> THEN {{}}
             ELSE {WithDestinations(SynFloodAggregate(b, main), SynFloodPerDestination(b)) :
                     main \in MainTargets(b)})
  BY Zenon DEF SynFloodOutcomes
<1>3. \A main \in MainTargets(a) : a # << >> =>
        WithDestinations(SynFloodAggregate(a, main), SynFloodPerDestination(a)) \in SynFloodOutcomes(s)
  BY Zenon DEF SynFloodOutcomes
<1>4. IsSeq(a)
  BY <1>1 DEF Older
<1>5. \A q \in UNION SynFloodOutcomes(s) : q.detector = "syn_flood" => q.dst \in SynAccused(s)
  BY Zenon DEF SynAccused, AccusedOf
<1> HIDE DEF a, b
<1>6. b # << >> /\ a # << >>
  <2>1. b # << >>
    BY <1>2
  <2> QED BY <1>1, <2>1, SeqFacts DEF Older
<1>7. PICK main \in MainTargets(b) :
        o = WithDestinations(SynFloodAggregate(b, main), SynFloodPerDestination(b))
  BY <1>2, <1>6, Zenon
<1>8. main \in MainTargets(a) /\ Concentration("dst", b) = Concentration("dst", a)
  BY <1>1, OlderSame
<1>9. ASSUME NEW dst, SynFloodTo(dst, FlowsTo(dst, a)) # {} PROVE dst \in SynAccused(s)
  <2>1. PICK u \in SynFloodOutcomes(s) : TRUE
    BY <1>3, <1>6, <1>8
  <2>2. dst \in AccusedOf(u, "syn_flood")
    BY <1>4, <1>9, SynNamed DEF a
  <2>3. AccusedOf(u, "syn_flood") \subseteq SynAccused(s)
    BY AccusedGrows, Zenon DEF SynAccused
  <2> QED BY <2>2, <2>3
<1>10. CASE r \in SynFloodAggregate(b, main)
  <2> DEFINE c == AtLeast(Concentration("dst", a),
                          Thresholds.syn_flood.destination_concentration_threshold)
  <2>1. /\ SynFloodAggregate(b, main) = SynFloodIf(main, b, c)
        /\ SynFloodAggregate(a, main) = SynFloodIf(main, a, c)
        /\ c \in BOOLEAN
    BY <1>8 DEF SynFloodAggregate, AtLeast, Defined
  <2> HIDE DEF c
  <2>2. SynFloodIf(main, a, c) # {} /\ r.dst = main
    BY <1>1, <1>10, <2>1, OlderSynFlood, AggregateNames
  <2>3. PICK q \in SynFloodIf(main, a, c) : TRUE
    BY <2>2
  <2>4. q.detector = "syn_flood" /\ q.dst = main
    BY AggregateNames
  <2>5. q \in UNION SynFloodOutcomes(s)
    <3>1. q \in WithDestinations(SynFloodAggregate(a, main), SynFloodPerDestination(a))
      BY <2>1 DEF WithDestinations
    <3> QED BY <1>3, <1>6, <1>8, <3>1
  <2> QED BY <1>5, <2>2, <2>4, <2>5
<1>11. CASE r \in SynFloodPerDestination(b)
  <2>1. PICK dst \in Destinations(b) : r \in SynFloodTo(dst, FlowsTo(dst, b))
    BY <1>11, Zenon DEF SynFloodPerDestination
  <2> DEFINE limit == Thresholds.syn_flood.min_spoofing_likelihood
             e == FlowsTo(dst, a)
             f == FlowsTo(dst, b)
             c == AtLeast(SpoofingLikelihood(e), limit)
             d == AtLeast(SpoofingLikelihood(f), limit)
  <2>2. Older(e, f)
    BY <1>1, OlderSame
  <2>3. d => c
    BY <2>2, OlderSpoofing, ThresholdAssumption
  <2>4. /\ SynFloodTo(dst, f) = SynFloodIf(dst, f, d)
        /\ SynFloodTo(dst, e) = SynFloodIf(dst, e, c)
    BY DEF SynFloodTo
  <2>5. c \in BOOLEAN /\ d \in BOOLEAN
    BY DEF AtLeast
  <2> HIDE DEF c, d, e, f
  <2>6. SynFloodIf(dst, f, d) # {}
    BY <2>1, <2>4 DEF f
  <2>7. SynFloodIf(dst, e, c) # {}
    BY <2>2, <2>3, <2>5, <2>6, OlderSynFlood
  <2>8. dst \in SynAccused(s)
    BY <1>9, <2>4, <2>7 DEF e
  <2>9. r.dst = dst
    BY <2>1, ToNames
  <2> QED BY <2>8, <2>9
<1> QED BY <1>7, <1>10, <1>11 DEF WithDestinations

\* A live record shows the fields of its state.
Counted ==
    { "src", "dst", "sport", "dport", "proto", "first", "last", "packets", "bytes",
      "src2dst_packets", "src2dst_bytes", "dst2src_packets", "dst2src_bytes",
      "syn", "syn_only", "syn_ack", "ack", "rst", "query", "nxdomain" }

LEMMA LiveRecordField ==
    ASSUME NEW state \in State, NEW index, NEW f \in Counted
    PROVE  LiveRecord(state, index)[f] = state[f]
<1> DEFINE r == [state EXCEPT !.tls = FALSE, !.quic = FALSE]
<1>1. f \in DOMAIN r /\ r[f] = state[f]
  BY DEF State, Counted
<1> HIDE DEF r
<1>2. \A s : Joined(r, s)[f] = r[f]
  BY <1>1, JoinedField
<1> QED BY <1>1, <1>2 DEF LiveRecord, r

LEMMA RecordsFacts ==
    ASSUME NEW t \in Seq(State)
    PROVE  /\ IsSeq(Records(t)) /\ Len(Records(t)) = Len(t) /\ DOMAIN Records(t) = 1..Len(t)
           /\ \A i \in 1..Len(t), f \in Counted : Records(t)[i][f] = t[i][f]
<1>1. DOMAIN t = 1..Len(t) /\ Len(t) \in Nat /\ \A i \in DOMAIN t : t[i] \in State
  OBVIOUS
<1>2. Records(t) = [i \in 1..Len(t) |-> LiveRecord(t[i], i - 1)]
  BY <1>1 DEF Records
<1>3. IsSeq(Records(t)) /\ DOMAIN Records(t) = 1..Len(t) /\ Len(Records(t)) = Len(t)
  BY <1>1, <1>2 DEF IsSeq, ToSet
<1>4. \A i \in 1..Len(t), f \in Counted : Records(t)[i][f] = t[i][f]
  BY <1>1, <1>2, LiveRecordField
<1> QED BY <1>3, <1>4

\* An ACK on a known connection ages its flows.
LEMMA AckAges ==
    ASSUME Typing, CountersAddUp, Framed, NEW p \in Packet,
           packets' = Append(packets, p), table' = AddPacket(table, p),
           p.proto = TCP, p.flags = {"A"}, StateOf(table, p) # {}, Ordered(packets')
    PROVE  Older(Records(table), Records(table'))
<1> DEFINE n == Len(table)
           m == Len(packets)
<1>1. /\ table \in Seq(State) /\ packets \in Seq(Packet) /\ n <= MaxFlows /\ n \in Nat
      /\ DOMAIN table = 1..n /\ \A i \in 1..n : table[i] \in State
  BY DEF Typing
<1>2. /\ table' \in Seq(State) /\ Len(table') = n
      /\ \A i \in 1..n : table'[i] = table[i] \/ table'[i] = Count(table[i], p)
  <2> DEFINE u == Updated(table, p)
  <2>1. /\ u \in Seq(State) /\ Len(u) = n
        /\ \A i \in 1..n : u[i] = IF i \in StateOf(table, p) THEN Count(table[i], p) ELSE table[i]
    BY <1>1, UpdatedFacts, Zenon
  <2>2. MaxFlows \in Nat /\ ~ (n > MaxFlows)
    BY <1>1, ExtractionAssumption
  <2>3. p.proto \in KnownProtocols
    BY DEF KnownProtocols
  <2> HIDE DEF u, n
  <2>4. table' = u
    BY <2>1, <2>2, <2>3 DEF AddPacket, u
  <2> QED BY <2>1, <2>4
<1>3. ASSUME NEW i \in 1..n
      PROVE  /\ table[i].first \in Int /\ table[i].last \in Int /\ p.time \in Int
             /\ table[i].first <= table[i].last /\ table[i].last <= p.time
  <2>1. PICK j \in 1..m, k \in 1..m :
          j <= k /\ table[i].first = packets[j].time /\ table[i].last = packets[k].time
    <3>1. DOMAIN packets = 1..m /\ i \in DOMAIN table
      BY <1>1
    <3>2. PICK j \in DOMAIN packets, k \in DOMAIN packets :
            j <= k /\ table[i].first = packets[j].time /\ table[i].last = packets[k].time
      BY <3>1 DEF Framed
    <3> QED BY <3>1, <3>2
  <2>2. /\ m \in Nat /\ packets'[m + 1] = p /\ packets'[j] = packets[j] /\ packets'[k] = packets[k]
        /\ DOMAIN packets' = 1..(m + 1)
    BY <1>1
  <2> HIDE DEF m
  <2>3. j \in 1..(m + 1) /\ k \in 1..(m + 1) /\ m + 1 \in 1..(m + 1) /\ k <= m + 1
    BY <2>2
  <2>4. packets[j].time <= packets[k].time /\ packets[k].time <= p.time
    BY <2>1, <2>2, <2>3 DEF Ordered
  <2>5. table[i].first \in Int /\ table[i].last \in Int
    BY <1>1 DEF State
  <2>6. p.time \in Int
    BY DEF Packet
  <2> QED BY <2>1, <2>4, <2>5, <2>6
<1> HIDE DEF n, m
<1>4. One(IsSynOnly(p)) = 0 /\ One(HasFlag(p, "A")) = 1
  BY DEF One, IsSynOnly, HasFlag
<1>5. ASSUME NEW i \in 1..n PROVE Aged(table[i], table'[i])
  <2> DEFINE f == table[i]
             g == table'[i]
  <2>1. /\ f \in State /\ f.first \in Int /\ f.last \in Int /\ f.first <= f.last
        /\ p.time \in Int /\ f.last <= p.time
    BY <1>1, <1>3
  <2>2. f.syn_only \in Nat /\ f.ack \in Nat /\ f.packets \in Nat
    BY <2>1 DEF State
  <2>3. f.packets \in Nat \ {0}
    BY <1>1, <2>2 DEF CountersAddUp
  <2>4. g = f \/ g = Count(f, p)
    BY <1>2
  <2> HIDE DEF f, g
  <2>5. ASSUME g = f PROVE Aged(f, g)
    BY <2>1, <2>2, <2>3, <2>5 DEF Aged
  <2>6. ASSUME g = Count(f, p) PROVE Aged(f, g)
    <3>1. /\ g.src = f.src /\ g.dst = f.dst /\ g.proto = f.proto /\ g.first = f.first
          /\ g.last = p.time /\ g.packets = f.packets + 1
          /\ g.syn_only = f.syn_only + One(IsSynOnly(p))
          /\ g.ack = f.ack + One(HasFlag(p, "A"))
      BY <2>1, <2>6, CountFacts
    <3> QED BY <1>4, <2>1, <2>2, <2>3, <3>1 DEF Aged
  <2>7. Aged(f, g)
    BY <2>4, <2>5, <2>6
  <2> QED BY <2>7 DEF f, g
<1>6. ASSUME NEW i \in 1..n PROVE Aged(Records(table)[i], Records(table')[i])
  <2> DEFINE f == Records(table)[i]
             g == Records(table')[i]
  <2>1. \A x \in Counted : f[x] = table[i][x] /\ g[x] = table'[i][x]
    BY <1>1, <1>2, RecordsFacts DEF n
  <2>2. Aged(table[i], table'[i])
    BY <1>5
  <2> HIDE DEF f, g
  <2>3. /\ f.src = table[i].src /\ f.dst = table[i].dst /\ f.proto = table[i].proto
        /\ f.first = table[i].first /\ f.last = table[i].last /\ f.syn_only = table[i].syn_only
        /\ f.ack = table[i].ack /\ f.packets = table[i].packets
        /\ g.src = table'[i].src /\ g.dst = table'[i].dst /\ g.proto = table'[i].proto
        /\ g.first = table'[i].first /\ g.last = table'[i].last /\ g.syn_only = table'[i].syn_only
        /\ g.ack = table'[i].ack /\ g.packets = table'[i].packets
    BY <2>1 DEF Counted
  <2>4. Aged(f, g)
    BY <2>2, <2>3 DEF Aged
  <2> QED BY <2>4 DEF f, g
<1>7. IsSeq(Records(table)) /\ IsSeq(Records(table')) /\ Len(Records(table)) = n /\ Len(Records(table')) = n
  BY <1>1, <1>2, RecordsFacts DEF n
<1> QED BY <1>6, <1>7 DEF Older

\* An ACK on a known connection never makes the SYN flood detector accuse a
\* host that it would not have accused before (syn_flood.py, add_packet).
THEOREM AckClears == Spec => HandshakeClears
<1> DEFINE Inv == Typing /\ CountersAddUp /\ Framed
<1>1. Inv /\ [Next]_vars =>
        [reader = "live" /\ AckArrives /\ Ordered(packets') =>
           SynAccused(Records(table')) \subseteq SynAccused(Records(table))]_vars
  <2> SUFFICES ASSUME Typing, CountersAddUp, Framed, Next, reader = "live", AckArrives,
                      Ordered(packets')
      PROVE  SynAccused(Records(table')) \subseteq SynAccused(Records(table))
    BY DEF vars
  <2>1. arrived \in Nat /\ arrived' = arrived + 1
    BY DEF Framed, AckArrives
  <2>2. arrived' # arrived
    BY <2>1
  <2>3. PICK kind \in Kinds, time \in Times : Arrive(kind, time)
    BY <2>2 DEF Next, Analyse, ReadFails
  <2> DEFINE p == At(kind, time)
  <2>4. p \in Packet /\ packets' = Append(packets, p) /\ table' = AddPacket(table, p)
    BY <2>3, ArriveTyped
  <2> HIDE DEF p
  <2>5. packets'[Len(packets')] = p
    BY <2>4 DEF Typing
  <2>6. p.proto = TCP /\ p.flags = {"A"} /\ StateOf(table, p) # {}
    BY <2>5 DEF AckArrives
  <2>7. Older(Records(table), Records(table'))
    BY <2>4, <2>6, AckAges
  <2> QED BY <2>7, OlderAccused
<1>2. Spec => []Inv
  BY TypingAlways, CountersAgree, FramedAlways, PTL
<1>3. Spec => [][Next]_vars
  BY PTL DEF Spec
<1> HIDE DEF Inv
<1> QED BY <1>1, <1>2, <1>3, PTL DEF HandshakeClears

-----------------------------------------------------------------------------
(***************************************************************************)
(* What a reader finds in a file, packet by packet.                        *)
(***************************************************************************)
\* Picking from one element more.
LEMMA PickAppend ==
    ASSUME NEW S, NEW s \in Seq(S), NEW x \in S, NEW P, NEW Q,
           \A i \in 1..Len(s) : i \in P <=> i \in Q
    PROVE  Pick(Append(s, x), Q)
             = IF Len(s) + 1 \in Q THEN Append(Pick(s, P), x) ELSE Pick(s, P)
<1> DEFINE n == Len(s)
           t == Append(s, x)
<1>1. /\ n \in Nat /\ IsSeq(s) /\ t \in Seq(S) /\ Len(t) = n + 1 /\ t[n + 1] = x
      /\ \A i \in 1..n : t[i] = s[i]
  BY SeqIs
<1>2. IsSeq(t)
  BY <1>1, SeqIs
<1> HIDE DEF n, t
<1>3. PICK f \in [0..n -> Seq(ToSet(s))] :
        /\ f[0] = << >>
        /\ \A i \in 1..n : f[i] = IF i \in P THEN Append(f[i - 1], s[i]) ELSE f[i - 1]
        /\ Pick(s, P) = f[n]
  BY <1>1, PickUnfolds DEF n
<1>4. PICK g \in [0..(n + 1) -> Seq(ToSet(t))] :
        /\ g[0] = << >>
        /\ \A i \in 1..(n + 1) : g[i] = IF i \in Q THEN Append(g[i - 1], t[i]) ELSE g[i - 1]
        /\ Pick(t, Q) = g[n + 1]
  <2> DEFINE m == Len(t)
  <2>1. \E g \in [0..m -> Seq(ToSet(t))] :
          /\ g[0] = << >>
          /\ \A i \in 1..m : g[i] = IF i \in Q THEN Append(g[i - 1], t[i]) ELSE g[i - 1]
          /\ Pick(t, Q) = g[m]
    BY <1>2, PickUnfolds
  <2>2. m = n + 1
    BY <1>1
  <2> HIDE DEF m
  <2> QED BY <2>1, <2>2
<1> DEFINE T == {i \in 0..n : f[i] = g[i]}
<1>5. 0 \in T
  BY <1>1, <1>3, <1>4
<1>6. ASSUME NEW i \in 0..(n - 1), i \in T PROVE i + 1 \in T
  <2>1. i + 1 \in 1..n /\ i + 1 \in 1..(n + 1) /\ i + 1 \in 0..n /\ (i + 1) - 1 = i
    BY <1>1
  <2>2. f[i] = g[i] /\ t[i + 1] = s[i + 1] /\ (i + 1 \in P <=> i + 1 \in Q)
    BY <1>1, <1>6, <2>1 DEF n
  <2> QED BY <1>3, <1>4, <2>1, <2>2
<1> HIDE DEF T
<1>7. 0..n \subseteq T
  BY <1>1, <1>5, <1>6, UpTo
<1>8. f[n] = g[n]
  BY <1>1, <1>7 DEF T
<1>9. n + 1 \in 1..(n + 1) /\ (n + 1) - 1 = n
  BY <1>1
<1>10. Pick(t, Q) = IF n + 1 \in Q THEN Append(Pick(s, P), x) ELSE Pick(s, P)
  BY <1>1, <1>3, <1>4, <1>8, <1>9
<1> QED BY <1>10 DEF n, t

\* Picking everything, and nothing.
LEMMA PickAll ==
    ASSUME NEW S, NEW s \in Seq(S), NEW P, 1..Len(s) \subseteq P
    PROVE  Pick(s, P) = s
<1> DEFINE n == Len(s)
<1>1. n \in Nat /\ IsSeq(s) /\ DOMAIN s = 1..n
  BY SeqIs
<1>2. PICK f \in [0..n -> Seq(ToSet(s))] :
        /\ f[0] = << >>
        /\ \A i \in 1..n : f[i] = IF i \in P THEN Append(f[i - 1], s[i]) ELSE f[i - 1]
        /\ Pick(s, P) = f[n]
  BY <1>1, PickUnfolds
<1> DEFINE Whole(i) == Len(f[i]) = i /\ \A k \in 1..i : f[i][k] = s[k]
           T == {i \in 0..n : Whole(i)}
<1>3. 0 \in T
  BY <1>1, <1>2
<1>4. ASSUME NEW i \in 0..(n - 1), i \in T PROVE i + 1 \in T
  <2>1. i \in 0..n /\ i + 1 \in 1..n /\ i + 1 \in 0..n /\ (i + 1) - 1 = i /\ i + 1 \in P
    BY <1>1
  <2>2. f[i + 1] = Append(f[i], s[i + 1]) /\ f[i] \in Seq(ToSet(s)) /\ s[i + 1] \in ToSet(s)
    BY <1>1, <1>2, <2>1 DEF ToSet
  <2>3. Whole(i)
    BY <1>4
  <2>4. /\ Len(f[i + 1]) = i + 1 /\ f[i + 1][i + 1] = s[i + 1]
        /\ \A k \in 1..i : f[i + 1][k] = s[k]
    BY <2>1, <2>2, <2>3
  <2>5. \A k \in 1..(i + 1) : k \in 1..i \/ k = i + 1
    BY <2>1
  <2>6. Whole(i + 1)
    BY <2>4, <2>5
  <2> QED BY <2>1, <2>6
<1> HIDE DEF T, Whole
<1>5. 0..n \subseteq T
  BY <1>1, <1>3, <1>4, UpTo
<1>6. Whole(n) /\ f[n] \in Seq(ToSet(s))
  BY <1>1, <1>2, <1>5 DEF T
<1>7. f[n] = s
  BY <1>1, <1>6 DEF Whole
<1> QED BY <1>2, <1>7

LEMMA PickNone ==
    ASSUME NEW S, NEW s \in Seq(S)
    PROVE  Pick(s, {}) = << >>
<1>1. IsSeq(s) /\ {} \in SUBSET DOMAIN s
  BY SeqIs
<1>2. Pick(s, {}) \in Seq(ToSet(s)) /\ Len(Pick(s, {})) = 0
  BY <1>1, PickFacts, FS_EmptySet
<1> QED BY <1>2

\* The sum of one number more.
LEMMA SumAppend ==
    ASSUME NEW s \in Seq(Int), NEW x \in Int
    PROVE  SumOf(Append(s, x)) = SumOf(s) + x /\ SumOf(s) \in Int
<1> DEFINE n == Len(s)
           t == Append(s, x)
<1>1. /\ n \in Nat /\ t \in Seq(Int) /\ Len(t) = n + 1 /\ t[n + 1] = x
      /\ \A i \in 1..n : t[i] = s[i]
  OBVIOUS
<1> HIDE DEF n, t
<1>3. PICK f \in [0..n -> Int] :
        /\ f[0] = 0
        /\ \A i \in 1..n : f[i] = f[i - 1] + s[i]
        /\ SumOf(s) = f[n]
  BY <1>1, SumUnfolds DEF n
<1>4. PICK g \in [0..(n + 1) -> Int] :
        /\ g[0] = 0
        /\ \A i \in 1..(n + 1) : g[i] = g[i - 1] + t[i]
        /\ SumOf(t) = g[n + 1]
  <2> DEFINE m == Len(t)
  <2>1. \E g \in [0..m -> Int] :
          /\ g[0] = 0
          /\ \A i \in 1..m : g[i] = g[i - 1] + t[i]
          /\ SumOf(t) = g[m]
    BY <1>1, SumUnfolds
  <2>2. m = n + 1
    BY <1>1
  <2> HIDE DEF m
  <2> QED BY <2>1, <2>2
<1> DEFINE T == {i \in 0..n : f[i] = g[i]}
<1>5. 0 \in T
  BY <1>1, <1>3, <1>4
<1>6. ASSUME NEW i \in 0..(n - 1), i \in T PROVE i + 1 \in T
  <2>1. i + 1 \in 1..n /\ i + 1 \in 1..(n + 1) /\ i + 1 \in 0..n /\ (i + 1) - 1 = i
    BY <1>1
  <2>2. f[i] = g[i] /\ t[i + 1] = s[i + 1]
    BY <1>1, <1>6, <2>1
  <2> QED BY <1>3, <1>4, <2>1, <2>2
<1> HIDE DEF T
<1>7. 0..n \subseteq T
  BY <1>1, <1>5, <1>6, UpTo
<1>8. f[n] = g[n] /\ f[n] \in Int
  BY <1>1, <1>3, <1>7 DEF T
<1>9. n + 1 \in 1..(n + 1) /\ (n + 1) - 1 = n
  BY <1>1
<1>10. SumOf(t) = SumOf(s) + x
  BY <1>1, <1>3, <1>4, <1>8, <1>9
<1> QED BY <1>3, <1>8, <1>10 DEF n, t

\* The bytes of one packet more.
LEMMA LengthAppend ==
    ASSUME NEW ps \in Seq(Packet), NEW p \in Packet
    PROVE  /\ Total("length", Append(ps, p)) = Total("length", ps) + p.length
           /\ Total("length", ps) \in Int
<1> DEFINE n == Len(ps)
           s == [i \in DOMAIN ps |-> ps[i].length]
           t == [i \in DOMAIN Append(ps, p) |-> Append(ps, p)[i].length]
<1>2. \A q \in Packet : q.length \in Int
  BY DEF Packet
<1>1. n \in Nat /\ DOMAIN ps = 1..n /\ \A i \in 1..n : ps[i].length \in Int
  BY <1>2
<1>3. s \in Seq(Int) /\ Len(s) = n
  BY <1>1
<1>4. t = Append(s, p.length)
  <2>1. /\ DOMAIN Append(ps, p) = 1..(n + 1) /\ Append(ps, p)[n + 1] = p
        /\ \A i \in 1..n : Append(ps, p)[i] = ps[i]
    OBVIOUS
  <2>2. t = [i \in 1..(n + 1) |-> IF i = n + 1 THEN p.length ELSE ps[i].length]
    BY <1>1, <2>1
  <2>3. Append(s, p.length) = [i \in 1..(n + 1) |-> IF i = n + 1 THEN p.length ELSE s[i]]
    BY <1>3
  <2> QED BY <1>1, <2>2, <2>3
<1> HIDE DEF s, t
<1>5. SumOf(t) = SumOf(s) + p.length /\ SumOf(s) \in Int
  BY <1>2, <1>3, <1>4, SumAppend
<1> QED BY <1>5 DEF Total, s, t

\* One place more that passes a test, or does not.
LEMMA MarkedGrows ==
    ASSUME NEW n \in Nat, NEW A \in SUBSET (1..n), NEW test, NEW B,
           B = IF test THEN A \cup {n + 1} ELSE A
    PROVE  Cardinality(B) = Cardinality(A) + One(test)
<1>1. IsFiniteSet(A) /\ Cardinality(A) \in Nat
  <2>1. IsFiniteSet(1..n)
    BY FS_Interval
  <2> QED BY <2>1, FS_Subset, FS_CardinalityType
<1>2. n + 1 \notin A
  OBVIOUS
<1>3. Cardinality(A \cup {n + 1}) = Cardinality(A) + 1
  BY <1>1, <1>2, FS_AddElement
<1> QED BY <1>1, <1>3 DEF One

\* The packets of a flow with a TCP flag, and with the two flags together.
WithFlag(ps, flag) == {i \in DOMAIN ps : HasFlag(ps[i], flag)}
SynOnlys(ps)       == {i \in DOMAIN ps : IsSynOnly(ps[i])}
SynAcks(ps)        == {i \in DOMAIN ps : IsSynAck(ps[i])}

LEMMA FlagsAppend ==
    ASSUME NEW ps \in Seq(Packet), NEW p \in Packet
    PROVE  LET qs == Append(ps, p)
           IN  /\ \A flag : Cardinality(WithFlag(qs, flag))
                              = Cardinality(WithFlag(ps, flag)) + One(HasFlag(p, flag))
               /\ Cardinality(SynOnlys(qs)) = Cardinality(SynOnlys(ps)) + One(IsSynOnly(p))
               /\ Cardinality(SynAcks(qs)) = Cardinality(SynAcks(ps)) + One(IsSynAck(p))
<1> DEFINE n == Len(ps)
           qs == Append(ps, p)
<1>1. /\ n \in Nat /\ DOMAIN ps = 1..n /\ DOMAIN qs = 1..(n + 1) /\ qs[n + 1] = p
      /\ \A i \in 1..n : qs[i] = ps[i]
  OBVIOUS
<1>2. 1..(n + 1) = (1..n) \cup {n + 1}
  BY <1>1
<1> HIDE DEF n, qs
<1>3. ASSUME NEW flag
      PROVE  Cardinality(WithFlag(qs, flag)) = Cardinality(WithFlag(ps, flag)) + One(HasFlag(p, flag))
  <2>1. /\ WithFlag(ps, flag) \in SUBSET (1..n)
        /\ WithFlag(qs, flag) = IF HasFlag(p, flag) THEN WithFlag(ps, flag) \cup {n + 1}
                                ELSE WithFlag(ps, flag)
    BY <1>1, <1>2 DEF WithFlag
  <2> QED BY <1>1, <2>1, MarkedGrows
<1>4. /\ SynOnlys(ps) \in SUBSET (1..n)
      /\ SynOnlys(qs) = IF IsSynOnly(p) THEN SynOnlys(ps) \cup {n + 1} ELSE SynOnlys(ps)
  BY <1>1, <1>2 DEF SynOnlys
<1>5. /\ SynAcks(ps) \in SUBSET (1..n)
      /\ SynAcks(qs) = IF IsSynAck(p) THEN SynAcks(ps) \cup {n + 1} ELSE SynAcks(ps)
  BY <1>1, <1>2 DEF SynAcks
<1>6. /\ Cardinality(SynOnlys(qs)) = Cardinality(SynOnlys(ps)) + One(IsSynOnly(p))
      /\ Cardinality(SynAcks(qs)) = Cardinality(SynAcks(ps)) + One(IsSynAck(p))
  BY <1>1, <1>4, <1>5, MarkedGrows
<1> QED BY <1>3, <1>6 DEF qs

\* What one packet more adds to those picked.
LEMMA PickedGrow ==
    ASSUME NEW ps \in Seq(Packet), NEW p \in Packet, NEW P \in SUBSET DOMAIN ps, NEW Q,
           \A i \in 1..Len(ps) : i \in P <=> i \in Q
    PROVE  LET qs   == Append(ps, p)
               last == Len(ps) + 1
           IN  /\ Len(Pick(qs, Q)) = Len(Pick(ps, P)) + One(last \in Q)
               /\ Total("length", Pick(qs, Q))
                    = Total("length", Pick(ps, P)) + When(last \in Q, p.length)
<1> DEFINE s == Pick(ps, P)
           t == Pick(Append(ps, p), Q)
<1>1. t = IF Len(ps) + 1 \in Q THEN Append(s, p) ELSE s
  BY PickAppend
<1>2. s \in Seq(Packet)
  <2>1. IsSeq(ps) /\ ToSet(ps) \subseteq Packet
    BY SeqIs
  <2>2. s \in Seq(ToSet(ps))
    BY <2>1, PickFacts
  <2> HIDE DEF s
  <2> QED BY <2>1, <2>2
<1> HIDE DEF s, t
<1>3. /\ Len(s) \in Nat /\ Len(Append(s, p)) = Len(s) + 1
      /\ Total("length", s) \in Int /\ Total("length", Append(s, p)) = Total("length", s) + p.length
  BY <1>2, LengthAppend
<1>4. CASE Len(ps) + 1 \in Q
  BY <1>1, <1>3, <1>4 DEF One, When, s, t
<1>5. CASE Len(ps) + 1 \notin Q
  BY <1>1, <1>3, <1>5 DEF One, When, s, t
<1> QED BY <1>4, <1>5

\* The packets of a flow in the direction of its opening packet, and the others.
Forwards(opening, ps)  == Pick(ps, {i \in DOMAIN ps : Sender(ps[i]) = Sender(opening)})
Backwards(opening, ps) == Pick(ps, {i \in DOMAIN ps : Sender(ps[i]) # Sender(opening)})

LEMMA DirectionsAppend ==
    ASSUME NEW ps \in Seq(Packet), NEW p \in Packet, NEW opening
    PROVE  LET qs   == Append(ps, p)
               same == Sender(p) = Sender(opening)
           IN  /\ Len(Forwards(opening, qs)) = Len(Forwards(opening, ps)) + One(same)
               /\ Total("length", Forwards(opening, qs))
                    = Total("length", Forwards(opening, ps)) + When(same, p.length)
               /\ Len(Backwards(opening, qs)) = Len(Backwards(opening, ps)) + One(~ same)
               /\ Total("length", Backwards(opening, qs))
                    = Total("length", Backwards(opening, ps)) + When(~ same, p.length)
<1> DEFINE n == Len(ps)
           qs == Append(ps, p)
           same == Sender(p) = Sender(opening)
           other == ~ same
           P == {i \in DOMAIN ps : Sender(ps[i]) = Sender(opening)}
           Q == {i \in DOMAIN qs : Sender(qs[i]) = Sender(opening)}
           R == {i \in DOMAIN ps : Sender(ps[i]) # Sender(opening)}
           S == {i \in DOMAIN qs : Sender(qs[i]) # Sender(opening)}
<1>1. /\ n \in Nat /\ DOMAIN ps = 1..n /\ DOMAIN qs = 1..(n + 1) /\ qs[n + 1] = p
      /\ \A i \in 1..n : qs[i] = ps[i]
  OBVIOUS
<1>2. \A i \in 1..n : i \in 1..(n + 1)
  BY <1>1
<1> HIDE DEF n, qs
<1>3. /\ P \in SUBSET DOMAIN ps /\ R \in SUBSET DOMAIN ps
      /\ \A i \in 1..n : (i \in P <=> i \in Q) /\ (i \in R <=> i \in S)
  BY <1>1, <1>2
<1>4. (same <=> n + 1 \in Q) /\ (other <=> n + 1 \in S)
  <2>1. n + 1 \in 1..(n + 1)
    BY <1>1
  <2> QED BY <1>1, <2>1
<1>5. /\ Forwards(opening, ps) = Pick(ps, P) /\ Forwards(opening, qs) = Pick(qs, Q)
      /\ Backwards(opening, ps) = Pick(ps, R) /\ Backwards(opening, qs) = Pick(qs, S)
  BY DEF Forwards, Backwards
<1> HIDE DEF P, Q, R, S, same, other
<1>6. /\ Len(Pick(qs, Q)) = Len(Pick(ps, P)) + One(n + 1 \in Q)
      /\ Total("length", Pick(qs, Q)) = Total("length", Pick(ps, P)) + When(n + 1 \in Q, p.length)
  BY <1>3, <1>4, PickedGrow DEF n, qs
<1>7. /\ Len(Pick(qs, S)) = Len(Pick(ps, R)) + One(n + 1 \in S)
      /\ Total("length", Pick(qs, S)) = Total("length", Pick(ps, R)) + When(n + 1 \in S, p.length)
  BY <1>3, <1>4, PickedGrow DEF n, qs
<1>8. /\ One(n + 1 \in Q) = One(same) /\ When(n + 1 \in Q, p.length) = When(same, p.length)
      /\ One(n + 1 \in S) = One(other) /\ When(n + 1 \in S, p.length) = When(other, p.length)
  BY <1>4 DEF One, When
<1> QED BY <1>5, <1>6, <1>7, <1>8 DEF qs, same, other

\* A message more is the last one.
LEMMA MessagesAppend ==
    ASSUME NEW ps \in Seq(Packet), NEW p \in Packet, NEW field, NEW default
    PROVE  LET qs == Append(ps, p)
           IN  /\ LastGiven(field, Messages(qs), default)
                    = IF p.content = "dns" THEN p[field] ELSE LastGiven(field, Messages(ps), default)
               /\ LastGiven(field, Questions(qs), default)
                    = IF p.content = "dns" /\ p.query # NoQuery THEN p[field]
                      ELSE LastGiven(field, Questions(ps), default)
<1> DEFINE n == Len(ps)
           qs == Append(ps, p)
           P == {i \in DOMAIN ps : ps[i].content = "dns"}
           Q == {i \in DOMAIN qs : qs[i].content = "dns"}
           R == {i \in DOMAIN ps : ps[i].content = "dns" /\ ps[i].query # NoQuery}
           S == {i \in DOMAIN qs : qs[i].content = "dns" /\ qs[i].query # NoQuery}
<1>1. /\ n \in Nat /\ DOMAIN ps = 1..n /\ DOMAIN qs = 1..(n + 1) /\ qs[n + 1] = p
      /\ \A i \in 1..n : qs[i] = ps[i]
  OBVIOUS
<1>2. n + 1 \in 1..(n + 1) /\ \A i \in 1..n : i \in 1..(n + 1)
  BY <1>1
<1>3. IsSeq(ps) /\ ToSet(ps) \subseteq Packet
  BY SeqIs
<1> HIDE DEF n, qs
<1>4. /\ P \in SUBSET DOMAIN ps /\ R \in SUBSET DOMAIN ps
      /\ \A i \in 1..n : (i \in P <=> i \in Q) /\ (i \in R <=> i \in S)
      /\ (n + 1 \in Q <=> p.content = "dns")
      /\ (n + 1 \in S <=> p.content = "dns" /\ p.query # NoQuery)
  BY <1>1, <1>2
<1>5. /\ Messages(ps) = Pick(ps, P) /\ Messages(qs) = Pick(qs, Q)
      /\ Questions(ps) = Pick(ps, R) /\ Questions(qs) = Pick(qs, S)
  BY DEF Messages, Questions
<1> HIDE DEF P, Q, R, S
<1>6. /\ Pick(qs, Q) = IF n + 1 \in Q THEN Append(Pick(ps, P), p) ELSE Pick(ps, P)
      /\ Pick(qs, S) = IF n + 1 \in S THEN Append(Pick(ps, R), p) ELSE Pick(ps, R)
  BY <1>4, PickAppend DEF n, qs
<1>7. Pick(ps, P) \in Seq(Packet) /\ Pick(ps, R) \in Seq(Packet)
  <2>1. Pick(ps, P) \in Seq(ToSet(ps)) /\ Pick(ps, R) \in Seq(ToSet(ps))
    BY <1>3, <1>4, PickFacts
  <2> QED BY <1>3, <2>1
<1>8. \A s \in Seq(Packet) : LastGiven(field, Append(s, p), default) = p[field]
  <2> SUFFICES ASSUME NEW s \in Seq(Packet) PROVE LastGiven(field, Append(s, p), default) = p[field]
    OBVIOUS
  <2> DEFINE t == Append(s, p)
  <2>1. t # << >> /\ t[Len(t)] = p
    OBVIOUS
  <2> HIDE DEF t
  <2>2. LastGiven(field, t, default) = p[field]
    BY <2>1 DEF LastGiven
  <2> QED BY <2>2 DEF t
<1>9. LastGiven(field, Messages(qs), default)
        = IF n + 1 \in Q THEN p[field] ELSE LastGiven(field, Messages(ps), default)
  BY <1>5, <1>6, <1>7, <1>8
<1>10. LastGiven(field, Questions(qs), default)
         = IF n + 1 \in S THEN p[field] ELSE LastGiven(field, Questions(ps), default)
  BY <1>5, <1>6, <1>7, <1>8
<1> QED BY <1>4, <1>9, <1>10 DEF qs

\* A live state f says what the packets ps of a flow that `opening` opened say:
\* its ends and times,
Spans(f, opening, ps) ==
    /\ ps # << >> => ps[1] = opening /\ f.last = ps[Len(ps)].time
    /\ f.src = opening.src /\ f.dst = opening.dst
    /\ f.sport = opening.sport /\ f.dport = opening.dport
    /\ f.proto = opening.proto /\ f.first = opening.time

\* its packets and bytes in each direction,
Weighs(f, opening, ps) ==
    /\ f.packets = Len(ps) /\ f.bytes = Total("length", ps)
    /\ f.src2dst_packets = Len(Forwards(opening, ps))
    /\ f.src2dst_bytes = Total("length", Forwards(opening, ps))
    /\ f.dst2src_packets = Len(Backwards(opening, ps))
    /\ f.dst2src_bytes = Total("length", Backwards(opening, ps))

\* its TCP flags
Signals(f, ps) ==
    /\ f.syn = Cardinality(WithFlag(ps, "S"))
    /\ f.syn_only = Cardinality(SynOnlys(ps))
    /\ f.syn_ack = Cardinality(SynAcks(ps))
    /\ f.ack = Cardinality(WithFlag(ps, "A"))
    /\ f.rst = Cardinality(WithFlag(ps, "R"))

\* and its last DNS message.
Asks(f, ps) ==
    /\ f.query = LastGiven("query", Questions(ps), NoQuery)
    /\ f.nxdomain = LastGiven("nxdomain", Questions(ps), FALSE)
    /\ f.nxdomain = LastGiven("nxdomain", Messages(ps), FALSE)

Sums(f, opening, ps) ==
    Spans(f, opening, ps) /\ Weighs(f, opening, ps) /\ Signals(f, ps) /\ Asks(f, ps)

\* The state of a new flow sums up no packets.
LEMMA SumsNone ==
    ASSUME NEW p \in Packet
    PROVE  Sums(NewState(p), p, << >>)
<1> DEFINE f == NewState(p)
           none == << >>
<1>1. /\ f.src = p.src /\ f.dst = p.dst /\ f.sport = p.sport /\ f.dport = p.dport
      /\ f.proto = p.proto /\ f.first = p.time
      /\ f.packets = 0 /\ f.bytes = 0 /\ f.src2dst_packets = 0 /\ f.src2dst_bytes = 0
      /\ f.dst2src_packets = 0 /\ f.dst2src_bytes = 0
  BY DEF NewState
<1>2. /\ f.syn = 0 /\ f.syn_only = 0 /\ f.syn_ack = 0 /\ f.ack = 0 /\ f.rst = 0
      /\ f.query = NoQuery /\ f.nxdomain = FALSE
  BY DEF NewState
<1> HIDE DEF f
<1>3. none \in Seq(Packet) /\ Len(none) = 0 /\ DOMAIN none = {}
  OBVIOUS
<1>4. ASSUME NEW P PROVE Pick(none, P) = none
  <2> HIDE DEF none
  <2>1. 1..Len(none) \subseteq P
    BY <1>3
  <2> QED BY <1>3, <2>1, PickAll
<1>5. Total("length", none) = 0
  <2> DEFINE s == [i \in DOMAIN none |-> none[i].length]
  <2>1. s \in Seq(Int) /\ Len(s) = 0
    BY <1>3
  <2> HIDE DEF s
  <2>2. SumOf(s) = 0
    BY <2>1, SumUnfolds
  <2> QED BY <2>2 DEF Total, s
<1>6. /\ Forwards(p, none) = none /\ Backwards(p, none) = none
      /\ Questions(none) = none /\ Messages(none) = none
  BY <1>4 DEF Forwards, Backwards, Questions, Messages
<1>7. /\ WithFlag(none, "S") = {} /\ WithFlag(none, "A") = {} /\ WithFlag(none, "R") = {}
      /\ SynOnlys(none) = {} /\ SynAcks(none) = {}
  BY <1>3 DEF WithFlag, SynOnlys, SynAcks
<1>8. Spans(f, p, none)
  BY <1>1 DEF Spans
<1>9. Weighs(f, p, none)
  BY <1>1, <1>3, <1>5, <1>6 DEF Weighs
<1>10. Signals(f, none)
  BY <1>2, <1>7, FS_EmptySet DEF Signals
<1>11. Asks(f, none)
  BY <1>2, <1>6 DEF Asks, LastGiven
<1> QED BY <1>8, <1>9, <1>10, <1>11 DEF Sums, f

\* A packet that no reader has a special case for keeps the sums.
Ordinary(p) ==
    /\ p.proto \in KnownProtocols
    /\ p.content # "bad_dns"
    /\ p.content = "dns" => p.query # NoQuery

LEMMA SumsAppend ==
    ASSUME NEW f \in State, NEW ps \in Seq(Packet), NEW p \in Packet, NEW opening,
           Sums(f, opening, ps), Ordinary(p), ps = << >> => p = opening
    PROVE  Sums(Count(f, p), opening, Append(ps, p))
<1> DEFINE g == Count(f, p)
           qs == Append(ps, p)
<1>1. /\ \A x \in { "src", "dst", "sport", "dport", "proto", "first", "tls" } : g[x] = f[x]
      /\ g.last = p.time
      /\ g.packets = f.packets + 1 /\ g.bytes = f.bytes + p.length
      /\ g.src2dst_packets = f.src2dst_packets + One(FromSource(f, p))
      /\ g.src2dst_bytes = f.src2dst_bytes + When(FromSource(f, p), p.length)
      /\ g.dst2src_packets = f.dst2src_packets + One(~ FromSource(f, p))
      /\ g.dst2src_bytes = f.dst2src_bytes + When(~ FromSource(f, p), p.length)
  BY CountFacts
<1>2. /\ g.syn = f.syn + One(HasFlag(p, "S")) /\ g.syn_only = f.syn_only + One(IsSynOnly(p))
      /\ g.syn_ack = f.syn_ack + One(IsSynAck(p)) /\ g.ack = f.ack + One(HasFlag(p, "A"))
      /\ g.rst = f.rst + One(HasFlag(p, "R"))
      /\ g.query = LiveQuery(f, p)
      /\ g.nxdomain = IF p.content = "dns" THEN p.nxdomain ELSE f.nxdomain
  BY CountFacts
<1>3. Spans(f, opening, ps) /\ Weighs(f, opening, ps) /\ Signals(f, ps) /\ Asks(f, ps)
  BY DEF Sums
<1> HIDE DEF g
<1>4. /\ Len(qs) = Len(ps) + 1 /\ qs # << >> /\ qs[Len(qs)] = p
      /\ qs[1] = IF ps = << >> THEN p ELSE ps[1]
  <2>1. Len(qs) = Len(ps) + 1 /\ Len(ps) \in Nat /\ qs[Len(ps) + 1] = p
    OBVIOUS
  <2>2. CASE ps = << >>
    BY <2>1, <2>2
  <2>3. CASE ps # << >>
    <3>1. 1 \in 1..Len(ps)
      BY <2>1, <2>3
    <3> QED BY <2>1, <2>3, <3>1
  <2> QED BY <2>2, <2>3
<1> HIDE DEF qs
<1>5. Spans(g, opening, qs)
  <2>1. qs[1] = opening
    BY <1>3, <1>4 DEF Spans
  <2> QED BY <1>1, <1>3, <1>4, <2>1 DEF Spans
<1>6. Weighs(g, opening, qs)
  <2> DEFINE same == Sender(p) = Sender(opening)
  <2>1. FromSource(f, p) <=> same
    BY <1>3 DEF FromSource, Sender, Spans
  <2>2. /\ One(FromSource(f, p)) = One(same) /\ One(~ FromSource(f, p)) = One(~ same)
        /\ When(FromSource(f, p), p.length) = When(same, p.length)
        /\ When(~ FromSource(f, p), p.length) = When(~ same, p.length)
    BY <2>1 DEF One, When
  <2>3. /\ Len(Forwards(opening, qs)) = Len(Forwards(opening, ps)) + One(same)
        /\ Total("length", Forwards(opening, qs))
             = Total("length", Forwards(opening, ps)) + When(same, p.length)
        /\ Len(Backwards(opening, qs)) = Len(Backwards(opening, ps)) + One(~ same)
        /\ Total("length", Backwards(opening, qs))
             = Total("length", Backwards(opening, ps)) + When(~ same, p.length)
    BY DirectionsAppend DEF qs
  <2>4. Total("length", qs) = Total("length", ps) + p.length
    BY LengthAppend DEF qs
  <2> HIDE DEF same
  <2> QED BY <1>1, <1>3, <1>4, <2>2, <2>3, <2>4 DEF Weighs
<1>7. Signals(g, qs)
  <2>1. /\ \A flag : Cardinality(WithFlag(qs, flag))
                       = Cardinality(WithFlag(ps, flag)) + One(HasFlag(p, flag))
        /\ Cardinality(SynOnlys(qs)) = Cardinality(SynOnlys(ps)) + One(IsSynOnly(p))
        /\ Cardinality(SynAcks(qs)) = Cardinality(SynAcks(ps)) + One(IsSynAck(p))
    BY FlagsAppend DEF qs
  <2> QED BY <1>2, <1>3, <2>1 DEF Signals
<1>8. Asks(g, qs)
  <2>1. \A field, default :
          /\ LastGiven(field, Messages(qs), default)
               = IF p.content = "dns" THEN p[field] ELSE LastGiven(field, Messages(ps), default)
          /\ LastGiven(field, Questions(qs), default)
               = IF p.content = "dns" /\ p.query # NoQuery THEN p[field]
                 ELSE LastGiven(field, Questions(ps), default)
    BY MessagesAppend DEF qs
  <2>2. LiveQuery(f, p) = IF p.content = "dns" /\ p.query # NoQuery THEN p.query ELSE f.query
    BY DEF LiveQuery, Ordinary
  <2> QED BY <1>2, <1>3, <2>1, <2>2 DEF Asks, Ordinary
<1> QED BY <1>5, <1>6, <1>7, <1>8 DEF Sums, g, qs

\* The packets that open the conversations, in their order.
Openings(s) == Pick(s, FirstPackets(s))

LEMMA OpeningsFacts ==
    ASSUME NEW s \in Seq(Packet)
    PROVE  /\ Openings(s) \in Seq(Packet) /\ Len(Openings(s)) \in Nat
           /\ DOMAIN Openings(s) = 1..Len(Openings(s))
           /\ \A k \in 1..Len(Openings(s)) : \E i \in DOMAIN s : Openings(s)[k] = s[i]
<1> DEFINE o == Openings(s)
<1>1. IsSeq(s) /\ ToSet(s) \subseteq Packet
  BY SeqIs
<1>2. FirstPackets(s) \in SUBSET DOMAIN s
  BY DEF FirstPackets
<1>3. o \in Seq(ToSet(s)) /\ \A k \in DOMAIN o : \E i \in DOMAIN s : o[k] = s[i]
  BY <1>1, <1>2, PickFacts DEF Openings
<1> HIDE DEF o
<1>4. o \in Seq(Packet)
  BY <1>1, <1>3
<1>5. DOMAIN o = 1..Len(o) /\ Len(o) \in Nat
  BY <1>4
<1> QED BY <1>3, <1>4, <1>5 DEF o

\* A packet opens a conversation if there is none of it yet.
Known(p, s) == \E i \in DOMAIN s : Conversation(s[i]) = Conversation(p)

LEMMA OpeningsAppend ==
    ASSUME NEW s \in Seq(Packet), NEW p \in Packet
    PROVE  Openings(Append(s, p)) = IF Known(p, s) THEN Openings(s) ELSE Append(Openings(s), p)
<1> DEFINE n == Len(s)
           t == Append(s, p)
<1>1. /\ n \in Nat /\ DOMAIN s = 1..n /\ DOMAIN t = 1..(n + 1) /\ t[n + 1] = p
      /\ \A i \in 1..n : t[i] = s[i]
  OBVIOUS
<1>2. /\ \A i \in 1..n : i \in 1..(n + 1) /\ \A j \in 1..(i - 1) : j \in 1..n
      /\ n + 1 \in 1..(n + 1) /\ (n + 1) - 1 = n
  BY <1>1
<1> HIDE DEF n, t
<1>3. \A i \in 1..n : i \in FirstPackets(s) <=> i \in FirstPackets(t)
  BY <1>1, <1>2 DEF FirstPackets
<1>4. n + 1 \in FirstPackets(t) <=> ~ Known(p, s)
  BY <1>1, <1>2 DEF FirstPackets, Known
<1>5. Pick(t, FirstPackets(t))
        = IF n + 1 \in FirstPackets(t) THEN Append(Pick(s, FirstPackets(s)), p)
          ELSE Pick(s, FirstPackets(s))
  BY <1>3, PickAppend DEF n, t
<1> QED BY <1>4, <1>5 DEF Openings, t

\* The packets of a conversation.
LEMMA PacketsOfFacts ==
    ASSUME NEW s \in Seq(Packet), NEW opening
    PROVE  /\ PacketsOf(opening, s) \in Seq(Packet)
           /\ \A k \in DOMAIN PacketsOf(opening, s) :
                \E i \in DOMAIN s : PacketsOf(opening, s)[k] = s[i]
<1> DEFINE P == {i \in DOMAIN s : Conversation(s[i]) = Conversation(opening)}
<1>1. IsSeq(s) /\ ToSet(s) \subseteq Packet
  BY SeqIs
<1>2. PacketsOf(opening, s) = Pick(s, P) /\ P \in SUBSET DOMAIN s
  BY DEF PacketsOf
<1> HIDE DEF P
<1>3. /\ Pick(s, P) \in Seq(ToSet(s))
      /\ \A k \in DOMAIN Pick(s, P) : \E i \in P : Pick(s, P)[k] = s[i]
  BY <1>1, <1>2, PickFacts
<1>4. Pick(s, P) \in Seq(Packet)
  BY <1>1, <1>3
<1>5. \A k \in DOMAIN Pick(s, P) : \E i \in DOMAIN s : Pick(s, P)[k] = s[i]
  BY <1>2, <1>3
<1> QED BY <1>2, <1>4, <1>5

LEMMA PacketsOfAppend ==
    ASSUME NEW s \in Seq(Packet), NEW p \in Packet, NEW opening
    PROVE  /\ PacketsOf(opening, Append(s, p))
                = IF Conversation(p) = Conversation(opening)
                  THEN Append(PacketsOf(opening, s), p) ELSE PacketsOf(opening, s)
           /\ opening = p /\ ~ Known(p, s) => PacketsOf(opening, s) = << >>
<1> DEFINE n == Len(s)
           t == Append(s, p)
           P == {i \in DOMAIN s : Conversation(s[i]) = Conversation(opening)}
           Q == {i \in DOMAIN t : Conversation(t[i]) = Conversation(opening)}
<1>1. /\ n \in Nat /\ DOMAIN s = 1..n /\ DOMAIN t = 1..(n + 1) /\ t[n + 1] = p
      /\ \A i \in 1..n : t[i] = s[i]
  OBVIOUS
<1>2. n + 1 \in 1..(n + 1) /\ \A i \in 1..n : i \in 1..(n + 1)
  BY <1>1
<1> HIDE DEF n, t
<1>3. /\ \A i \in 1..n : i \in P <=> i \in Q
      /\ (n + 1 \in Q <=> Conversation(p) = Conversation(opening))
      /\ opening = p /\ ~ Known(p, s) => P = {}
  BY <1>1, <1>2 DEF Known
<1>4. PacketsOf(opening, s) = Pick(s, P) /\ PacketsOf(opening, t) = Pick(t, Q)
  BY DEF PacketsOf
<1> HIDE DEF P, Q
<1>5. Pick(t, Q) = IF n + 1 \in Q THEN Append(Pick(s, P), p) ELSE Pick(s, P)
  BY <1>3, PickAppend DEF n, t
<1>6. Pick(s, {}) = << >>
  BY PickNone
<1> QED BY <1>3, <1>4, <1>5, <1>6 DEF t

\* The live table t holds one state for each conversation of the packets s,
\* which sums up its packets.
Summed(t, s) ==
    LET o == Openings(s)
    IN  /\ Len(t) = Len(o)
        /\ \A k \in 1..Len(o) :
              PacketsOf(o[k], s) # << >> /\ Sums(t[k], o[k], PacketsOf(o[k], s))
        /\ \A i \in DOMAIN s : \E k \in 1..Len(o) : Conversation(o[k]) = Conversation(s[i])

LEMMA SummedFinds ==
    ASSUME NEW t \in Seq(State), NEW s \in Seq(Packet), NEW p \in Packet, Summed(t, s)
    PROVE  /\ \A k \in 1..Len(t) :
                k \in StateOf(t, p) <=> Conversation(Openings(s)[k]) = Conversation(p)
           /\ Known(p, s) <=> StateOf(t, p) # {}
<1> DEFINE o == Openings(s)
<1>1. /\ Len(t) = Len(o)
      /\ \A k \in 1..Len(o) : Sums(t[k], o[k], PacketsOf(o[k], s))
      /\ \A i \in DOMAIN s : \E k \in 1..Len(o) : Conversation(o[k]) = Conversation(s[i])
  BY DEF Summed
<1>2. \A k \in 1..Len(o) : \E i \in DOMAIN s : o[k] = s[i]
  BY OpeningsFacts
<1> HIDE DEF o
<1>3. DOMAIN t = 1..Len(o)
  BY <1>1
<1>4. ASSUME NEW k \in 1..Len(o) PROVE Conversation(t[k]) = Conversation(o[k])
  <2>1. Spans(t[k], o[k], PacketsOf(o[k], s))
    BY <1>1 DEF Sums
  <2> QED BY <2>1 DEF Spans, Conversation, Sender, Receiver
<1>5. \A k \in 1..Len(o) : k \in StateOf(t, p) <=> Conversation(o[k]) = Conversation(p)
  BY <1>3, <1>4 DEF StateOf
<1>6. Known(p, s) => StateOf(t, p) # {}
  BY <1>1, <1>5 DEF Known
<1>7. StateOf(t, p) # {} => Known(p, s)
  BY <1>2, <1>3, <1>5 DEF Known, StateOf
<1> QED BY <1>1, <1>5, <1>6, <1>7 DEF o

LEMMA SummedAppend ==
    ASSUME NEW t \in Seq(State), NEW s \in Seq(Packet), NEW p \in Packet, Summed(t, s), Ordinary(p)
    PROVE  Summed(Updated(t, p), Append(s, p))
<1> DEFINE o == Openings(s)
           m == Len(o)
           r == Append(s, p)
           u == Updated(t, p)
           q == Openings(r)
<1>1. /\ Len(t) = m
      /\ \A k \in 1..m : PacketsOf(o[k], s) # << >> /\ Sums(t[k], o[k], PacketsOf(o[k], s))
      /\ \A i \in DOMAIN s : \E k \in 1..m : Conversation(o[k]) = Conversation(s[i])
  BY DEF Summed
<1>2. m \in Nat /\ o \in Seq(Packet)
  BY OpeningsFacts
<1>3. \A k \in 1..m : t[k] \in State
  BY <1>1, <1>2
<1>4. /\ \A k \in 1..m : k \in StateOf(t, p) <=> Conversation(o[k]) = Conversation(p)
      /\ Known(p, s) <=> StateOf(t, p) # {}
  BY <1>1, SummedFinds
<1>5. /\ StateOf(t, p) # {} =>
           /\ Len(u) = m
           /\ \A k \in 1..m : u[k] = IF k \in StateOf(t, p) THEN Count(t[k], p) ELSE t[k]
      /\ StateOf(t, p) = {} =>
           /\ Len(u) = m + 1
           /\ u[m + 1] = Count(NewState(p), p)
           /\ \A k \in 1..m : u[k] = t[k]
  BY <1>1, UpdatedFacts, Zenon
<1>6. q = IF Known(p, s) THEN o ELSE Append(o, p)
  BY OpeningsAppend
<1>7. DOMAIN r = 1..(Len(s) + 1) /\ r[Len(s) + 1] = p /\ \A i \in DOMAIN s : r[i] = s[i]
  OBVIOUS
<1>8. \A i \in DOMAIN r : i \in DOMAIN s \/ r[i] = p
  BY <1>7
<1>9. ASSUME NEW k \in 1..m PROVE PacketsOf(o[k], s) \in Seq(Packet)
  BY PacketsOfFacts
<1>10. ASSUME NEW opening
       PROVE  PacketsOf(opening, r) = IF Conversation(p) = Conversation(opening)
                                      THEN Append(PacketsOf(opening, s), p)
                                      ELSE PacketsOf(opening, s)
  BY PacketsOfAppend
<1>11. \A x \in Seq(Packet) : Append(x, p) # << >>
  <2> SUFFICES ASSUME NEW x \in Seq(Packet) PROVE Append(x, p) # << >>
    OBVIOUS
  <2> DEFINE y == Append(x, p)
  <2>1. Len(y) = Len(x) + 1 /\ Len(x) \in Nat
    OBVIOUS
  <2> HIDE DEF y
  <2>2. y # << >>
    BY <2>1
  <2> QED BY <2>2 DEF y
<1> HIDE DEF o, m, r, u, q
<1>12. CASE Known(p, s)
  <2>1. q = o /\ Len(u) = m
    BY <1>4, <1>5, <1>6, <1>12
  <2>2. ASSUME NEW k \in 1..m
        PROVE  PacketsOf(q[k], r) # << >> /\ Sums(u[k], q[k], PacketsOf(q[k], r))
    <3> DEFINE ps == PacketsOf(o[k], s)
    <3>1. ps # << >> /\ ps \in Seq(Packet) /\ Sums(t[k], o[k], ps) /\ t[k] \in State
      BY <1>1, <1>3, <1>9
    <3> HIDE DEF ps
    <3>2. CASE Conversation(o[k]) = Conversation(p)
      <4>1. u[k] = Count(t[k], p) /\ PacketsOf(q[k], r) = Append(ps, p)
        BY <1>4, <1>5, <1>10, <1>12, <2>1, <3>2 DEF ps
      <4>2. Sums(Count(t[k], p), o[k], Append(ps, p))
        BY <3>1, SumsAppend
      <4> QED BY <1>11, <2>1, <3>1, <4>1, <4>2
    <3>3. CASE Conversation(o[k]) # Conversation(p)
      <4>1. u[k] = t[k] /\ PacketsOf(q[k], r) = ps
        BY <1>4, <1>5, <1>10, <1>12, <2>1, <3>3 DEF ps
      <4> QED BY <2>1, <3>1, <4>1
    <3> QED BY <3>2, <3>3
  <2>3. ASSUME NEW i \in DOMAIN r PROVE \E k \in 1..m : Conversation(q[k]) = Conversation(r[i])
    BY <1>1, <1>7, <1>8, <1>12, <2>1 DEF Known
  <2>4. Len(q) = m
    BY <2>1 DEF m
  <2> QED BY <2>1, <2>2, <2>3, <2>4 DEF Summed, q, r, u
<1>13. CASE ~ Known(p, s)
  <2>1. /\ q = Append(o, p) /\ Len(o) = m /\ StateOf(t, p) = {}
        /\ Len(u) = m + 1 /\ u[m + 1] = Count(NewState(p), p)
        /\ \A k \in 1..m : u[k] = t[k]
    BY <1>4, <1>5, <1>6, <1>13 DEF m
  <2>2. Len(q) = m + 1 /\ q[m + 1] = p /\ \A k \in 1..m : q[k] = o[k]
    BY <1>2, <2>1
  <2>3. ASSUME NEW k \in 1..m
        PROVE  PacketsOf(q[k], r) # << >> /\ Sums(u[k], q[k], PacketsOf(q[k], r))
    <3>1. Conversation(o[k]) # Conversation(p)
      BY <1>4, <2>1
    <3>2. PacketsOf(q[k], r) = PacketsOf(o[k], s)
      BY <1>10, <2>2, <3>1
    <3> QED BY <1>1, <2>1, <2>2, <3>2
  <2>4. /\ PacketsOf(q[m + 1], r) # << >>
        /\ Sums(u[m + 1], q[m + 1], PacketsOf(q[m + 1], r))
    <3> DEFINE none == << >>
    <3>1. none \in Seq(Packet)
      OBVIOUS
    <3>2. PacketsOf(p, s) = none
      BY <1>13, PacketsOfAppend
    <3> HIDE DEF none
    <3>3. PacketsOf(q[m + 1], r) = Append(none, p)
      BY <1>10, <2>2, <3>2
    <3>4. NewState(p) \in State /\ Sums(NewState(p), p, none)
      BY NewStateTyped, SumsNone DEF none
    <3>5. Sums(Count(NewState(p), p), p, Append(none, p))
      BY <3>1, <3>4, SumsAppend
    <3> QED BY <1>11, <2>1, <2>2, <3>1, <3>3, <3>5
  <2>5. \A k \in 1..(m + 1) : k \in 1..m \/ k = m + 1
    BY <1>2
  <2>6. ASSUME NEW i \in DOMAIN r
        PROVE  \E k \in 1..(m + 1) : Conversation(q[k]) = Conversation(r[i])
    <3>1. m + 1 \in 1..(m + 1) /\ \A k \in 1..m : k \in 1..(m + 1)
      BY <1>2
    <3> QED BY <1>1, <1>7, <1>8, <2>2, <3>1
  <2>7. /\ Len(u) = Len(q)
        /\ \A k \in 1..Len(q) : PacketsOf(q[k], r) # << >> /\ Sums(u[k], q[k], PacketsOf(q[k], r))
        /\ \A i \in DOMAIN r : \E k \in 1..Len(q) : Conversation(q[k]) = Conversation(r[i])
    BY <2>1, <2>2, <2>3, <2>4, <2>5, <2>6
  <2> QED BY <2>7 DEF Summed, q, r, u
<1> QED BY <1>12, <1>13 DEF r, u

\* As long as no flow was evicted, the live table sums up the packets.
Extracted ==
    /\ evictions \in Nat
    /\ reader = "live" /\ evictions = 0 /\ Plain(packets) => Summed(table, packets)

LEMMA SummedNone == Summed(<< >>, << >>)
<1> DEFINE none == << >>
<1>1. none \in Seq(Packet) /\ Len(none) = 0 /\ DOMAIN none = {} /\ 1..0 = {} /\ 1..Len(none) = {}
  OBVIOUS
<1> HIDE DEF none
<1>2. \A P : 1..Len(none) \subseteq P
  BY <1>1
<1>3. Openings(none) = none
  BY <1>1, <1>2, PickAll DEF Openings
<1>4. Summed(none, none)
  BY <1>1, <1>3 DEF Summed
<1> QED BY <1>4 DEF none

LEMMA ExtractedInit == Init => Extracted
BY SummedNone DEF Init, Extracted

LEMMA ExtractedNext == Typing /\ Extracted /\ [Next]_vars => Extracted'
<1> SUFFICES ASSUME Typing, Extracted, [Next]_vars PROVE Extracted'
  OBVIOUS
<1>1. ASSUME NEW kind \in Kinds, NEW time \in Times, Arrive(kind, time) PROVE Extracted'
  <2> DEFINE p == At(kind, time)
  <2>1. /\ p \in Packet /\ packets' = Append(packets, p)
        /\ packets \in Seq(Packet) /\ table \in Seq(State) /\ evictions \in Nat
    BY <1>1, ArriveTyped DEF Typing, Extracted
  <2>2. /\ reader' = reader
        /\ reader = "live" => /\ table' = AddPacket(table, p)
                              /\ evictions' = evictions + One(Evicts(table, p))
        /\ reader # "live" => evictions' = evictions
    BY <1>1 DEF Arrive
  <2> HIDE DEF p
  <2>3. evictions' \in Nat
    BY <2>1, <2>2 DEF One
  <2>4. ASSUME reader = "live", evictions' = 0, Plain(packets')
        PROVE  Summed(table', packets')
    <3>1. evictions = 0 /\ ~ Evicts(table, p)
      BY <2>1, <2>2, <2>4 DEF One
    <3>2. /\ DOMAIN packets' = 1..(Len(packets) + 1) /\ Len(packets) + 1 \in DOMAIN packets'
          /\ packets'[Len(packets) + 1] = p
          /\ \A i \in DOMAIN packets : i \in DOMAIN packets' /\ packets'[i] = packets[i]
      BY <2>1
    <3>3. Plain(packets) /\ Ordinary(p)
      BY <2>4, <3>2 DEF Plain, Ordinary
    <3>4. table' = Updated(table, p)
      BY <2>2, <2>4, <3>1, <3>3 DEF AddPacket, Evicts, Ordinary
    <3>5. Summed(table, packets)
      BY <2>4, <3>1, <3>3 DEF Extracted
    <3> QED BY <2>1, <3>3, <3>4, <3>5, SummedAppend
  <2> QED BY <2>2, <2>3, <2>4 DEF Extracted
<1>2. ASSUME Forget PROVE Extracted'
  BY <1>2, SummedNone DEF Extracted, Forget
<1>3. CASE UNCHANGED vars
  BY <1>3 DEF Extracted, Plain, vars
<1> QED BY <1>1, <1>2, <1>3 DEF Next, Analyse, ReadFails

LEMMA ExtractedAlways == Spec => []Extracted
<1>1. Init => Typing /\ Extracted
  BY TypingInit, ExtractedInit
<1>2. Typing /\ Extracted /\ [Next]_vars => (Typing /\ Extracted)'
  BY TypingNext, ExtractedNext
<1> QED BY <1>1, <1>2, PTL DEF Spec

\* What both readers of files say of the packets ps of a flow.
CommonFields ==
    { "src", "dst", "proto", "first", "last", "packets", "bytes", "src2dst_packets",
      "src2dst_bytes", "dst2src_packets", "dst2src_bytes", "syn", "syn_only", "ack", "rst" }

LEMMA CommonFacts ==
    ASSUME NEW f \in State, NEW ps \in Seq(Packet), ps # << >>, Sums(f, ps[1], ps)
    PROVE  DOMAIN Common(ps) = CommonFields /\ \A x \in CommonFields : Common(ps)[x] = f[x]
<1> DEFINE c == Common(ps)
<1>1. /\ DOMAIN c = CommonFields
      /\ c.src = ps[1].src /\ c.dst = ps[1].dst /\ c.proto = ps[1].proto
      /\ c.first = ps[1].time /\ c.last = ps[Len(ps)].time
  BY DEF Common, CommonFields
<1>2. /\ c.packets = Len(ps) /\ c.bytes = Total("length", ps)
      /\ c.src2dst_packets = Len(Forwards(ps[1], ps))
      /\ c.src2dst_bytes = Total("length", Forwards(ps[1], ps))
      /\ c.dst2src_packets = Len(Backwards(ps[1], ps))
      /\ c.dst2src_bytes = Total("length", Backwards(ps[1], ps))
  BY DEF Common, Forwards, Backwards
<1>3. /\ c.syn = Cardinality(WithFlag(ps, "S")) /\ c.syn_only = Cardinality(SynOnlys(ps))
      /\ c.ack = Cardinality(WithFlag(ps, "A")) /\ c.rst = Cardinality(WithFlag(ps, "R"))
  BY DEF Common, CountWhere, WithFlag, SynOnlys
<1> HIDE DEF c
<1>4. /\ c.src = f.src /\ c.dst = f.dst /\ c.proto = f.proto /\ c.first = f.first /\ c.last = f.last
  BY <1>1 DEF Sums, Spans
<1>5. /\ c.packets = f.packets /\ c.bytes = f.bytes
      /\ c.src2dst_packets = f.src2dst_packets /\ c.src2dst_bytes = f.src2dst_bytes
      /\ c.dst2src_packets = f.dst2src_packets /\ c.dst2src_bytes = f.dst2src_bytes
  BY <1>2 DEF Sums, Weighs
<1>6. c.syn = f.syn /\ c.syn_only = f.syn_only /\ c.ack = f.ack /\ c.rst = f.rst
  BY <1>3 DEF Sums, Signals
<1> QED BY <1>1, <1>4, <1>5, <1>6 DEF CommonFields, c

\* The record of a live flow is that of the dependency-free reader,
LEMMA StdlibAlike ==
    ASSUME NEW f \in State, NEW ps \in Seq(Packet), ps # << >>, Sums(f, ps[1], ps), NEW index
    PROVE  \A x \in SharedFields : LiveRecord(f, index)[x] = StdlibRecord(ps)[x]
<1> DEFINE c == Common(ps)
           duration == Max({0, c.last - c.first})
           hello == \E i \in DOMAIN ps : ps[i].proto = TCP /\ ps[i].dport = 443
                                         /\ ps[i].content = "client_hello"
           r == [ sport |-> ps[1].sport, dport |-> ps[1].dport,
                  id |-> FlowId(c.src, c.dst, ps[1].sport, ps[1].dport, c.proto, c.first),
                  duration |-> duration, piat |-> MeanGap(duration, Len(ps)), syn_ack |-> 0,
                  query    |-> LastGiven("query", Questions(ps), NoQuery),
                  nxdomain |-> LastGiven("nxdomain", Questions(ps), FALSE),
                  tls  |-> hello, ja4 |-> hello,
                  quic |-> \E i \in DOMAIN ps : ps[i].proto = UDP /\ ps[i].dport = 443
                                                /\ ps[i].content = "long_header" ]
           v == LiveRecord(f, index)
           w == StdlibRecord(ps)
<1>1. w = Joined(c, r)
  BY DEF StdlibRecord
<1>2. DOMAIN c = CommonFields /\ \A x \in CommonFields : c[x] = f[x]
  BY CommonFacts
<1>3. /\ {"sport", "dport", "duration", "query", "nxdomain"} \subseteq DOMAIN r
      /\ r.sport = ps[1].sport /\ r.dport = ps[1].dport /\ r.duration = Max({0, c.last - c.first})
      /\ r.query = LastGiven("query", Questions(ps), NoQuery)
      /\ r.nxdomain = LastGiven("nxdomain", Questions(ps), FALSE)
  OBVIOUS
<1>4. \A x \in Counted : v[x] = f[x]
  BY LiveRecordField
<1>5. v.duration = Max({0, f.last - f.first})
  <2> DEFINE a == [f EXCEPT !.tls = FALSE, !.quic = FALSE]
             length == Max({0, f.last - f.first})
             b == [ id |-> index, ja4 |-> FALSE, duration |-> length,
                    piat |-> Ratio(length, f.packets) ]
  <2>1. v = Joined(a, b)
    BY DEF LiveRecord
  <2>2. "duration" \notin DOMAIN a /\ "duration" \in DOMAIN b /\ b.duration = length
    BY DEF State
  <2> HIDE DEF a, b, v, length
  <2>3. v["duration"] = b["duration"]
    BY <2>1, <2>2, JoinedField
  <2> QED BY <2>2, <2>3 DEF length
<1> HIDE DEF c, r, v, w
<1>6. c.last = f.last /\ c.first = f.first
  BY <1>2 DEF CommonFields
<1>7. \A x \in CommonFields : w[x] = f[x]
  BY <1>1, <1>2, JoinedField
<1>8. \A x \in {"sport", "dport", "duration", "query", "nxdomain"} : w[x] = r[x]
  <2>1. \A x \in {"sport", "dport", "duration", "query", "nxdomain"} : x \notin CommonFields
    BY DEF CommonFields
  <2> QED BY <1>1, <1>2, <1>3, <2>1, JoinedField
<1>9. /\ r.sport = f.sport /\ r.dport = f.dport /\ r.duration = v.duration
      /\ r.query = f.query /\ r.nxdomain = f.nxdomain
  BY <1>3, <1>5, <1>6 DEF Sums, Spans, Asks
<1>10. \A x \in SharedFields : x \in CommonFields \/ x \in {"sport", "dport", "duration", "query", "nxdomain"}
  BY DEF SharedFields, CommonFields
<1>11. \A x \in CommonFields : x \in Counted
  BY DEF CommonFields, Counted
<1>12. \A x \in {"sport", "dport", "query", "nxdomain"} : v[x] = f[x]
  BY <1>4 DEF Counted
<1> QED BY <1>4, <1>7, <1>8, <1>9, <1>10, <1>11, <1>12 DEF v, w

\* and that of Scapy, between two addresses and in the order of the times.
LEMMA ScapyAlike ==
    ASSUME NEW f \in State, NEW ps \in Seq(Packet), ps # << >>, Sums(f, ps[1], ps), NEW index,
           ps[1].src # ps[1].dst, f.first <= f.last
    PROVE  \A x \in SharedFields \cup {"syn_ack"} : LiveRecord(f, index)[x] = ScapyRecord(ps)[x]
<1> DEFINE c == Common(ps)
           duration == c.last - c.first
           ports == Ports(ps[1])
           more == {"sport", "dport", "duration", "query", "nxdomain", "syn_ack"}
           r == [ sport |-> ports[1], dport |-> ports[2],
                  id |-> FlowId(c.src, c.dst, ports[1], ports[2], c.proto, c.first),
                  duration |-> duration, piat |-> MeanGap(duration, Len(ps)),
                  syn_ack  |-> CountWhere(IsSynAck, ps),
                  query    |-> LastGiven("query", Questions(ps), NoQuery),
                  nxdomain |-> LastGiven("nxdomain", Messages(ps), FALSE),
                  tls  |-> FALSE, ja4 |-> FALSE,
                  quic |-> \E i \in DOMAIN ps : ps[i].proto = UDP /\ ps[i].dport = 443
                                                /\ ps[i].content = "long_header" ]
           v == LiveRecord(f, index)
           w == ScapyRecord(ps)
<1>1. w = Joined(c, r)
  BY DEF ScapyRecord
<1>2. DOMAIN c = CommonFields /\ \A x \in CommonFields : c[x] = f[x]
  BY CommonFacts
<1>3. /\ more \subseteq DOMAIN r
      /\ r.sport = ports[1] /\ r.dport = ports[2] /\ r.duration = c.last - c.first
      /\ r.syn_ack = CountWhere(IsSynAck, ps)
      /\ r.query = LastGiven("query", Questions(ps), NoQuery)
      /\ r.nxdomain = LastGiven("nxdomain", Messages(ps), FALSE)
  OBVIOUS
<1>4. \A x \in Counted : v[x] = f[x]
  BY LiveRecordField
<1>5. v.duration = Max({0, f.last - f.first})
  <2> DEFINE a == [f EXCEPT !.tls = FALSE, !.quic = FALSE]
             length == Max({0, f.last - f.first})
             b == [ id |-> index, ja4 |-> FALSE, duration |-> length,
                    piat |-> Ratio(length, f.packets) ]
  <2>1. v = Joined(a, b)
    BY DEF LiveRecord
  <2>2. "duration" \notin DOMAIN a /\ "duration" \in DOMAIN b /\ b.duration = length
    BY DEF State
  <2> HIDE DEF a, b, v, length
  <2>3. v["duration"] = b["duration"]
    BY <2>1, <2>2, JoinedField
  <2> QED BY <2>2, <2>3 DEF length
<1>6. ports[1] = ps[1].sport /\ ports[2] = ps[1].dport
  BY DEF Ports
<1> HIDE DEF c, r, v, w, ports
<1>7. r.duration = v.duration
  <2>1. f.last \in Int /\ f.first \in Int
    BY DEF State
  <2>2. f.last - f.first \in Int /\ f.last - f.first >= 0
    BY <2>1
  <2> DEFINE d == f.last - f.first
  <2> HIDE DEF d
  <2>3. d \in Int /\ d >= 0
    BY <2>2 DEF d
  <2>4. Max({0, d}) = d
    BY <2>3, MaxOfTwo
  <2>5. c.last = f.last /\ c.first = f.first
    BY <1>2 DEF CommonFields
  <2> QED BY <1>3, <1>5, <2>4, <2>5 DEF d
<1>8. \A x \in CommonFields : w[x] = f[x]
  BY <1>1, <1>2, JoinedField
<1>9. \A x \in more : w[x] = r[x]
  <2>1. \A x \in more : x \notin CommonFields
    BY DEF CommonFields
  <2> QED BY <1>1, <1>2, <1>3, <2>1, JoinedField
<1>10. /\ r.sport = f.sport /\ r.dport = f.dport
       /\ r.query = f.query /\ r.nxdomain = f.nxdomain
  BY <1>3, <1>6 DEF Sums, Spans, Asks
<1>11. r.syn_ack = f.syn_ack
  BY <1>3 DEF CountWhere, SynAcks, Sums, Signals
<1>12. \A x \in SharedFields \cup {"syn_ack"} : x \in CommonFields \/ x \in more
  BY DEF SharedFields, CommonFields
<1>13. \A x \in CommonFields : x \in Counted
  BY DEF CommonFields, Counted
<1>14. \A x \in {"sport", "dport", "query", "nxdomain", "syn_ack"} : v[x] = f[x]
  BY <1>4 DEF Counted
<1> QED BY <1>4, <1>7, <1>8, <1>9, <1>10, <1>11, <1>12, <1>13, <1>14 DEF v, w

\* The flows of a file, by the packets that open them.
LEMMA FileFlows ==
    ASSUME NEW s \in Seq(Packet)
    PROVE  LET o == Openings(s)
           IN  /\ DOMAIN StdlibFlows(s) = 1..Len(o)
               /\ \A k \in 1..Len(o) : StdlibFlows(s)[k] = StdlibRecord(PacketsOf(o[k], s))
               /\ Plain(s) =>
                    /\ DOMAIN ScapyFlows(s) = 1..Len(o)
                    /\ \A k \in 1..Len(o) : ScapyFlows(s)[k] = ScapyRecord(PacketsOf(o[k], s))
<1> DEFINE o == Openings(s)
           cs == Conversations(s)
           known == Pick(s, {i \in DOMAIN s : s[i].proto \in KnownProtocols})
<1>1. cs = [k \in DOMAIN o |-> PacketsOf(o[k], s)]
  BY DEF Conversations, Openings
<1>2. DOMAIN o = 1..Len(o)
  BY OpeningsFacts
<1>3. StdlibFlows(s) = [k \in DOMAIN cs |-> StdlibRecord(cs[k])]
  BY DEF StdlibFlows
<1>4. Plain(s) => known = s
  <2> SUFFICES ASSUME Plain(s) PROVE known = s
    OBVIOUS
  <2> DEFINE P == {i \in DOMAIN s : s[i].proto \in KnownProtocols}
  <2>1. 1..Len(s) \subseteq P
    BY DEF Plain
  <2> HIDE DEF P
  <2>2. Pick(s, P) = s
    BY <2>1, PickAll
  <2> QED BY <2>2 DEF P
<1>5. ScapyFlows(s) = [k \in DOMAIN Conversations(known) |-> ScapyRecord(Conversations(known)[k])]
  BY DEF ScapyFlows
<1> HIDE DEF o, cs, known
<1>6. Plain(s) => ScapyFlows(s) = [k \in DOMAIN cs |-> ScapyRecord(cs[k])]
  BY <1>4, <1>5 DEF cs
<1>7. /\ DOMAIN StdlibFlows(s) = 1..Len(o)
      /\ \A k \in 1..Len(o) : StdlibFlows(s)[k] = StdlibRecord(PacketsOf(o[k], s))
  BY <1>1, <1>2, <1>3
<1>8. Plain(s) => /\ DOMAIN ScapyFlows(s) = 1..Len(o)
                  /\ \A k \in 1..Len(o) : ScapyFlows(s)[k] = ScapyRecord(PacketsOf(o[k], s))
  BY <1>1, <1>2, <1>6
<1> QED BY <1>7, <1>8 DEF o

\* Live capture makes the same flows of the same packets as the readers of
\* files do (nfstream_wrapper.py, add_packet and _extract_with_*).
THEOREM ReadersAgree == Spec => []ExtractionAgrees
<1>1. Typing /\ Framed /\ Extracted => ExtractionAgrees
  <2> SUFFICES ASSUME Typing, Framed, Extracted, reader = "live", evictions = 0, Plain(packets)
      PROVE  /\ AlikeAll(Records(table), SharedFields)
                  = AlikeAll(StdlibFlows(packets), SharedFields)
             /\ Ordered(packets) /\ (\A i \in DOMAIN packets : packets[i].src # packets[i].dst)
                  => AlikeAll(Records(table), SharedFields \cup {"syn_ack"})
                       = AlikeAll(ScapyFlows(packets), SharedFields \cup {"syn_ack"})
    BY DEF ExtractionAgrees
  <2> DEFINE o == Openings(packets)
             n == Len(o)
             Ps(k) == PacketsOf(o[k], packets)
  <2>1. /\ Len(table) = n
        /\ \A k \in 1..n : Ps(k) # << >> /\ Sums(table[k], o[k], Ps(k))
    BY DEF Extracted, Summed
  <2>2. table \in Seq(State) /\ packets \in Seq(Packet)
    BY DEF Typing
  <2>3. /\ DOMAIN StdlibFlows(packets) = 1..n
        /\ \A k \in 1..n : StdlibFlows(packets)[k] = StdlibRecord(Ps(k))
        /\ DOMAIN ScapyFlows(packets) = 1..n
        /\ \A k \in 1..n : ScapyFlows(packets)[k] = ScapyRecord(Ps(k))
    BY <2>2, FileFlows, Zenon
  <2> HIDE DEF o, n, Ps
  <2>4. DOMAIN table = 1..n /\ \A k \in 1..n : table[k] \in State
    BY <2>1, <2>2
  <2>5. Records(table) = [k \in 1..n |-> LiveRecord(table[k], k - 1)]
    BY <2>4 DEF Records
  <2>6. ASSUME NEW k \in 1..n
        PROVE  /\ Ps(k) \in Seq(Packet) /\ Ps(k) # << >> /\ Sums(table[k], Ps(k)[1], Ps(k))
               /\ \E i \in DOMAIN packets : Ps(k)[1] = packets[i]
    <3>1. /\ Ps(k) \in Seq(Packet)
          /\ \A j \in DOMAIN Ps(k) : \E i \in DOMAIN packets : Ps(k)[j] = packets[i]
      BY <2>2, PacketsOfFacts DEF Ps
    <3>2. Ps(k) # << >> /\ Sums(table[k], o[k], Ps(k))
      BY <2>1
    <3>3. Ps(k)[1] = o[k]
      BY <3>2 DEF Sums, Spans
    <3>4. 1 \in DOMAIN Ps(k)
      BY <3>1, <3>2
    <3> QED BY <3>1, <3>2, <3>3, <3>4
  <2>7. ASSUME NEW k \in 1..n
        PROVE  Alike(LiveRecord(table[k], k - 1), SharedFields)
                 = Alike(StdlibRecord(Ps(k)), SharedFields)
    BY <2>4, <2>6, StdlibAlike DEF Alike
  <2>8. AlikeAll(Records(table), SharedFields) = AlikeAll(StdlibFlows(packets), SharedFields)
    BY <2>3, <2>5, <2>7 DEF AlikeAll
  <2>9. ASSUME Ordered(packets), \A i \in DOMAIN packets : packets[i].src # packets[i].dst
        PROVE  AlikeAll(Records(table), SharedFields \cup {"syn_ack"})
                 = AlikeAll(ScapyFlows(packets), SharedFields \cup {"syn_ack"})
    <3>1. ASSUME NEW k \in 1..n
          PROVE  Alike(LiveRecord(table[k], k - 1), SharedFields \cup {"syn_ack"})
                   = Alike(ScapyRecord(Ps(k)), SharedFields \cup {"syn_ack"})
      <4>1. table[k].first <= table[k].last
        BY <2>4, <2>9 DEF Framed, Ordered
      <4>2. Ps(k)[1].src # Ps(k)[1].dst
        BY <2>6, <2>9
      <4> DEFINE F == SharedFields \cup {"syn_ack"}
      <4>3. \A x \in F : LiveRecord(table[k], k - 1)[x] = ScapyRecord(Ps(k))[x]
        BY <2>4, <2>6, <4>1, <4>2, ScapyAlike
      <4> HIDE DEF F
      <4>4. Alike(LiveRecord(table[k], k - 1), F) = Alike(ScapyRecord(Ps(k)), F)
        BY <4>3 DEF Alike
      <4> QED BY <4>4 DEF F
    <3> DEFINE F == SharedFields \cup {"syn_ack"}
    <3>2. \A k \in 1..n : Alike(LiveRecord(table[k], k - 1), F) = Alike(ScapyRecord(Ps(k)), F)
      BY <3>1
    <3> HIDE DEF F
    <3>3. AlikeAll(Records(table), F) = AlikeAll(ScapyFlows(packets), F)
      BY <2>3, <2>5, <3>2 DEF AlikeAll
    <3> QED BY <3>3 DEF F
  <2> QED BY <2>8, <2>9
<1> QED BY <1>1, TypingAlways, FramedAlways, ExtractedAlways, PTL

=============================================================================
