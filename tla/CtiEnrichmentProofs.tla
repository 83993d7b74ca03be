------------------------ MODULE CtiEnrichmentProofs ------------------------
(***************************************************************************)
(* Proofs about CtiEnrichment, for every set of indicators, providers and  *)
(* feeds, every limit, window and time to live, and every number of        *)
(* alerts.                                                                 *)
(*                                                                         *)
(*   1. LeastElement .. LiveFacts: what _evict_expired pops and keeps.     *)
(*   2. Limiter: the deque is the recent end of the calls, and any         *)
(*      max_requests + 1 calls in a row take longer than a window.         *)
(*   3. Ledger: status and contribution of the alert in hand tell what     *)
(*      each of its look-ups met.                                          *)
(*   4. Caching: what the cache holds, since when, and which feeds answer. *)
(***************************************************************************)
EXTENDS CtiEnrichment, SequenceTheorems, FiniteSetTheorems, WellFoundedInduction,
        TLAPS

-----------------------------------------------------------------------------
LEMMA LeastElement ==
    ASSUME NEW S \in SUBSET Nat, S # {}
    PROVE  \E n \in S : \A m \in S : n <= m
<1>1. \E R : /\ IsWellFoundedOn(R, Nat)
             /\ \A m, n \in Nat : m < n => << m, n >> \in R
  <2>1. \A m, n \in Nat : m < n => << m, n >> \in OpToRel(<, Nat)
    BY DEF OpToRel
  <2> QED BY <2>1, NatLessThanWellFounded, Zenon
<1>2. PICK R : /\ IsWellFoundedOn(R, Nat)
               /\ \A m, n \in Nat : m < n => << m, n >> \in R
  BY <1>1, Zenon
<1>3. \E n \in S : \A m \in S : ~ (<< m, n >> \in R)
  <2>1. IsWellFoundedOn(R, Nat) /\ S \subseteq Nat /\ S # {}
    BY <1>2, Zenon
  <2> QED BY ONLY <2>1, WFMin
<1>4. \E n \in S : \A m \in S : ~ (m < n)
  BY <1>2, <1>3, Zenon
<1> QED BY <1>4

\* The loop of _evict_expired stops at the first time stamp that is younger
\* than a window, or at the end.
LEMMA ExpiredFacts ==
    ASSUME NEW q \in Seq(Nat), clock \in Nat
    PROVE  /\ Expired(q) \in 0..Len(q)
           /\ \A k \in 1..Expired(q) : q[k] <= clock - WindowLen
           /\ Expired(q) = Len(q) \/ q[Expired(q) + 1] > clock - WindowLen
<1> DEFINE stops == {n \in 0..Len(q) : n = Len(q) \/ q[n + 1] > clock - WindowLen}
<1> USE CtiAssumption
<1>1. Len(q) \in Nat /\ \A k \in 1..Len(q) : q[k] \in Nat
  OBVIOUS
<1>2. Len(q) \in stops /\ stops \in SUBSET Nat
  BY <1>1
<1>3. PICK n \in stops : \A m \in stops : n <= m
  BY <1>2, LeastElement
<1>4. ASSUME NEW k \in 1..n PROVE q[k] <= clock - WindowLen
  <2>1. k - 1 \in 0..Len(q) /\ ~ (n <= k - 1) /\ k \in 1..Len(q) /\ (k - 1) + 1 = k
    BY <1>1, <1>2, <1>3
  <2>2. k - 1 \notin stops
    BY <1>3, <2>1
  <2>3. ~ (q[k] > clock - WindowLen)
    BY <2>1, <2>2
  <2> QED BY <1>1, <2>1, <2>3
<1>5. \E m \in 0..Len(q) :
        /\ \A k \in 1..m : q[k] <= clock - WindowLen
        /\ m = Len(q) \/ q[m + 1] > clock - WindowLen
  BY <1>3, <1>4
<1> QED BY <1>5 DEF Expired

LEMMA LiveFacts ==
    ASSUME NEW q \in Seq(Nat), clock \in Nat
    PROVE  /\ Live(q) \in Seq(Nat)
           /\ Len(Live(q)) = Len(q) - Expired(q)
           /\ \A k \in 1..(Len(q) - Expired(q)) : Live(q)[k] = q[Expired(q) + k]
<1> DEFINE n == Expired(q)
<1>1. n \in 0..Len(q) /\ Len(q) \in Nat
  BY ExpiredFacts
<1>2. Live(q) = SubSeq(q, n + 1, Len(q))
  BY DEF Live
<1> HIDE DEF n
<1>3. /\ SubSeq(q, n + 1, Len(q)) \in Seq(Nat)
      /\ Len(SubSeq(q, n + 1, Len(q))) = Len(q) - n
      /\ \A k \in 1..(Len(q) - n) : SubSeq(q, n + 1, Len(q))[k] = q[n + k]
  <2>1. \A i \in (n + 1)..Len(q) : q[i] \in Nat
    BY <1>1
  <2>2. n + 1 \in Int /\ Len(q) \in Int
    BY <1>1
  <2> DEFINE t == SubSeq(q, n + 1, Len(q))
  <2>3. /\ t \in Seq(Nat)
        /\ Len(t) = IF n + 1 <= Len(q) THEN Len(q) - (n + 1) + 1 ELSE 0
        /\ \A i \in 1..(Len(q) - (n + 1) + 1) : t[i] = q[(n + 1) + i - 1]
    BY <2>1, <2>2, SubSeqProperties
  <2> HIDE DEF t
  <2>4. /\ Len(t) = Len(q) - n
        /\ \A k \in 1..(Len(q) - n) : t[k] = q[n + k]
    <3>1. Len(t) = Len(q) - n
      <4> DEFINE l == Len(q)
                 m == Len(t)
      <4>1. n \in 0..l /\ l \in Nat /\ m = IF n + 1 <= l THEN l - (n + 1) + 1 ELSE 0
        BY <1>1, <2>3
      <4> HIDE DEF l, m
      <4>2. m = l - n
        BY <4>1
      <4> QED BY <4>2 DEF l, m
    <3>2. ASSUME NEW k \in 1..(Len(q) - n) PROVE t[k] = q[n + k]
      <4>1. k \in 1..(Len(q) - (n + 1) + 1) /\ (n + 1) + k - 1 = n + k
        BY <1>1
      <4>2. t[k] = q[(n + 1) + k - 1]
        BY <2>3, <4>1
      <4> QED BY <4>1, <4>2
    <3> QED BY <3>1, <3>2
  <2> QED BY <2>3, <2>4 DEF t
<1> QED BY <1>2, <1>3 DEF n

-----------------------------------------------------------------------------
\* The time stamps of the limiter are those of the last calls; the calls before
\* these are a whole window old.
Tracks(ts, cs) ==
    /\ Len(ts) <= Len(cs)
    /\ \A k \in 1..Len(ts) : ts[k] = cs[Len(cs) - Len(ts) + k]
    /\ \A k \in 1..(Len(cs) - Len(ts)) : cs[k] <= clock - WindowLen

Sorted(cs) == \A j, k \in 1..Len(cs) : j <= k => cs[j] <= cs[k]

\* Any MaxRequests + 1 calls in a row span a whole window.
Spaced(cs) ==
    \A j, k \in 1..Len(cs) : k - j >= MaxRequests => cs[k] - cs[j] >= WindowLen

Limiter ==
    /\ clock \in Nat /\ rejectedCount \in Nat
    /\ timestamps \in Seq(Nat) /\ calls \in Seq(Nat)
    /\ Len(timestamps) <= MaxRequests
    /\ Tracks(timestamps, calls)
    /\ \A k \in 1..Len(calls) : calls[k] <= clock
    /\ Sorted(calls) /\ Spaced(calls)

LEMMA LimiterInit == Init => Limiter
BY CtiAssumption DEF Init, Limiter, Tracks, Sorted, Spaced

\* What _evict_expired leaves still ends with the last call.
LEMMA LiveTracks ==
    ASSUME Limiter
    PROVE  /\ Live(timestamps) \in Seq(Nat)
           /\ Len(Live(timestamps)) <= Len(timestamps)
           /\ Len(Live(timestamps)) \in Nat
           /\ Tracks(Live(timestamps), calls)
<1> DEFINE n == Expired(timestamps)
           live == Live(timestamps)
           d == Len(calls) - Len(timestamps)
<1>1. /\ timestamps \in Seq(Nat) /\ calls \in Seq(Nat) /\ clock \in Nat
      /\ Len(timestamps) \in Nat /\ Len(calls) \in Nat /\ d \in Nat
      /\ Tracks(timestamps, calls)
  BY DEF Limiter, Tracks
<1>2. /\ n \in 0..Len(timestamps)
      /\ \A k \in 1..n : timestamps[k] <= clock - WindowLen
  BY <1>1, ExpiredFacts
<1>3. /\ live \in Seq(Nat) /\ Len(live) = Len(timestamps) - n
      /\ \A k \in 1..(Len(timestamps) - n) : live[k] = timestamps[n + k]
  BY <1>1, LiveFacts
<1>4. /\ \A k \in 1..Len(timestamps) : timestamps[k] = calls[d + k]
      /\ \A k \in 1..d : calls[k] <= clock - WindowLen
  BY <1>1 DEF Tracks
<1> HIDE DEF n, live
<1>5. ASSUME NEW k \in 1..Len(live)
      PROVE  live[k] = calls[Len(calls) - Len(live) + k]
  <2>1. n + k \in 1..Len(timestamps) /\ d + (n + k) = Len(calls) - Len(live) + k
    BY <1>1, <1>2, <1>3
  <2> QED BY <1>3, <1>4, <2>1
<1>6. ASSUME NEW k \in 1..(Len(calls) - Len(live))
      PROVE  calls[k] <= clock - WindowLen
  <2>1. CASE k <= d
    BY <1>1, <1>4, <2>1
  <2>2. CASE ~ (k <= d)
    <3>1. k - d \in 1..n /\ k - d \in 1..Len(timestamps) /\ d + (k - d) = k
      BY <1>1, <1>2, <1>3, <2>2
    <3>2. timestamps[k - d] = calls[k] /\ timestamps[k - d] <= clock - WindowLen
      BY <1>2, <1>4, <3>1
    <3> QED BY <3>2
  <2> QED BY <2>1, <2>2
<1>7. Len(live) <= Len(timestamps) /\ Len(live) \in Nat
  BY <1>1, <1>2, <1>3
<1>8. Tracks(live, calls)
  BY <1>1, <1>5, <1>6, <1>7 DEF Tracks
<1> QED BY <1>3, <1>7, <1>8 DEF live

\* A call that is granted comes a window after the one MaxRequests before it.
LEMMA LimiterAdmit ==
    ASSUME Limiter, Admits,
           timestamps' = Append(Live(timestamps), clock),
           calls' = Append(calls, clock),
           UNCHANGED << clock, rejectedCount >>
    PROVE  Limiter'
<1> DEFINE live == Live(timestamps)
           n == Len(calls)
           l == Len(live)
<1>1. /\ live \in Seq(Nat) /\ calls \in Seq(Nat) /\ clock \in Nat
      /\ l \in Nat /\ n \in Nat /\ l <= n /\ l < MaxRequests
      /\ MaxRequests \in Nat /\ WindowLen \in Nat
      /\ \A k \in 1..l : live[k] = calls[n - l + k]
      /\ \A k \in 1..(n - l) : calls[k] <= clock - WindowLen
  BY LiveTracks, CtiAssumption DEF Limiter, Tracks, Admits
<1>2. /\ \A k \in 1..n : calls[k] \in Nat /\ calls[k] <= clock
      /\ Sorted(calls) /\ Spaced(calls)
  BY <1>1 DEF Limiter
<1>3. /\ timestamps' = Append(live, clock) /\ calls' = Append(calls, clock) /\ clock' = clock
      /\ rejectedCount' = rejectedCount
  OBVIOUS
<1> HIDE DEF live
<1>4. /\ timestamps' \in Seq(Nat) /\ Len(timestamps') = l + 1
      /\ \A k \in 1..l : timestamps'[k] = live[k]
      /\ timestamps'[l + 1] = clock
  BY <1>1, <1>3
<1>5. /\ calls' \in Seq(Nat) /\ Len(calls') = n + 1
      /\ \A k \in 1..n : calls'[k] = calls[k]
      /\ calls'[n + 1] = clock
  BY <1>1, <1>3
<1> HIDE DEF l, n
<1>6. Tracks(timestamps, calls)'
  <2>1. ASSUME NEW k \in 1..(l + 1)
        PROVE  timestamps'[k] = calls'[(n + 1) - (l + 1) + k]
    <3>1. CASE k \in 1..l
      <4> DEFINE e == (n + 1) - (l + 1) + k
      <4>1. e = n - l + k /\ e \in 1..n
        BY <1>1, <3>1
      <4> HIDE DEF e
      <4>2. timestamps'[k] = calls[e]
        BY <1>1, <1>4, <3>1, <4>1
      <4>3. calls'[e] = calls[e]
        BY <1>5, <4>1
      <4> QED BY <4>2, <4>3 DEF e
    <3>2. CASE k = l + 1
      <4>1. (n + 1) - (l + 1) + k = n + 1
        BY <1>1, <3>2
      <4>2. timestamps'[k] = clock /\ calls'[(n + 1) - (l + 1) + k] = clock
        BY <1>4, <1>5, <3>2, <4>1
      <4> QED BY <4>2
    <3>3. k \in 1..l \/ k = l + 1
      BY <1>1
    <3> QED BY <3>1, <3>2, <3>3
  <2>2. ASSUME NEW k \in 1..((n + 1) - (l + 1))
        PROVE  calls'[k] <= clock' - WindowLen
    <3>1. k \in 1..(n - l) /\ k \in 1..n
      BY <1>1
    <3> QED BY <1>1, <1>3, <1>5, <3>1
  <2>3. l + 1 <= n + 1
    BY <1>1
  <2> QED BY <1>4, <1>5, <2>1, <2>2, <2>3 DEF Tracks
<1>7. \A k \in 1..(n + 1) : k \in 1..n \/ k = n + 1
  BY <1>1
<1>8. \A k \in 1..Len(calls') : calls'[k] <= clock'
  BY <1>1, <1>2, <1>3, <1>5, <1>7
<1>9. Sorted(calls)'
  <2>1. ASSUME NEW j \in 1..(n + 1), NEW k \in 1..(n + 1), j <= k
        PROVE  calls'[j] <= calls'[k]
    <3>1. CASE k \in 1..n
      <4>1. j \in 1..n /\ calls[j] <= calls[k]
        BY <1>1, <1>2, <2>1, <3>1 DEF Sorted, n
      <4> QED BY <1>5, <3>1, <4>1
    <3>2. CASE k = n + 1
      BY <1>1, <1>2, <1>3, <1>5, <1>7, <3>2
    <3> QED BY <1>7, <3>1, <3>2
  <2> QED BY <1>5, <2>1 DEF Sorted
<1>10. Spaced(calls)'
  <2>1. ASSUME NEW j \in 1..(n + 1), NEW k \in 1..(n + 1), k - j >= MaxRequests
        PROVE  calls'[k] - calls'[j] >= WindowLen
    <3>1. j \in 1..n /\ j < k
      BY <1>1, <2>1, CtiAssumption
    <3>2. CASE k \in 1..n
      <4>1. calls[k] - calls[j] >= WindowLen
        BY <1>2, <2>1, <3>1, <3>2 DEF Spaced, n
      <4> QED BY <1>5, <3>1, <3>2, <4>1
    <3>3. CASE k = n + 1
      <4>1. j \in 1..(n - l)
        BY <1>1, <2>1, <3>1, <3>3
      <4>2. calls[j] <= clock - WindowLen /\ calls[j] \in Nat
        BY <1>1, <1>2, <3>1, <4>1
      <4>3. calls'[k] = clock /\ calls'[j] = calls[j]
        BY <1>5, <3>1, <3>3
      <4> QED BY <1>1, <4>2, <4>3
    <3> QED BY <1>7, <3>2, <3>3
  <2> QED BY <1>5, <2>1 DEF Spaced
<1>11. Len(timestamps') <= MaxRequests
  BY <1>1, <1>4
<1> QED BY <1>1, <1>3, <1>4, <1>5, <1>6, <1>8, <1>9, <1>10, <1>11 DEF Limiter

\* Eviction by itself, at a look-up that is refused or a look at the load.
LEMMA LimiterEvict ==
    ASSUME Limiter,
           timestamps' = Live(timestamps) \/ UNCHANGED timestamps,
           rejectedCount' \in Nat,
           UNCHANGED << clock, calls >>
    PROVE  Limiter'
<1>1. /\ Len(timestamps) \in Nat /\ Len(timestamps) <= MaxRequests /\ MaxRequests \in Nat
      /\ Tracks(timestamps, calls) /\ timestamps \in Seq(Nat)
  BY CtiAssumption DEF Limiter
<1>2. timestamps' \in Seq(Nat) /\ Len(timestamps') <= MaxRequests
  BY <1>1, LiveTracks
<1>3. Tracks(timestamps, calls)'
  BY <1>1, LiveTracks DEF Tracks
<1> QED BY <1>2, <1>3 DEF Limiter, Sorted, Spaced

LEMMA LimiterTick ==
    ASSUME Limiter, Tick
    PROVE  Limiter'
<1>1. /\ clock' = clock + 1 /\ UNCHANGED << timestamps, calls, rejectedCount >>
      /\ clock \in Nat /\ WindowLen \in Nat
      /\ \A k \in 1..Len(calls) : calls[k] \in Nat /\ Len(calls) \in Nat
      /\ Len(timestamps) \in Nat
  BY CtiAssumption DEF Tick, Limiter
<1>2. Tracks(timestamps, calls)'
  <2>1. ASSUME NEW k \in 1..(Len(calls) - Len(timestamps))
        PROVE  calls[k] <= clock' - WindowLen
    <3>1. k \in 1..Len(calls) /\ calls[k] <= clock - WindowLen
      BY <1>1 DEF Limiter, Tracks
    <3> QED BY <1>1, <3>1
  <2> QED BY <1>1, <2>1 DEF Limiter, Tracks
<1>3. \A k \in 1..Len(calls') : calls'[k] <= clock'
  BY <1>1 DEF Limiter
<1> QED BY <1>1, <1>2, <1>3 DEF Limiter, Sorted, Spaced

LEMMA LimiterStep == Limiter /\ [Next]_vars => Limiter'
<1> SUFFICES ASSUME Limiter, [Next]_vars PROVE Limiter'
  OBVIOUS
<1>1. rejectedCount \in Nat
  BY DEF Limiter
<1>2. CASE Admit
  BY <1>2, LimiterAdmit DEF Admit
<1>3. CASE Tick
  BY <1>3, LimiterTick
<1>4. CASE RateLimited \/ CurrentLoad
  BY <1>1, <1>4, LimiterEvict DEF RateLimited, CurrentLoad
<1>5. CASE \/ \E a \in AlertsIn : TakeAlert(a)
           \/ CacheHit \/ NoProvider \/ ClearCache \/ UNCHANGED vars
           \/ \E outcome \in [available -> {"flag", "clean", "silent", "raw"}] :
                Answer(outcome)
  BY <1>1, <1>5, LimiterEvict DEF TakeAlert, CacheHit, NoProvider, ClearCache, Answer, vars
<1> QED BY <1>2, <1>3, <1>4, <1>5 DEF Next

LEMMA LimiterAlways == Spec => []Limiter
BY LimiterInit, LimiterStep, PTL DEF Spec

\* No window of the limiter's length holds more than MaxRequests calls, since
\* the first and the last of so many would lie a window apart.
LEMMA WindowHoldsFew ==
    ASSUME Limiter, NEW t \in Nat
    PROVE  LET K == {k \in DOMAIN calls : calls[k] \in (t - WindowLen + 1)..t}
           IN  IsFiniteSet(K) /\ Cardinality(K) <= MaxRequests
<1> DEFINE K == {k \in DOMAIN calls : calls[k] \in (t - WindowLen + 1)..t}
<1>1. /\ Len(calls) \in Nat /\ DOMAIN calls = 1..Len(calls)
      /\ \A k \in 1..Len(calls) : calls[k] \in Nat
      /\ MaxRequests \in Nat \ {0} /\ WindowLen \in Nat \ {0}
  BY CtiAssumption DEF Limiter
<1>2. CASE K = {}
  BY <1>1, <1>2, FS_EmptySet
<1>3. CASE K # {}
  <2>1. K \in SUBSET Nat
    BY <1>1
  <2>2. PICK m \in K : \A k \in K : m <= k
    BY <1>3, <2>1, LeastElement
  <2> DEFINE I == m..(m + MaxRequests - 1)
  <2>3. ASSUME NEW k \in K PROVE k \in I
    <3>1. calls[k] - calls[m] < WindowLen
      BY <1>1, <2>2
    <3>2. ~ (k - m >= MaxRequests)
      BY <1>1, <2>2, <3>1 DEF Limiter, Spaced
    <3> QED BY <1>1, <2>1, <2>2, <3>2
  <2>4. m \in Int /\ m + MaxRequests - 1 \in Int
    BY <1>1, <2>1
  <2>5. IsFiniteSet(I) /\ Cardinality(I) = MaxRequests
    <3> DEFINE e == m + MaxRequests - 1
    <3>1. e \in Int /\ m \in Int /\ ~ (m > e) /\ e - m + 1 = MaxRequests
      BY <1>1, <2>4
    <3> HIDE DEF e
    <3>2. IsFiniteSet(m..e) /\ Cardinality(m..e) = IF m > e THEN 0 ELSE e - m + 1
      BY <3>1, FS_Interval
    <3> QED BY <3>1, <3>2 DEF e
  <2> HIDE DEF I, K
  <2>6. K \subseteq I
    BY <2>3
  <2> QED BY <2>5, <2>6, FS_Subset DEF K
<1> QED BY <1>2, <1>3

\* The rate limiter keeps its promise for every window, wherever it starts,
\* although its deque forgets what is older than the window that ends now.
THEOREM LimitHolds == Spec => []RateLimitHolds
<1>1. Limiter => RateLimitHolds
  <2> SUFFICES ASSUME Limiter, NEW t \in 0..clock
               PROVE  Cardinality({k \in DOMAIN calls : calls[k] \in (t - WindowLen + 1)..t})
                        <= MaxRequests
    BY DEF RateLimitHolds
  <2>1. t \in Nat
    BY DEF Limiter
  <2> QED BY <2>1, WindowHoldsFew
<1> QED BY <1>1, LimiterAlways, PTL

\* What _evict_expired leaves is younger than a window.
LEMMA LiveFresh ==
    ASSUME Limiter, NEW k \in 1..Len(Live(timestamps))
    PROVE  Live(timestamps)[k] > clock - WindowLen
<1> DEFINE e == Expired(timestamps)
           live == Live(timestamps)
           d == Len(calls) - Len(live)
<1>1. /\ timestamps \in Seq(Nat) /\ clock \in Nat /\ Len(timestamps) \in Nat
      /\ Len(calls) \in Nat /\ calls \in Seq(Nat)
  BY DEF Limiter
<1>2. /\ e \in 0..Len(timestamps)
      /\ e = Len(timestamps) \/ timestamps[e + 1] > clock - WindowLen
      /\ live \in Seq(Nat) /\ Len(live) = Len(timestamps) - e
      /\ \A i \in 1..(Len(timestamps) - e) : live[i] = timestamps[e + i]
  BY <1>1, ExpiredFacts, LiveFacts
<1>3. /\ Len(live) \in Nat /\ d \in Nat /\ k \in 1..Len(live)
      /\ \A i \in 1..Len(live) : live[i] = calls[d + i]
  BY <1>1, LiveTracks DEF Tracks
<1> HIDE DEF e, live
<1>4. 1 \in 1..Len(live) /\ e # Len(timestamps)
  <2>1. Len(live) >= 1 /\ Len(live) \in Nat
    BY <1>3
  <2>2. Len(live) = Len(timestamps) - e /\ Len(timestamps) \in Nat
    BY <1>1, <1>2
  <2> QED BY <2>1, <2>2
<1>5. live[1] > clock - WindowLen
  <2>1. 1 \in 1..(Len(timestamps) - e)
    BY <1>2, <1>4
  <2>2. live[1] = timestamps[e + 1]
    BY <1>2, <2>1, Zenon
  <2> QED BY <1>2, <1>4, <2>2, Zenon
<1>6. calls[d + 1] <= calls[d + k]
  <2>1. d + 1 \in 1..Len(calls) /\ d + k \in 1..Len(calls) /\ d + 1 <= d + k
    BY <1>1, <1>3
  <2> QED BY <2>1 DEF Limiter, Sorted
<1>7. live[1] <= live[k] /\ live[1] \in Nat /\ live[k] \in Nat
  <2>1. live[1] = calls[d + 1] /\ live[k] = calls[d + k]
    BY <1>3, <1>4, Zenon
  <2>2. \A i \in 1..Len(live) : live[i] \in Nat
    BY <1>2
  <2>3. live[1] \in Nat /\ live[k] \in Nat
    BY <1>3, <1>4, <2>2, Zenon
  <2> QED BY <1>6, <2>1, <2>3, Zenon
<1> QED BY <1>1, <1>5, <1>7, CtiAssumption DEF live

LEMMA RejectedWhenFull ==
    ASSUME Limiter, ~ Admits
    PROVE  Cardinality({k \in DOMAIN calls : calls[k] \in (clock - WindowLen + 1)..clock})
             = MaxRequests
<1> DEFINE K == {k \in DOMAIN calls : calls[k] \in (clock - WindowLen + 1)..clock}
           live == Live(timestamps)
           n == Len(calls)
           I == (n - MaxRequests + 1)..n
<1>1. /\ n \in Nat /\ DOMAIN calls = 1..n /\ clock \in Nat
      /\ MaxRequests \in Nat \ {0} /\ WindowLen \in Nat \ {0}
      /\ \A k \in 1..n : calls[k] \in Nat /\ calls[k] <= clock
      /\ Len(timestamps) \in Nat /\ Len(timestamps) <= MaxRequests
  BY CtiAssumption DEF Limiter
<1>2. /\ Len(live) = MaxRequests /\ MaxRequests <= n
      /\ \A k \in 1..MaxRequests : live[k] = calls[n - MaxRequests + k]
  <2>1. Len(live) \in Nat /\ Len(live) <= Len(timestamps) /\ Tracks(live, calls)
    BY LiveTracks
  <2>2. ~ (Len(live) < MaxRequests)
    BY DEF Admits
  <2>3. Len(live) = MaxRequests
    BY <1>1, <2>1, <2>2
  <2> QED BY <2>1, <2>3 DEF Tracks
<1>3. \A k \in 1..MaxRequests : live[k] > clock - WindowLen
  BY <1>2, LiveFresh
<1> HIDE DEF live
<1>4. ASSUME NEW k \in I PROVE k \in K
  <2> DEFINE j == k - (n - MaxRequests)
  <2>1. j \in 1..MaxRequests /\ n - MaxRequests + j = k /\ k \in 1..n
    BY <1>1, <1>2
  <2> HIDE DEF j
  <2>2. calls[k] > clock - WindowLen
    BY <1>2, <1>3, <2>1
  <2> QED BY <1>1, <2>1, <2>2
<1>5. IsFiniteSet(I) /\ Cardinality(I) = MaxRequests
  <2> DEFINE a == n - MaxRequests + 1
  <2>1. a \in Int /\ n \in Int /\ ~ (a > n) /\ n - a + 1 = MaxRequests
    BY <1>1
  <2> HIDE DEF a
  <2>2. IsFiniteSet(a..n) /\ Cardinality(a..n) = IF a > n THEN 0 ELSE n - a + 1
    BY <2>1, FS_Interval
  <2> QED BY <2>1, <2>2 DEF a
<1>6. IsFiniteSet(K) /\ Cardinality(K) <= MaxRequests
  BY <1>1, WindowHoldsFew
<1> HIDE DEF I, K
<1>7. Cardinality(I) <= Cardinality(K)
  <2>1. I \subseteq K
    BY <1>4
  <2> QED BY <1>6, <2>1, FS_Subset
<1>8. Cardinality(K) \in Nat
  BY <1>6, FS_CardinalityType
<1>9. Cardinality(K) = MaxRequests
  BY <1>1, <1>5, <1>6, <1>7, <1>8
<1> QED BY <1>9 DEF K

\* The limiter refuses no look-up that it could grant.
THEOREM RefusesOnlyWhenFull == Spec => RejectsOnlyWhenFull
<1>1. ASSUME Limiter, [Next]_vars, rejectedCount' > rejectedCount
      PROVE  Cardinality({k \in DOMAIN calls : calls[k] \in (clock - WindowLen + 1)..clock})
               = MaxRequests
  <2>1. rejectedCount' # rejectedCount
    BY <1>1 DEF Limiter
  <2>2. RateLimited
    BY <1>1, <2>1 DEF Next, TakeAlert, CacheHit, Admit, NoProvider, Answer, ClearCache,
       CurrentLoad, Tick, vars
  <2> QED BY <1>1, <2>2, RejectedWhenFull DEF RateLimited
<1> QED BY <1>1, LimiterAlways, PTL DEF Spec, RejectsOnlyWhenFull

-----------------------------------------------------------------------------
\* The risk that look-ups add up to.
Gain(met) ==
      (IF met["source"] = "malicious" THEN 10 ELSE 0)
    + (IF met["destination"] = "malicious" THEN 5 ELSE 0)
    + (IF met["domain"] = "malicious" THEN 15 ELSE 0)

LookupStatuses == {"cache_hit", "checked", "rate_limited"}

\* The alert in hand: the roles from step on are still to be looked up.
Ledger ==
    /\ phase \in {"idle", "admit", "answer"} /\ step \in 1..3
    /\ alert \in [RoleSet -> Indicators \cup {NoIndicator}]
    /\ phase # "idle" => alert[Roles[step]] # NoIndicator
    /\ phase = "idle" => answers = NoAnswers
    /\ answers \in [RoleSet -> Met] /\ statuses \subseteq LookupStatuses
    /\ \A k \in step..3 : answers[Roles[k]] = "none"
    /\ contribution = Gain(answers)
    /\ (\E r \in RoleSet : answers[r] = "skipped") => "rate_limited" \in statuses

\* The alert that was returned last.
Returned == SkipIsVisible /\ ContributionExact

Results == {"malicious", "clean", "nothing"}

Caching ==
    /\ available \subseteq Providers
    /\ {p \in Providers : Kind[p] # "local"} \subseteq loaded
    /\ cache \in [Indicators -> {NotCached} \cup [result : Results, at : Nat]]
    /\ \A i \in Indicators : cache[i] # NotCached => cache[i].at <= clock

-----------------------------------------------------------------------------
LEMMA RoleFacts ==
    /\ DOMAIN Roles = 1..3
    /\ Roles[1] = "source" /\ Roles[2] = "destination" /\ Roles[3] = "domain"
    /\ RoleSet = {"source", "destination", "domain"}
    /\ \A k \in 1..3 : Roles[k] \in RoleSet
    /\ \A j, k \in 1..3 : Roles[j] = Roles[k] => j = k
<1>1. /\ DOMAIN Roles = 1..3
      /\ Roles[1] = "source" /\ Roles[2] = "destination" /\ Roles[3] = "domain"
  BY DEF Roles
<1>2. \A k \in 1..3 : k = 1 \/ k = 2 \/ k = 3
  OBVIOUS
<1>3. 1 \in 1..3 /\ 2 \in 1..3 /\ 3 \in 1..3
  OBVIOUS
<1> HIDE DEF Roles
<1>4. RoleSet = {"source", "destination", "domain"}
  BY <1>1, <1>2, <1>3 DEF RoleSet, ToSet
<1> QED BY <1>1, <1>2, <1>4

LEMMA StepChosen ==
    ASSUME NEW S \in SUBSET (1..3), S # {}
    PROVE  Min(S) \in S /\ \A k \in S : Min(S) <= k
<1>1. \E m \in S : \A k \in S : m <= k
  <2>1. CASE 1 \in S
    BY <2>1
  <2>2. CASE 1 \notin S /\ 2 \in S
    BY <2>2
  <2>3. CASE 1 \notin S /\ 2 \notin S
    <3>1. \A k \in S : k = 3
      BY <2>3
    <3>2. 3 \in S
      BY <3>1
    <3>3. \A k \in S : 3 <= k
      BY <3>1
    <3> QED BY <3>2, <3>3
  <2> QED BY <2>1, <2>2, <2>3
<1> QED BY <1>1 DEF Min

LEMMA GainType ==
    ASSUME NEW met
    PROVE  Gain(met) \in 0..30
BY DEF Gain

\* A look-up adds the weight of its role, once, if it met malice.
LEMMA GainGrows ==
    ASSUME NEW met \in [RoleSet -> Met], NEW k \in 1..3, met[Roles[k]] = "none",
           NEW m \in Met
    PROVE  /\ [met EXCEPT ![Roles[k]] = m] \in [RoleSet -> Met]
           /\ Gain([met EXCEPT ![Roles[k]] = m]) =
                Gain(met) + (IF m = "malicious" THEN Weight(Roles[k]) ELSE 0)
<1> DEFINE after == [met EXCEPT ![Roles[k]] = m]
<1>1. /\ after \in [RoleSet -> Met] /\ after[Roles[k]] = m
      /\ \A r \in RoleSet : r # Roles[k] => after[r] = met[r]
  BY RoleFacts
<1> HIDE DEF after
<1>2. Gain(after) = Gain(met) + (IF m = "malicious" THEN Weight(Roles[k]) ELSE 0)
  <2>1. k = 1 \/ k = 2 \/ k = 3
    OBVIOUS
  <2>2. CASE k = 1
    BY <1>1, <2>2, RoleFacts DEF Gain, Weight
  <2>3. CASE k = 2
    BY <1>1, <2>3, RoleFacts DEF Gain, Weight
  <2>4. CASE k = 3
    BY <1>1, <2>4, RoleFacts DEF Gain, Weight
  <2> QED BY <2>1, <2>2, <2>3, <2>4
<1> QED BY <1>1, <1>2 DEF after

\* The alert in hand is returned with what its look-ups met.
LEMMA FinishKeeps ==
    ASSUME NEW status, NEW gained, NEW met, Finish(status, gained, met),
           gained = Gain(met),
           (\E r \in RoleSet : met[r] = "skipped") => status \in {"PARTIAL", "NOT_RUN"}
    PROVE  Ledger' /\ Returned'
<1>1. /\ phase' = "idle" /\ step' = 1 /\ alert' = NoAlert /\ statuses' = {}
      /\ contribution' = 0 /\ answers' = NoAnswers
      /\ enriched'.status = status /\ enriched'.contribution = gained
      /\ enriched'.answers = met
  BY DEF Finish
<1>2. /\ NoAnswers \in [RoleSet -> Met] /\ \A r \in RoleSet : NoAnswers[r] = "none"
      /\ NoAlert \in [RoleSet -> Indicators \cup {NoIndicator}]
  BY DEF NoAnswers, NoAlert, Met
<1>3. Gain(NoAnswers) = 0
  BY <1>2, RoleFacts DEF Gain
<1>4. Ledger'
  BY <1>1, <1>2, <1>3, RoleFacts DEF Ledger
<1>5. SkipIsVisible'
  BY <1>1 DEF SkipIsVisible
<1>6. ContributionExact'
  BY <1>1, RoleFacts DEF ContributionExact, Gain
<1> QED BY <1>4, <1>5, <1>6 DEF Returned

\* A look-up that returned: the alert is done, or its next role is taken.
LEMMA ReturnKeeps ==
    ASSUME Ledger, Returned,
           NEW status \in LookupStatuses, NEW result \in Results, NEW met \in Met,
           Return(status, result, met),
           met = "malicious" <=> result = "malicious",
           met = "skipped" => status = "rate_limited"
    PROVE  Ledger' /\ Returned'
<1> DEFINE later  == {k \in DOMAIN Roles : k > step} \ Skipped(alert)
           gained == contribution + Worth(result)
           all    == [answers EXCEPT ![Role] = met]
           seen   == statuses \cup {status}
<1>1. /\ step \in 1..3 /\ answers \in [RoleSet -> Met] /\ statuses \subseteq LookupStatuses
      /\ Role = Roles[step] /\ answers[Roles[step]] = "none"
      /\ contribution = Gain(answers)
      /\ alert \in [RoleSet -> Indicators \cup {NoIndicator}]
      /\ \A k \in step..3 : answers[Roles[k]] = "none"
      /\ (\E r \in RoleSet : answers[r] = "skipped") => "rate_limited" \in statuses
  BY DEF Ledger, Role
<1>2. all \in [RoleSet -> Met] /\ gained = Gain(all)
  BY <1>1, GainGrows DEF Worth
<1>3. (\E r \in RoleSet : all[r] = "skipped") => "rate_limited" \in seen
  BY <1>1, RoleFacts
<1>4. \A k \in 1..3 : k > step => all[Roles[k]] = "none"
  BY <1>1, RoleFacts
<1>5. seen \subseteq LookupStatuses
  BY <1>1
<1>6. later \subseteq 1..3 /\ \A k \in later : k > step /\ alert[Roles[k]] # NoIndicator
  BY RoleFacts DEF Skipped
<1>7. IF later = {}
      THEN Finish(FinalStatus(seen), gained, all)
      ELSE /\ step' = Min(later)
           /\ phase' = "admit"
           /\ statuses' = seen
           /\ contribution' = gained
           /\ answers' = all
           /\ UNCHANGED << alert, enriched >>
  BY DEF Return
<1> HIDE DEF later, gained, all, seen
<1>8. CASE later = {}
  <2>1. "rate_limited" \in seen => FinalStatus(seen) = "PARTIAL"
    BY DEF FinalStatus
  <2> QED BY <1>2, <1>3, <1>7, <1>8, <2>1, FinishKeeps
<1>9. CASE later # {}
  <2>1. /\ step' = Min(later) /\ phase' = "admit" /\ statuses' = seen
        /\ contribution' = gained /\ answers' = all /\ alert' = alert
        /\ enriched' = enriched
    BY <1>7, <1>9
  <2>2. Min(later) \in later /\ Min(later) \in 1..3 /\ Min(later) > step
    BY <1>6, <1>9, StepChosen
  <2>3. Ledger'
    <3>1. \A k \in step'..3 : answers'[Roles[k]] = "none"
      BY <1>1, <1>4, <2>1, <2>2
    <3> QED BY <1>1, <1>2, <1>3, <1>5, <1>6, <2>1, <2>2, <3>1 DEF Ledger
  <2>4. Returned'
    BY <2>1 DEF Returned, SkipIsVisible, ContributionExact
  <2> QED BY <2>3, <2>4
<1> QED BY <1>8, <1>9

\* A look-up that raised: the alert keeps what it gained so far.
LEMMA RaiseKeeps ==
    ASSUME Ledger, NEW met \in {"unavailable", "broken"}, Raise(met)
    PROVE  Ledger' /\ Returned'
<1> DEFINE all == [answers EXCEPT ![Role] = met]
<1>1. /\ step \in 1..3 /\ answers \in [RoleSet -> Met] /\ Role = Roles[step]
      /\ answers[Roles[step]] = "none" /\ contribution = Gain(answers)
      /\ met \in Met /\ met # "malicious"
  BY DEF Ledger, Role, Met
<1>2. contribution = Gain(all)
  <2>1. Gain(all) = Gain(answers) + 0
    BY <1>1, GainGrows
  <2> QED BY <1>1, <2>1, GainType
<1>3. Finish("NOT_RUN", contribution, all)
  BY DEF Raise
<1> HIDE DEF all
<1> QED BY <1>2, <1>3, FinishKeeps

\* batch_enrich takes an alert at its first indicator; one without indicators
\* is returned at once.
LEMMA TakeKeeps ==
    ASSUME Ledger, Returned, NEW a \in AlertsIn, TakeAlert(a)
    PROVE  Ledger' /\ Returned'
<1> DEFINE present == DOMAIN Roles \ Skipped(a)
<1>1. /\ phase = "idle" /\ answers = NoAnswers /\ answers \in [RoleSet -> Met]
      /\ statuses \subseteq LookupStatuses /\ contribution = Gain(answers)
      /\ (\E r \in RoleSet : answers[r] = "skipped") => "rate_limited" \in statuses
      /\ a \in [RoleSet -> Indicators \cup {NoIndicator}]
  BY DEF Ledger, TakeAlert, AlertsIn
<1>2. \A k \in 1..3 : answers[Roles[k]] = "none"
  BY <1>1, RoleFacts DEF NoAnswers
<1>3. present \subseteq 1..3 /\ \A k \in present : a[Roles[k]] # NoIndicator
  BY RoleFacts DEF Skipped
<1>4. IF present = {}
      THEN Finish(FinalStatus({}), 0, NoAnswers)
      ELSE /\ step' = Min(present)
           /\ phase' = "admit"
           /\ alert' = a
           /\ UNCHANGED << statuses, contribution, answers, enriched >>
  BY DEF TakeAlert
<1> HIDE DEF present
<1>5. CASE present = {}
  <2>1. 0 = Gain(NoAnswers)
    BY RoleFacts DEF Gain, NoAnswers
  <2>2. ~ (\E r \in RoleSet : NoAnswers[r] = "skipped")
    BY DEF NoAnswers
  <2> QED BY <1>4, <1>5, <2>1, <2>2, FinishKeeps
<1>6. CASE present # {}
  <2>1. /\ step' = Min(present) /\ phase' = "admit" /\ alert' = a
        /\ UNCHANGED << statuses, contribution, answers, enriched >>
    BY <1>4, <1>6
  <2>2. Min(present) \in present /\ Min(present) \in 1..3
    BY <1>3, <1>6, StepChosen
  <2>3. Ledger'
    <3>1. \A k \in step'..3 : answers'[Roles[k]] = "none"
      BY <1>2, <2>1, <2>2
    <3> QED BY <1>1, <1>3, <2>1, <2>2, <3>1 DEF Ledger
  <2>4. Returned'
    BY <2>1 DEF Returned, SkipIsVisible, ContributionExact
  <2> QED BY <2>3, <2>4
<1> QED BY <1>5, <1>6

LEMMA LedgerInit == Init => Ledger /\ Returned
<1> SUFFICES ASSUME Init PROVE Ledger /\ Returned
  OBVIOUS
<1>1. /\ NoAnswers \in [RoleSet -> Met] /\ \A r \in RoleSet : NoAnswers[r] = "none"
      /\ NoAlert \in [RoleSet -> Indicators \cup {NoIndicator}]
  BY DEF NoAnswers, NoAlert, Met
<1>2. Gain(NoAnswers) = 0
  BY <1>1, RoleFacts DEF Gain
<1>3. Ledger
  BY <1>1, <1>2, RoleFacts DEF Init, Ledger
<1> QED BY <1>3 DEF Init, Returned, SkipIsVisible, ContributionExact

\* The indicator that is looked up is one.
LEMMA IndicatorType ==
    ASSUME Ledger, phase # "idle"
    PROVE  Indicator \in Indicators
BY RoleFacts DEF Ledger, Indicator, Role

LEMMA HitKeeps ==
    ASSUME Ledger, Returned, Caching, CacheHit
    PROVE  Ledger' /\ Returned'
<1> DEFINE result == cache[Indicator].result
<1>1. /\ Indicator \in Indicators /\ cache[Indicator] # NotCached
      /\ Return("cache_hit", result, result)
  BY IndicatorType DEF CacheHit, Fresh
<1>2. result \in Results
  BY <1>1 DEF Caching
<1> HIDE DEF result
<1>3. result \in Met /\ result # "skipped" /\ "cache_hit" \in LookupStatuses
  BY <1>2 DEF Results, Met, LookupStatuses
<1> QED BY <1>1, <1>2, <1>3, ReturnKeeps

LEMMA RefusalKeeps ==
    ASSUME Ledger, Returned, RateLimited
    PROVE  Ledger' /\ Returned'
<1>1. /\ "rate_limited" \in LookupStatuses /\ "nothing" \in Results /\ "skipped" \in Met
      /\ Return("rate_limited", "nothing", "skipped")
  BY DEF RateLimited, LookupStatuses, Results, Met
<1>2. "skipped" = "malicious" <=> "nothing" = "malicious"
  OBVIOUS
<1>3. "skipped" = "skipped" => "rate_limited" = "rate_limited"
  OBVIOUS
<1> QED BY <1>1, <1>2, <1>3, ReturnKeeps

LEMMA AnswerKeeps ==
    ASSUME Ledger, Returned,
           NEW outcome \in [available -> {"flag", "clean", "silent", "raw"}],
           Answer(outcome)
    PROVE  Ledger' /\ Returned'
<1> DEFINE results == {p \in available : outcome[p] # "silent"}
           result  == Verdict(results, outcome)
<1>1. result \in Results
  BY DEF Verdict, Results
<1>2. \/ Raise("broken")
      \/ Return("checked", result, result)
  BY DEF Answer
<1> HIDE DEF results, result
<1>3. CASE Raise("broken")
  BY <1>3, RaiseKeeps
<1>4. CASE Return("checked", result, result)
  <2>1. result \in Met /\ result # "skipped" /\ "checked" \in LookupStatuses
    BY <1>1 DEF Results, Met, LookupStatuses
  <2> QED BY <1>1, <1>4, <2>1, ReturnKeeps
<1> QED BY <1>2, <1>3, <1>4

LEMMA LedgerStep == Ledger /\ Returned /\ Caching /\ [Next]_vars => Ledger' /\ Returned'
<1> SUFFICES ASSUME Ledger, Returned, Caching, [Next]_vars PROVE Ledger' /\ Returned'
  OBVIOUS
<1>1. CASE \E a \in AlertsIn : TakeAlert(a)
  BY <1>1, TakeKeeps
<1>2. CASE CacheHit
  BY <1>2, HitKeeps
<1>3. CASE RateLimited
  BY <1>3, RefusalKeeps
<1>4. CASE Admit
  <2>1. /\ phase = "admit" /\ phase' = "answer"
        /\ UNCHANGED << alert, step, statuses, contribution, enriched, answers >>
    BY <1>4 DEF Admit
  <2> QED BY <2>1 DEF Ledger, Returned, SkipIsVisible, ContributionExact
<1>5. CASE NoProvider
  BY <1>5, RaiseKeeps DEF NoProvider
<1>6. CASE \E outcome \in [available -> {"flag", "clean", "silent", "raw"}] : Answer(outcome)
  BY <1>6, AnswerKeeps
<1>7. CASE ClearCache \/ CurrentLoad \/ Tick \/ UNCHANGED vars
  <2>1. UNCHANGED << alert, step, phase, statuses, contribution, enriched, answers >>
    BY <1>7 DEF ClearCache, CurrentLoad, Tick, vars
  <2> QED BY <2>1 DEF Ledger, Returned, SkipIsVisible, ContributionExact
<1> QED BY <1>1, <1>2, <1>3, <1>4, <1>5, <1>6, <1>7 DEF Next

-----------------------------------------------------------------------------
LEMMA CachingInit == Init => Caching /\ VerdictsGrounded
<1> SUFFICES ASSUME Init PROVE Caching /\ VerdictsGrounded
  OBVIOUS
<1>1. \A i \in Indicators : cache[i] = NotCached
  BY DEF Init
<1>2. cache \in [Indicators -> {NotCached} \cup [result : Results, at : Nat]]
  BY DEF Init
<1>3. available \subseteq Providers /\ {p \in Providers : Kind[p] # "local"} \subseteq loaded
  BY DEF Init
<1> QED BY <1>1, <1>2, <1>3 DEF Caching, VerdictsGrounded

\* Only a provider whose list it is can flag an indicator: the local one when
\* it could read its file.
LEMMA FlagHasFeed ==
    ASSUME NEW p \in Providers, NEW i \in Indicators,
           {q \in Providers : Kind[q] # "local"} \subseteq loaded,
           "flag" \in Outcomes(p, i)
    PROVE  << p, i >> \in Feeds /\ p \in loaded
<1>1. /\ Listing(p, i) = "flag" => << p, i >> \in Feeds
      /\ Listing(p, i) \in {"flag", "clean"}
  BY DEF Listing
<1>2. i \notin Malformed /\ Kind[p] \in {"threatfox", "urlhaus", "local"}
  BY CtiAssumption DEF Outcomes
<1>3. CASE Kind[p] = "threatfox"
  BY <1>1, <1>2, <1>3 DEF Outcomes, ThreatFoxLookup
<1>4. CASE Kind[p] = "urlhaus"
  BY <1>1, <1>2, <1>4 DEF Outcomes, URLhausLookup
<1>5. CASE Kind[p] = "local"
  BY <1>1, <1>2, <1>5 DEF Outcomes, LocalLookup
<1> QED BY <1>2, <1>3, <1>4, <1>5

\* A verdict that is cached is one that the providers gave just now.
LEMMA AnswerCaches ==
    ASSUME Ledger, Caching, VerdictsGrounded, clock \in Nat,
           NEW outcome \in [available -> {"flag", "clean", "silent", "raw"}],
           Answer(outcome)
    PROVE  Caching' /\ VerdictsGrounded'
<1> DEFINE results == {p \in available : outcome[p] # "silent"}
           result  == Verdict(results, outcome)
           entry   == [result |-> result, at |-> clock]
<1>1. /\ Indicator \in Indicators
      /\ UNCHANGED << clock, available, loaded >>
      /\ \A p \in available : outcome[p] \in Outcomes(p, Indicator)
      /\ \/ UNCHANGED cache
         \/ cache' = [cache EXCEPT ![Indicator] = entry]
  BY IndicatorType DEF Answer
<1>2. /\ available \subseteq Providers
      /\ {p \in Providers : Kind[p] # "local"} \subseteq loaded
      /\ cache \in [Indicators -> {NotCached} \cup [result : Results, at : Nat]]
      /\ \A i \in Indicators : cache[i] # NotCached => cache[i].at <= clock
  BY DEF Caching
<1>3. result \in Results
  BY DEF Verdict, Results
<1>4. ASSUME result = "malicious"
      PROVE  \E p \in available \cap loaded : << p, Indicator >> \in Feeds
  <2>1. \E p \in available : outcome[p] = "flag"
    BY <1>4 DEF Verdict
  <2> QED BY <1>1, <1>2, <2>1, FlagHasFeed
<1>5. entry \in [result : Results, at : Nat] /\ entry.at = clock /\ entry.result = result
  BY <1>3
<1> HIDE DEF entry, result, results
<1>6. CASE UNCHANGED cache
  BY <1>1, <1>2, <1>6 DEF Caching, VerdictsGrounded
<1>7. CASE cache' = [cache EXCEPT ![Indicator] = entry]
  <2>1. /\ cache' \in [Indicators -> {NotCached} \cup [result : Results, at : Nat]]
        /\ cache'[Indicator] = entry
        /\ \A i \in Indicators : i # Indicator => cache'[i] = cache[i]
    BY <1>1, <1>2, <1>5, <1>7
  <2>2. Caching'
    BY <1>1, <1>2, <1>5, <2>1 DEF Caching
  <2>3. VerdictsGrounded'
    <3> SUFFICES ASSUME NEW i \in Indicators, cache'[i] # NotCached,
                        cache'[i].result = "malicious"
                 PROVE  \E p \in available \cap loaded : << p, i >> \in Feeds
      BY <1>1 DEF VerdictsGrounded
    <3>1. CASE i = Indicator
      BY <1>4, <1>5, <2>1, <3>1
    <3>2. CASE i # Indicator
      BY <2>1, <3>2 DEF VerdictsGrounded
    <3> QED BY <3>1, <3>2
  <2> QED BY <2>2, <2>3
<1> QED BY <1>1, <1>6, <1>7

LEMMA CachingStep ==
    Ledger /\ Caching /\ VerdictsGrounded /\ clock \in Nat /\ [Next]_vars
        => Caching' /\ VerdictsGrounded'
<1> SUFFICES ASSUME Ledger, Caching, VerdictsGrounded, clock \in Nat, [Next]_vars
             PROVE  Caching' /\ VerdictsGrounded'
  OBVIOUS
<1>1. /\ cache \in [Indicators -> {NotCached} \cup [result : Results, at : Nat]]
      /\ \A i \in Indicators : cache[i] # NotCached => cache[i].at <= clock
  BY DEF Caching
<1>2. CASE \E outcome \in [available -> {"flag", "clean", "silent", "raw"}] : Answer(outcome)
  BY <1>2, AnswerCaches
<1>3. CASE ClearCache
  <2>1. UNCHANGED << clock, available, loaded >> /\ cache' = [i \in Indicators |-> NotCached]
    BY <1>3 DEF ClearCache
  <2>2. \A i \in Indicators : cache'[i] = NotCached
    BY <2>1
  <2>3. cache' \in [Indicators -> {NotCached} \cup [result : Results, at : Nat]]
    BY <2>1
  <2> QED BY <2>1, <2>2, <2>3 DEF Caching, VerdictsGrounded
<1>4. CASE Tick
  <2>1. UNCHANGED << cache, available, loaded >> /\ clock' = clock + 1
    BY <1>4 DEF Tick
  <2>2. \A i \in Indicators : cache[i] # NotCached => cache[i].at <= clock'
    <3> SUFFICES ASSUME NEW i \in Indicators, cache[i] # NotCached
                 PROVE  cache[i].at <= clock'
      OBVIOUS
    <3>1. cache[i].at \in Nat /\ cache[i].at <= clock
      BY <1>1
    <3> QED BY <2>1, <3>1
  <2> QED BY <2>1, <2>2 DEF Caching, VerdictsGrounded
<1>5. CASE \/ \E a \in AlertsIn : TakeAlert(a)
           \/ CacheHit \/ RateLimited \/ Admit \/ NoProvider \/ CurrentLoad \/ UNCHANGED vars
  <2>1. UNCHANGED << clock, available, loaded, cache >>
    BY <1>5 DEF TakeAlert, CacheHit, RateLimited, Admit, NoProvider, CurrentLoad, vars
  <2> QED BY <2>1 DEF Caching, VerdictsGrounded
<1> QED BY <1>2, <1>3, <1>4, <1>5 DEF Next

LEMMA CtiAlways == Spec => [](Ledger /\ Returned /\ Caching /\ VerdictsGrounded)
<1> DEFINE Inv == Ledger /\ Returned /\ Caching /\ VerdictsGrounded
<1>1. Init => Inv
  BY LedgerInit, CachingInit
<1>2. Limiter /\ Inv /\ [Next]_vars => Inv'
  <2>1. Limiter => clock \in Nat
    BY DEF Limiter
  <2> QED BY <2>1, LedgerStep, CachingStep
<1> HIDE DEF Inv
<1>3. Spec => []Inv
  BY <1>1, <1>2, LimiterAlways, PTL DEF Spec
<1> QED BY <1>3 DEF Inv

\* Every look-up is about an indicator, and no cached result stems from the
\* future, whatever alerts are taken.
THEOREM CtiTyped == Spec => []TypeOK
<1>1. Ledger /\ Caching => TypeOK
  <2> SUFFICES ASSUME Ledger, Caching PROVE TypeOK
    OBVIOUS
  <2>1. phase # "idle" => Indicator \in Indicators
    BY IndicatorType
  <2>2. contribution \in 0..30
    BY GainType DEF Ledger
  <2>3. \A i \in Indicators : cache[i] # NotCached =>
          cache[i].result \in {"malicious", "clean", "nothing"} /\ cache[i].at <= clock
    BY DEF Caching, Results
  <2> QED BY <2>1, <2>2, <2>3, RoleFacts DEF TypeOK, Ledger, Caching, LookupStatuses
<1> QED BY <1>1, CtiAlways, PTL

\* An alert never passes off a look-up that the limiter skipped as one that
\* found nothing: its status tells.
THEOREM SkipsAreVisible == Spec => []SkipIsVisible
<1>1. Returned => SkipIsVisible
  BY DEF Returned
<1> QED BY <1>1, CtiAlways, PTL

\* An alert gains for each indicator that is flagged the weight of its role,
\* once, and nothing from the alert before it.
THEOREM ContributionsExact == Spec => []ContributionExact
<1>1. Returned => ContributionExact
  BY DEF Returned
<1> QED BY <1>1, CtiAlways, PTL

\* The cache calls no indicator malicious that no available feed lists.
THEOREM VerdictsHaveFeeds == Spec => []VerdictsGrounded
BY CtiAlways, PTL

=============================================================================
