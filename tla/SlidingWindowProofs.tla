------------------------ MODULE SlidingWindowProofs ------------------------
(***************************************************************************)
(* Proofs about SlidingWindow, for every window, slide, gap and input.     *)
(*                                                                         *)
(*   1. LeastElement, DivFacts: the arithmetic the definitions rest on.    *)
(*   2. StaleFacts .. ExpireEarlierIsNoOp: what _expire pops and keeps.    *)
(*   3. Typing: the state is well formed.                                  *)
(*   4. Delivery: under a dense input no flow is lost.                     *)
(*   5. Accounting: every flow is buffered or counted as expired.          *)
(*   6. Order: under an input in event order the deque is sorted, which is *)
(*      what bounds it and makes the windows nearly exact.                 *)
(***************************************************************************)
EXTENDS SlidingWindow, SequenceTheorems, FiniteSetTheorems, WellFoundedInduction,
        TLAPS

-----------------------------------------------------------------------------
(* Arithmetic *)

\* Every nonempty set of natural numbers has a least element.
LEMMA LeastElement ==
    ASSUME NEW S \in SUBSET Nat, S # {}
    PROVE  \E n \in S : \A m \in S : n <= m
<1>1. \E R : /\ IsWellFoundedOn(R, Nat)
             /\ \A m, n \in Nat : m < n => << m, n >> \in R
  <2>1. \A m, n \in Nat : m < n => << m, n >> \in OpToRel(<, Nat)
    BY DEF OpToRel
  <2>2. QED
    BY <2>1, NatLessThanWellFounded, Zenon
<1>2. PICK R : /\ IsWellFoundedOn(R, Nat)
               /\ \A m, n \in Nat : m < n => << m, n >> \in R
  BY <1>1, Zenon
<1>3. \E n \in S : \A m \in S : ~ (<< m, n >> \in R)
  <2>1. IsWellFoundedOn(R, Nat) /\ S \subseteq Nat /\ S # {}
    BY <1>2, Zenon
  <2>2. QED
    BY ONLY <2>1, WFMin
<1>4. \E n \in S : \A m \in S : ~ (m < n)
  BY <1>2, <1>3, Zenon
<1>5. QED
  BY <1>4

\* Integer division, as the number of whole slides in a stretch of time.
LEMMA DivFacts ==
    ASSUME NEW a \in Nat, NEW b \in Nat \ {0}
    PROVE  /\ a \div b \in Nat
           /\ (a \div b) * b <= a
           /\ a < (a \div b) * b + b
  OBVIOUS

-----------------------------------------------------------------------------
(* Expiry *)

\* A sequence of flows, element by element.
LEMMA FlowSeqFacts ==
    ASSUME NEW fl \in Seq(Flow)
    PROVE  /\ Len(fl) \in Nat
           /\ DOMAIN fl = 1..Len(fl)
           /\ \A i \in 1..Len(fl) : fl[i] \in Flow
           /\ \A i \in 1..Len(fl) : fl[i].ts \in Int
<1>1. Len(fl) \in Nat /\ DOMAIN fl = 1..Len(fl)
  BY LenProperties
<1>2. \A i \in 1..Len(fl) : fl[i] \in Flow
  BY ElementOfSeq
<1>3. \A f \in Flow : f.ts \in Int
  BY DEF Flow
<1>4. QED
  BY <1>1, <1>2, <1>3

\* _expire stops at the first flow that is not older than the cutoff: what
\* Stale counts exists, so the CHOOSE that defines it is no guess.
LEMMA StaleFacts ==
    ASSUME NEW fl \in Seq(Flow), NEW endMs \in Int
    PROVE  /\ Stale(fl, endMs) \in 0..Len(fl)
           /\ \A i \in 1..Stale(fl, endMs) : fl[i].ts < endMs - WindowMs
           /\ \/ Stale(fl, endMs) = Len(fl)
              \/ fl[Stale(fl, endMs) + 1].ts >= endMs - WindowMs
<1> DEFINE stops == {n \in 0..Len(fl) :
                       n = Len(fl) \/ fl[n + 1].ts >= endMs - WindowMs}
<1> USE WindowAssumption
<1>1. Len(fl) \in Nat /\ \A i \in 1..Len(fl) : fl[i].ts \in Int
  BY FlowSeqFacts
<1>2. Len(fl) \in stops /\ stops \in SUBSET Nat
  BY <1>1
<1>3. PICK n \in stops : \A m \in stops : n <= m
  BY <1>2, LeastElement
<1>4. \A i \in 1..n : fl[i].ts < endMs - WindowMs
  <2>1. SUFFICES ASSUME NEW i \in 1..n
                 PROVE  fl[i].ts < endMs - WindowMs
    OBVIOUS
  <2>2. i - 1 \in 0..Len(fl) /\ i - 1 < n /\ i \in 1..Len(fl)
    BY <1>1, <1>2, <1>3
  <2>3. i - 1 \notin stops
    <3>1. n \in Nat /\ ~ (n <= i - 1)
      BY <1>2, <2>2
    <3>2. QED
      BY <1>3, <3>1
  <2>4. ~ (fl[(i - 1) + 1].ts >= endMs - WindowMs)
    BY <2>2, <2>3
  <2>5. QED
    BY <1>1, <2>2, <2>4
<1>5. QED
  BY <1>1, <1>2, <1>3, <1>4 DEF Stale

\* What _expire leaves: the flows after the stale prefix, in order.
LEMMA ExpireFacts ==
    ASSUME NEW fl \in Seq(Flow), NEW endMs \in Int
    PROVE  /\ Expire(fl, endMs) \in Seq(Flow)
           /\ Len(Expire(fl, endMs)) = Len(fl) - Stale(fl, endMs)
           /\ \A i \in 1..(Len(fl) - Stale(fl, endMs)) :
                Expire(fl, endMs)[i] = fl[i + Stale(fl, endMs)]
<1> DEFINE k == Stale(fl, endMs)
<1>1. k \in 0..Len(fl) /\ Len(fl) \in Nat
  BY StaleFacts, LenProperties
<1>2. \A i \in (k + 1)..Len(fl) : fl[i] \in Flow
  BY <1>1, ElementOfSeq
<1> HIDE DEF k
<1>3. /\ SubSeq(fl, k + 1, Len(fl)) \in Seq(Flow)
      /\ Len(SubSeq(fl, k + 1, Len(fl))) =
           IF k + 1 <= Len(fl) THEN Len(fl) - (k + 1) + 1 ELSE 0
      /\ \A i \in 1..(Len(fl) - (k + 1) + 1) :
           SubSeq(fl, k + 1, Len(fl))[i] = fl[(k + 1) + i - 1]
  <2>1. k + 1 \in Int /\ Len(fl) \in Int
    BY <1>1
  <2>2. QED
    BY <1>2, <2>1, SubSeqProperties
<1>4. Expire(fl, endMs) = SubSeq(fl, k + 1, Len(fl))
  BY DEF Expire, k
<1>5. \A i \in 1..(Len(fl) - k) : fl[(k + 1) + i - 1] = fl[i + k]
  BY <1>1
<1>6. Len(SubSeq(fl, k + 1, Len(fl))) = Len(fl) - k
  BY <1>1, <1>3
<1>7. QED
  BY <1>1, <1>3, <1>4, <1>5, <1>6 DEF k

\* _expire separates the flows: each one is kept or older than the cutoff,
\* and none is invented.
LEMMA ExpirePartition ==
    ASSUME NEW fl \in Seq(Flow), NEW endMs \in Int
    PROVE  /\ FlowsOf(Expire(fl, endMs)) \subseteq FlowsOf(fl)
           /\ \A f \in FlowsOf(fl) \ FlowsOf(Expire(fl, endMs)) :
                f.ts < endMs - WindowMs
<1> DEFINE k == Stale(fl, endMs)
           live == Expire(fl, endMs)
<1>1. /\ k \in 0..Len(fl) /\ Len(fl) \in Nat
      /\ \A i \in 1..k : fl[i].ts < endMs - WindowMs
  BY StaleFacts, LenProperties
<1>2. /\ live \in Seq(Flow) /\ Len(live) = Len(fl) - k
      /\ \A i \in 1..(Len(fl) - k) : live[i] = fl[i + k]
  BY ExpireFacts
<1>3. DOMAIN fl = 1..Len(fl) /\ DOMAIN live = 1..(Len(fl) - k)
  BY <1>2, LenProperties
<1> HIDE DEF k, live
<1>4. \A i \in 1..(Len(fl) - k) : live[i] \in FlowsOf(fl)
  BY <1>1, <1>2, <1>3 DEF FlowsOf
<1>5. \A j \in 1..Len(fl) : j > k => fl[j] \in FlowsOf(live)
  <2>1. SUFFICES ASSUME NEW j \in 1..Len(fl), j > k
                 PROVE  fl[j] \in FlowsOf(live)
    OBVIOUS
  <2>2. j - k \in 1..(Len(fl) - k) /\ (j - k) + k = j
    BY <1>1, <2>1
  <2>3. live[j - k] = fl[j]
    BY <1>2, <2>2
  <2>4. QED
    BY <1>3, <2>2, <2>3 DEF FlowsOf
<1>6. FlowsOf(live) \subseteq FlowsOf(fl)
  BY <1>3, <1>4 DEF FlowsOf
<1>7. ASSUME NEW f \in FlowsOf(fl) \ FlowsOf(live)
      PROVE  f.ts < endMs - WindowMs
  <2>1. PICK j \in 1..Len(fl) : f = fl[j]
    BY <1>3 DEF FlowsOf
  <2>2. ~ (j > k)
    BY <1>5, <1>7, <2>1
  <2>3. QED
    BY <1>1, <2>1, <2>2
<1>8. QED
  BY <1>6, <1>7 DEF live

\* A flow no older than the cutoff is never popped when it is the newest in
\* the deque: after an add or a flush the deque ends at the flow that
\* triggered it.
LEMMA NewestSurvives ==
    ASSUME NEW fl \in Seq(Flow), fl # << >>, NEW endMs \in Int,
           NewestMs(fl) >= endMs - WindowMs
    PROVE  /\ Expire(fl, endMs) # << >>
           /\ NewestMs(Expire(fl, endMs)) = NewestMs(fl)
<1> DEFINE k == Stale(fl, endMs)
           live == Expire(fl, endMs)
<1> USE WindowAssumption
<1>1. /\ Len(fl) \in Nat \ {0}
      /\ k \in 0..Len(fl)
      /\ \A i \in 1..k : fl[i].ts < endMs - WindowMs
      /\ fl[Len(fl)].ts \in Int
  BY StaleFacts, EmptySeq, FlowSeqFacts
<1>2. /\ live \in Seq(Flow) /\ Len(live) = Len(fl) - k
      /\ \A i \in 1..(Len(fl) - k) : live[i] = fl[i + k]
  BY ExpireFacts
<1> HIDE DEF k, live
<1>3. k # Len(fl)
  BY <1>1 DEF NewestMs
<1>4. Len(live) \in Nat \ {0} /\ live[Len(live)] = fl[Len(fl)]
  BY <1>1, <1>2, <1>3
<1>5. live # << >>
  BY <1>4, EmptySeq
<1>6. QED
  BY <1>4, <1>5 DEF NewestMs, live

\* Expiring at an earlier window end after a later one pops nothing: the
\* expiry inside the loop of _advance is idle, which is why all windows of one
\* catch-up hold the same flows.
THEOREM ExpireEarlierIsNoOp ==
    ASSUME NEW fl \in Seq(Flow), NEW later \in Int, NEW earlier \in Int,
           earlier <= later
    PROVE  Expire(Expire(fl, later), earlier) = Expire(fl, later)
<1> DEFINE live == Expire(fl, later)
           k == Stale(fl, later)
           n == Stale(live, earlier)
<1> USE WindowAssumption
<1>1. /\ live \in Seq(Flow) /\ Len(live) = Len(fl) - k
      /\ \A i \in 1..(Len(fl) - k) : live[i] = fl[i + k]
  BY ExpireFacts
<1>2. /\ k \in 0..Len(fl) /\ Len(fl) \in Nat
      /\ k = Len(fl) \/ fl[k + 1].ts >= later - WindowMs
      /\ \A i \in 1..Len(fl) : fl[i].ts \in Int
  BY StaleFacts, FlowSeqFacts
<1>3. /\ n \in 0..Len(live)
      /\ \A i \in 1..n : live[i].ts < earlier - WindowMs
  BY <1>1, StaleFacts
<1>4. Expire(live, earlier) = SubSeq(live, n + 1, Len(live))
  BY DEF Expire
<1> HIDE DEF live, k, n
<1>5. n = 0
  <2>1. SUFFICES ASSUME n >= 1 PROVE FALSE
    BY <1>1, <1>2, <1>3
  <2>2. live[1].ts < earlier - WindowMs
    BY <1>1, <1>2, <1>3, <2>1
  <2>3. k # Len(fl) /\ live[1] = fl[k + 1] /\ k + 1 \in 1..Len(fl)
    BY <1>1, <1>2, <1>3, <2>1
  <2>4. QED
    BY <1>2, <2>2, <2>3
<1>6. SubSeq(live, 1, Len(live)) = live
  BY <1>1, SubSeqFull
<1>7. QED
  BY <1>4, <1>5, <1>6 DEF live

-----------------------------------------------------------------------------
(* Typing *)

\* TypeOK says delivered flows have arrived; that is inductive only together
\* with where delivered flows come from, the deque.
Typing == TypeOK /\ FlowsOf(flows) \subseteq arrived

\* What an add has in hand before it emits: the flow, the deque it is appended
\* to and the number of windows due.
LEMMA AppendFacts ==
    ASSUME Typing, NEW ts \in Int, NEW src \in Sources,
           NEW new, new = [ts |-> ts, seq |-> sequence + 1, src |-> src]
    PROVE  /\ new \in Flow
           /\ Append(flows, new) \in Seq(Flow)
           /\ Append(flows, new) # << >>
           /\ NewestMs(Append(flows, new)) = ts
           /\ FlowsOf(Append(flows, new)) = FlowsOf(flows) \cup {new}
<1>1. new \in Flow /\ new.ts = ts
  BY DEF Typing, TypeOK, Flow
<1>2. flows \in Seq(Flow) /\ Len(flows) \in Nat /\ DOMAIN flows = 1..Len(flows)
  BY FlowSeqFacts DEF Typing, TypeOK
<1>3. /\ Append(flows, new) \in Seq(Flow)
      /\ Len(Append(flows, new)) = Len(flows) + 1
      /\ \A i \in 1..Len(flows) : Append(flows, new)[i] = flows[i]
      /\ Append(flows, new)[Len(flows) + 1] = new
  BY <1>1, <1>2, AppendProperties
<1>4. DOMAIN Append(flows, new) = 1..(Len(flows) + 1)
  BY <1>3, LenProperties
<1>5. Append(flows, new) # << >>
  BY <1>2, <1>3, EmptySeq
<1>6. NewestMs(Append(flows, new)) = ts
  BY <1>1, <1>3 DEF NewestMs
<1>7. FlowsOf(Append(flows, new)) = FlowsOf(flows) \cup {new}
  <2>1. \A i \in 1..(Len(flows) + 1) : i \in 1..Len(flows) \/ i = Len(flows) + 1
    BY <1>2
  <2>2. \A i \in 1..Len(flows) : i \in 1..(Len(flows) + 1)
    BY <1>2
  <2>3. Len(flows) + 1 \in 1..(Len(flows) + 1)
    BY <1>2
  <2>4. QED
    BY <1>2, <1>3, <1>4, <2>1, <2>2, <2>3 DEF FlowsOf
<1>8. QED
  BY <1>1, <1>3, <1>5, <1>6, <1>7

\* The number of windows due and the end of the last of them: less than one
\* slide of event time is left over.
LEMMA DueFacts ==
    ASSUME TypeOK, NEW ts \in Int
    PROVE  /\ DueCount(ts) \in Nat
           /\ EmitAnchor(ts) \in Int
           /\ lastEmitMs = NoEmit => EmitAnchor(ts) = ts /\ DueCount(ts) = 0
           /\ lastEmitMs # NoEmit =>
                EmitAnchor(ts) = lastEmitMs + DueCount(ts) * SlideMs
           /\ lastEmitMs # NoEmit /\ ts >= lastEmitMs =>
                /\ EmitAnchor(ts) <= ts
                /\ ts < EmitAnchor(ts) + SlideMs
<1> USE WindowAssumption
<1>1. SlideMs \in Nat \ {0}
  OBVIOUS
<1>2. CASE lastEmitMs = NoEmit
  BY <1>2 DEF DueCount, EmitAnchor
<1>3. CASE lastEmitMs # NoEmit /\ ts < lastEmitMs
  <2>1. lastEmitMs \in Int
    BY <1>3 DEF TypeOK
  <2>2. DueCount(ts) = 0 /\ EmitAnchor(ts) = lastEmitMs + 0 * SlideMs
    BY <1>3 DEF DueCount, EmitAnchor
  <2>3. QED
    BY <1>1, <1>3, <2>1, <2>2
<1>4. CASE lastEmitMs # NoEmit /\ ~ (ts < lastEmitMs)
  <2>1. lastEmitMs \in Int /\ ts - lastEmitMs \in Nat
    BY <1>4 DEF TypeOK
  <2>2. DueCount(ts) = (ts - lastEmitMs) \div SlideMs
    BY <1>4 DEF DueCount
  <2>3. /\ DueCount(ts) \in Nat
        /\ DueCount(ts) * SlideMs <= ts - lastEmitMs
        /\ ts - lastEmitMs < DueCount(ts) * SlideMs + SlideMs
    BY <1>1, <2>1, <2>2, DivFacts
  <2>4. EmitAnchor(ts) = lastEmitMs + DueCount(ts) * SlideMs
    BY <1>4 DEF EmitAnchor
  <2>5. DueCount(ts) * SlideMs \in Int
    BY <1>1, <2>3
  <2> DEFINE span == DueCount(ts) * SlideMs
  <2> HIDE DEF span
  <2>6. QED
    BY <1>1, <1>4, <2>1, <2>3, <2>4, <2>5
<1>5. QED
  BY <1>2, <1>3, <1>4

\* Timestamps of the input are integers.
LEMMA EventTimesInt ==
    ASSUME TypeOK
    PROVE  EventTimes \subseteq Int
<1>1. CASE flows = << >>
  BY <1>1, WindowAssumption DEF EventTimes
<1>2. CASE flows # << >>
  <2>1. Len(flows) \in 1..Len(flows) /\ flows[Len(flows)].ts \in Int
    BY <1>2, EmptySeq, FlowSeqFacts DEF TypeOK
  <2>2. Deltas \subseteq Int
    BY WindowAssumption
  <2>3. EventTimes = {NewestMs(flows) + d : d \in Deltas}
    BY <1>2 DEF EventTimes
  <2>4. NewestMs(flows) \in Int
    BY <2>1 DEF NewestMs
  <2>5. \A d \in Deltas : NewestMs(flows) + d \in Int
    BY <2>2, <2>4
  <2>6. QED
    BY <2>3, <2>5
<1>3. QED
  BY <1>1, <1>2

\* The sources of a window are sources.
LEMMA SourcesTyped ==
    ASSUME NEW fl \in Seq(Flow)
    PROVE  SourcesOf(fl) \in SUBSET Sources
  BY FlowSeqFacts DEF SourcesOf, Flow

\* One lemma for what both add and flush do to the deque.
LEMMA ExpireTyped ==
    ASSUME NEW fl \in Seq(Flow), NEW endMs \in Int
    PROVE  /\ Expire(fl, endMs) \in Seq(Flow)
           /\ FlowsOf(Expire(fl, endMs)) \subseteq FlowsOf(fl)
           /\ Stale(fl, endMs) \in Nat
           /\ SourcesOf(Expire(fl, endMs)) \in SUBSET Sources
<1>1. Expire(fl, endMs) \in Seq(Flow)
  BY ExpireFacts
<1>2. Stale(fl, endMs) \in 0..Len(fl) /\ Len(fl) \in Nat
  BY StaleFacts, FlowSeqFacts
<1>3. Stale(fl, endMs) \in Nat
  BY <1>2
<1>4. SourcesOf(Expire(fl, endMs)) \in SUBSET Sources
  BY <1>1, SourcesTyped
<1>5. QED
  BY <1>1, <1>3, <1>4, ExpirePartition

LEMMA TypingInit == Init => Typing
<1>1. SUFFICES ASSUME Init PROVE Typing
  OBVIOUS
<1>2. << >> \in Seq(Flow) /\ << >> \in Seq(Nat)
  BY EmptySeq
<1>3. FlowsOf(<< >>) = {}
  BY DEF FlowsOf
<1>4. QED
  BY <1>1, <1>2, <1>3 DEF Init, Typing, TypeOK

LEMMA TypingAddTimestamped ==
    ASSUME Typing, NEW ts \in Int, NEW src \in Sources, AddTimestamped(ts, src)
    PROVE  Typing'
<1> DEFINE new  == [ts |-> ts, seq |-> sequence + 1, src |-> src]
           live == Expire(Append(flows, new), ts)
<1>1. /\ new \in Flow
      /\ Append(flows, new) \in Seq(Flow)
      /\ FlowsOf(Append(flows, new)) = FlowsOf(flows) \cup {new}
  BY AppendFacts
<1>2. /\ live \in Seq(Flow)
      /\ FlowsOf(live) \subseteq FlowsOf(flows) \cup {new}
      /\ Stale(Append(flows, new), ts) \in Nat
      /\ SourcesOf(live) \in SUBSET Sources
  BY <1>1, ExpireTyped
<1>3. DueCount(ts) \in Nat /\ EmitAnchor(ts) \in Int
  BY DueFacts DEF Typing
<1>4. /\ sequence' = sequence + 1
      /\ flows' = live
      /\ expiredTotal' = expiredTotal + Stale(Append(flows, new), ts)
      /\ lastEmitMs' = EmitAnchor(ts)
      /\ nextWindowId' = nextWindowId + DueCount(ts)
      /\ previousSources' = previousSources \/ previousSources' = SourcesOf(live)
      /\ arrived' = arrived \cup {new}
      /\ delivered' = delivered \/ delivered' = delivered \cup FlowsOf(live)
      /\ untimestamped' = untimestamped
  BY DEF AddTimestamped
<1> HIDE DEF live, new
<1>5. QED
  BY <1>1, <1>2, <1>3, <1>4 DEF Typing, TypeOK

LEMMA TypingNext == Typing /\ [Next]_vars => Typing'
<1> SUFFICES ASSUME Typing, [Next]_vars PROVE Typing'
  OBVIOUS
<1>1. CASE AddUntimestamped
  <2>1. untimestamped' \in Seq(Nat)
    <3>1. untimestamped \in Seq(Nat) /\ sequence + 1 \in Nat
      BY DEF Typing, TypeOK
    <3>2. /\ Append(untimestamped, sequence + 1) \in Seq(Nat)
          /\ Append(untimestamped, sequence + 1) # << >>
      BY <3>1, AppendProperties, EmptySeq
    <3>3. Tail(Append(untimestamped, sequence + 1)) \in Seq(Nat)
      BY <3>2, HeadTailProperties
    <3>4. QED
      BY <1>1, <3>2, <3>3 DEF AddUntimestamped
  <2>2. sequence' \in Nat
    BY <1>1 DEF AddUntimestamped, Typing, TypeOK
  <2>3. QED
    BY <1>1, <2>1, <2>2 DEF AddUntimestamped, Typing, TypeOK
<1>2. ASSUME NEW ts \in EventTimes, NEW src \in Sources, AddTimestamped(ts, src)
      PROVE  Typing'
  BY <1>2, EventTimesInt, TypingAddTimestamped DEF Typing
<1>3. CASE Flush
  <2> DEFINE endMs == NewestMs(flows)
             live  == Expire(flows, endMs)
  <2>1. flows \in Seq(Flow) /\ endMs \in Int
    BY <1>3, EmptySeq, FlowSeqFacts DEF Flush, Typing, TypeOK, NewestMs
  <2>2. /\ live \in Seq(Flow)
        /\ FlowsOf(live) \subseteq FlowsOf(flows)
        /\ Stale(flows, endMs) \in Nat
        /\ SourcesOf(live) \in SUBSET Sources
    BY <2>1, ExpireTyped
  <2>3. /\ flows' = live
        /\ expiredTotal' = expiredTotal + Stale(flows, endMs)
        /\ nextWindowId' = nextWindowId + 1
        /\ lastEmitMs' = endMs
        /\ previousSources' = SourcesOf(live)
        /\ delivered' = delivered \cup FlowsOf(live)
        /\ UNCHANGED << untimestamped, sequence, arrived >>
    BY <1>3 DEF Flush
  <2> HIDE DEF endMs, live
  <2>4. QED
    BY <2>1, <2>2, <2>3 DEF Typing, TypeOK
<1>4. CASE UNCHANGED vars
  BY <1>4 DEF vars, Typing, TypeOK
<1>5. QED
  BY <1>1, <1>2, <1>3, <1>4 DEF Next

\* The window's state is always well formed: the deque and the kept-apart
\* flows hold what add() put there, counters are natural numbers, and only
\* flows that arrived are ever delivered.
THEOREM TypeCorrect == Spec => []TypeOK
<1>1. Spec => []Typing
  BY TypingInit, TypingNext, PTL DEF Spec
<1>2. Typing => TypeOK
  BY DEF Typing
<1>3. QED
  BY <1>1, <1>2, PTL

-----------------------------------------------------------------------------
(* Delivery *)

\* Why no flow is lost: a flow that no window has shown yet is never older
\* than the last window's end, which is less than one slide behind the newest
\* flow; a dense input cannot push the cutoff past it in one step.
DeliveryInv ==
    /\ Typing
    /\ lastEmitMs = NoEmit => flows = << >> /\ arrived = {}
    /\ lastEmitMs # NoEmit =>
         /\ flows # << >>
         /\ NewestMs(flows) - lastEmitMs \in 0..(SlideMs - 1)
         /\ \A f \in FlowsOf(flows) \ delivered : f.ts >= lastEmitMs
    /\ NoFlowLost

LEMMA DeliveryInit == Init => DeliveryInv
  BY TypingInit DEF Init, DeliveryInv, NoFlowLost, FlowsOf

\* What DeliveryInv says of a state in which a window grid is anchored.
LEMMA AnchoredFacts ==
    ASSUME DeliveryInv, flows # << >>
    PROVE  /\ flows \in Seq(Flow)
           /\ lastEmitMs \in Int
           /\ NewestMs(flows) \in Int
           /\ lastEmitMs <= NewestMs(flows)
           /\ NewestMs(flows) < lastEmitMs + SlideMs
           /\ \A f \in FlowsOf(flows) \ delivered : f.ts >= lastEmitMs
           /\ \A f \in FlowsOf(flows) : f.ts \in Int
<1> USE WindowAssumption
<1>1. lastEmitMs # NoEmit /\ lastEmitMs \in Int /\ flows \in Seq(Flow)
  BY DEF DeliveryInv, Typing, TypeOK
<1>2. NewestMs(flows) \in Int
  BY <1>1, EmptySeq, FlowSeqFacts DEF NewestMs
<1>3. NewestMs(flows) - lastEmitMs \in 0..(SlideMs - 1)
  BY <1>1 DEF DeliveryInv
<1>4. \A f \in FlowsOf(flows) : f.ts \in Int
  BY <1>1, FlowSeqFacts DEF FlowsOf
<1>5. QED
  BY <1>1, <1>2, <1>3, <1>4 DEF DeliveryInv

LEMMA DeliveryAddTimestamped ==
    ASSUME Dense, DeliveryInv, NEW ts \in EventTimes, NEW src \in Sources,
           AddTimestamped(ts, src)
    PROVE  DeliveryInv'
<1> DEFINE new  == [ts |-> ts, seq |-> sequence + 1, src |-> src]
           all  == Append(flows, new)
           live == Expire(all, ts)
<1> USE WindowAssumption
<1>1. Typing /\ TypeOK /\ ts \in Int
  BY EventTimesInt DEF DeliveryInv, Typing
<1>2. Typing'
  BY <1>1, TypingAddTimestamped
<1>3. /\ new \in Flow /\ all \in Seq(Flow) /\ all # << >>
      /\ NewestMs(all) = ts
      /\ FlowsOf(all) = FlowsOf(flows) \cup {new}
  BY <1>1, AppendFacts
<1>4. live # << >> /\ NewestMs(live) = ts
  <2>1. NewestMs(all) >= ts - WindowMs
    BY <1>1, <1>3
  <2>2. QED
    BY <1>1, <1>3, <2>1, NewestSurvives
<1>5. /\ FlowsOf(live) \subseteq FlowsOf(flows) \cup {new}
      /\ \A f \in (FlowsOf(flows) \cup {new}) \ FlowsOf(live) : f.ts < ts - WindowMs
  BY <1>1, <1>3, ExpirePartition
<1>6. new.ts = ts /\ new \in FlowsOf(live)
  <2>1. new.ts = ts
    OBVIOUS
  <2>2. ~ (ts < ts - WindowMs)
    BY <1>1
  <2>3. QED
    BY <1>5, <2>1, <2>2
<1>7. /\ flows' = live
      /\ lastEmitMs' = EmitAnchor(ts)
      /\ arrived' = arrived \cup {new}
      /\ delivered' = IF DueCount(ts) = 0 THEN delivered
                      ELSE delivered \cup FlowsOf(live)
  BY DEF AddTimestamped
<1>8. EmitAnchor(ts) \in Int /\ lastEmitMs' # NoEmit
  BY <1>1, <1>7, DueFacts
<1> HIDE DEF new, all, live
<1>9. CASE flows = << >>
  <2>1. lastEmitMs = NoEmit /\ arrived = {} /\ FlowsOf(flows) = {}
    BY <1>9 DEF DeliveryInv, FlowsOf
  <2>2. EmitAnchor(ts) = ts /\ DueCount(ts) = 0
    BY <1>1, <2>1, DueFacts
  <2>3. NewestMs(flows') - lastEmitMs' \in 0..(SlideMs - 1)
    BY <1>1, <1>4, <1>7, <2>2
  <2>4. \A f \in FlowsOf(flows') \ delivered' : f.ts >= lastEmitMs'
    BY <1>1, <1>5, <1>6, <1>7, <2>1, <2>2
  <2>5. NoFlowLost'
    BY <1>6, <1>7, <2>1 DEF NoFlowLost
  <2>6. QED
    BY <1>2, <1>4, <1>7, <1>8, <2>3, <2>4, <2>5 DEF DeliveryInv
<1>10. CASE flows # << >>
  <2> DEFINE prev == NewestMs(flows)
  <2>1. /\ lastEmitMs \in Int /\ prev \in Int
        /\ lastEmitMs <= prev /\ prev < lastEmitMs + SlideMs
        /\ \A f \in FlowsOf(flows) \ delivered : f.ts >= lastEmitMs
        /\ \A f \in FlowsOf(flows) : f.ts \in Int
    BY <1>10, AnchoredFacts
  <2>2. lastEmitMs # NoEmit
    BY <2>1
  <2>3. PICK d \in Deltas : ts = prev + d
    BY <1>10 DEF EventTimes
  <2>4. d \in Int /\ 0 <= d /\ d <= WindowMs - SlideMs + 1
    BY DEF Dense, InOrder
  <2> HIDE DEF prev
  <2>5. ts >= lastEmitMs /\ ts - WindowMs <= lastEmitMs
    BY <1>1, <2>1, <2>3, <2>4
  <2>6. NewestMs(flows') - lastEmitMs' \in 0..(SlideMs - 1)
    <3>1. EmitAnchor(ts) <= ts /\ ts < EmitAnchor(ts) + SlideMs
      BY <1>1, <2>2, <2>5, DueFacts
    <3>2. NewestMs(flows') = ts /\ lastEmitMs' = EmitAnchor(ts)
      BY <1>4, <1>7
    <3>3. QED
      BY <1>1, <1>8, <3>1, <3>2
  <2>7. \A f \in FlowsOf(flows') \ delivered' : f.ts >= lastEmitMs'
    <3>1. CASE DueCount(ts) = 0
      <4>1. EmitAnchor(ts) = lastEmitMs + 0 * SlideMs
        BY <1>1, <2>2, <3>1, DueFacts
      <4>2. lastEmitMs' = lastEmitMs /\ delivered' = delivered
        BY <1>7, <2>1, <3>1, <4>1
      <4>3. QED
        BY <1>5, <1>6, <1>7, <2>1, <2>5, <4>2
    <3>2. CASE DueCount(ts) # 0
      BY <1>7, <3>2
    <3>3. QED
      BY <3>1, <3>2
  <2>8. NoFlowLost'
    <3>1. SUFFICES ASSUME NEW f \in arrived, f \notin delivered
                   PROVE  f \in FlowsOf(live)
      BY <1>6, <1>7 DEF NoFlowLost
    <3>2. f \in FlowsOf(flows) /\ f.ts >= lastEmitMs /\ f.ts \in Int
      BY <2>1, <3>1 DEF DeliveryInv, NoFlowLost
    <3>3. ~ (f.ts < ts - WindowMs)
      BY <1>1, <2>1, <2>5, <3>2
    <3>4. QED
      BY <1>5, <3>2, <3>3
  <2>9. QED
    BY <1>2, <1>4, <1>7, <1>8, <2>6, <2>7, <2>8 DEF DeliveryInv
<1>11. QED
  BY <1>9, <1>10

LEMMA DeliveryFlush ==
    ASSUME DeliveryInv, Flush
    PROVE  DeliveryInv'
<1> DEFINE endMs == NewestMs(flows)
           live  == Expire(flows, endMs)
<1> USE WindowAssumption
<1>1. Typing' /\ flows # << >>
  BY TypingNext DEF DeliveryInv, Next, Flush
<1>2. /\ flows \in Seq(Flow) /\ lastEmitMs \in Int /\ endMs \in Int
      /\ lastEmitMs <= endMs /\ endMs < lastEmitMs + SlideMs
      /\ \A f \in FlowsOf(flows) \ delivered : f.ts >= lastEmitMs
      /\ \A f \in FlowsOf(flows) : f.ts \in Int
  BY <1>1, AnchoredFacts
<1>3. live # << >> /\ NewestMs(live) = endMs
  BY <1>1, <1>2, NewestSurvives
<1>4. /\ FlowsOf(live) \subseteq FlowsOf(flows)
      /\ \A f \in FlowsOf(flows) \ FlowsOf(live) : f.ts < endMs - WindowMs
  BY <1>2, ExpirePartition
<1>5. /\ flows' = live
      /\ lastEmitMs' = endMs
      /\ delivered' = delivered \cup FlowsOf(live)
      /\ arrived' = arrived
  BY DEF Flush
<1> HIDE DEF endMs, live
<1>6. lastEmitMs' # NoEmit /\ NewestMs(flows') - lastEmitMs' \in 0..(SlideMs - 1)
  BY <1>2, <1>3, <1>5
<1>7. NoFlowLost'
  <2>1. SUFFICES ASSUME NEW f \in arrived, f \notin delivered
                 PROVE  f \in FlowsOf(live)
    BY <1>5 DEF NoFlowLost
  <2>2. f \in FlowsOf(flows) /\ f.ts >= lastEmitMs /\ f.ts \in Int
    BY <1>2, <2>1 DEF DeliveryInv, NoFlowLost
  <2>3. ~ (f.ts < endMs - WindowMs)
    BY <1>2, <2>2
  <2>4. QED
    BY <1>4, <2>2, <2>3
<1>8. QED
  BY <1>1, <1>3, <1>5, <1>6, <1>7 DEF DeliveryInv

LEMMA DeliveryNext ==
    ASSUME Dense
    PROVE  DeliveryInv /\ [Next]_vars => DeliveryInv'
<1> SUFFICES ASSUME DeliveryInv, [Next]_vars PROVE DeliveryInv'
  OBVIOUS
<1>1. CASE AddUntimestamped
  <2>1. Typing'
    BY <1>1, TypingNext DEF DeliveryInv, Next
  <2>2. UNCHANGED << flows, lastEmitMs, arrived, delivered >>
    BY <1>1 DEF AddUntimestamped
  <2>3. QED
    BY <2>1, <2>2 DEF DeliveryInv, NoFlowLost
<1>2. ASSUME NEW ts \in EventTimes, NEW src \in Sources, AddTimestamped(ts, src)
      PROVE  DeliveryInv'
  BY <1>2, DeliveryAddTimestamped
<1>3. CASE Flush
  BY <1>3, DeliveryFlush
<1>4. CASE UNCHANGED vars
  <2>1. Typing'
    BY <1>4, TypingNext DEF DeliveryInv
  <2>2. UNCHANGED << flows, lastEmitMs, arrived, delivered >>
    BY <1>4 DEF vars
  <2>3. QED
    BY <2>1, <2>2 DEF DeliveryInv, NoFlowLost
<1>5. QED
  BY <1>1, <1>2, <1>3, <1>4 DEF Next

\* For a stream in event order whose silences do not exceed
\* WindowMs - SlideMs + 1, whatever the window and the slide: every flow is
\* shown to the detectors in some window before add() or flush() expires it.
THEOREM DenseStreamsLoseNothing ==
    ASSUME Dense
    PROVE  Spec => []NoFlowLost
<1>1. DeliveryInv /\ [Next]_vars => DeliveryInv'
  BY DeliveryNext
<1>2. DeliveryInv => NoFlowLost
  BY DEF DeliveryInv
<1>3. QED
  BY DeliveryInit, <1>1, <1>2, PTL DEF Spec

-----------------------------------------------------------------------------
(* Accounting *)

\* A new flow is none of the earlier ones, since their sequence numbers are
\* smaller; so the number of flows that arrived grows with each.
AccountInv ==
    /\ Typing
    /\ IsFiniteSet(arrived)
    /\ \A f \in arrived : f.seq <= sequence
    /\ ExpiryAccounted

LEMMA AccountAddTimestamped ==
    ASSUME AccountInv, NEW ts \in Int, NEW src \in Sources, AddTimestamped(ts, src)
    PROVE  AccountInv'
<1> DEFINE new == [ts |-> ts, seq |-> sequence + 1, src |-> src]
           all == Append(flows, new)
           k   == Stale(all, ts)
<1>1. Typing /\ Typing' /\ sequence \in Nat /\ expiredTotal \in Nat
      /\ flows \in Seq(Flow) /\ Len(flows) \in Nat
  BY TypingAddTimestamped, FlowSeqFacts DEF AccountInv, Typing, TypeOK
<1>2. new \in Flow /\ new.seq = sequence + 1 /\ all \in Seq(Flow)
      /\ Len(all) = Len(flows) + 1
  <2>1. new \in Flow /\ all \in Seq(Flow)
    BY <1>1, AppendFacts
  <2> HIDE DEF new
  <2>2. Len(all) = Len(flows) + 1
    BY <1>1, <2>1, AppendProperties
  <2> QED BY <2>1, <2>2 DEF new
<1>3. k \in 0..Len(all) /\ Len(Expire(all, ts)) = Len(all) - k
  BY <1>2, StaleFacts, ExpireFacts
<1>4. /\ sequence' = sequence + 1 /\ flows' = Expire(all, ts)
      /\ expiredTotal' = expiredTotal + k /\ arrived' = arrived \cup {new}
  BY DEF AddTimestamped
<1> HIDE DEF new, all, k
<1>5. new \notin arrived
  <2>1. ~ (sequence + 1 <= sequence)
    BY <1>1
  <2> QED BY <1>2, <2>1 DEF AccountInv
<1>6. IsFiniteSet(arrived') /\ Cardinality(arrived') = Cardinality(arrived) + 1
      /\ Cardinality(arrived) \in Nat
  BY <1>4, <1>5, FS_AddElement, FS_CardinalityType DEF AccountInv
<1>7. ExpiryAccounted'
  BY <1>1, <1>2, <1>3, <1>4, <1>6 DEF AccountInv, ExpiryAccounted
<1>8. \A f \in arrived' : f.seq <= sequence'
  <2>1. \A f \in arrived : f.seq <= sequence /\ f.seq \in Nat
    BY DEF AccountInv, Typing, TypeOK, Flow
  <2> QED BY <1>1, <1>2, <1>4, <2>1
<1>9. QED
  BY <1>1, <1>6, <1>7, <1>8 DEF AccountInv

LEMMA AccountStep ==
    /\ Init => AccountInv
    /\ AccountInv /\ [Next]_vars => AccountInv'
<1>1. ASSUME Init PROVE AccountInv
  <2>1. arrived = {} /\ expiredTotal = 0 /\ Len(flows) = 0
    BY <1>1 DEF Init
  <2>2. QED
    BY <1>1, <2>1, TypingInit, FS_EmptySet DEF AccountInv, ExpiryAccounted
<1>2. ASSUME AccountInv, [Next]_vars PROVE AccountInv'
  <2>0. Typing'
    BY <1>2, TypingNext DEF AccountInv
  <2>1. CASE AddUntimestamped
    <3>1. sequence' = sequence + 1 /\ UNCHANGED << flows, expiredTotal, arrived >>
      BY <2>1 DEF AddUntimestamped
    <3>2. \A f \in arrived : f.seq <= sequence'
      <4>1. \A f \in arrived : f.seq <= sequence /\ f.seq \in Nat /\ sequence \in Nat
        BY <1>2 DEF AccountInv, Typing, TypeOK, Flow
      <4> QED BY <3>1, <4>1
    <3> QED BY <1>2, <2>0, <3>1, <3>2 DEF AccountInv, ExpiryAccounted
  <2>2. ASSUME NEW ts \in EventTimes, NEW src \in Sources, AddTimestamped(ts, src)
        PROVE  AccountInv'
    BY <1>2, <2>2, EventTimesInt, AccountAddTimestamped DEF AccountInv, Typing
  <2>3. CASE Flush
    <3> DEFINE endMs == NewestMs(flows)
               k     == Stale(flows, endMs)
    <3>1. flows \in Seq(Flow) /\ endMs \in Int /\ Len(flows) \in Nat /\ expiredTotal \in Nat
      BY <1>2, <2>3, EmptySeq, FlowSeqFacts
         DEF Flush, AccountInv, Typing, TypeOK, NewestMs
    <3>2. k \in 0..Len(flows) /\ Len(Expire(flows, endMs)) = Len(flows) - k
      BY <3>1, StaleFacts, ExpireFacts
    <3>3. /\ flows' = Expire(flows, endMs) /\ expiredTotal' = expiredTotal + k
          /\ UNCHANGED << sequence, arrived >>
      BY <2>3 DEF Flush
    <3> HIDE DEF k, endMs
    <3>4. ExpiryAccounted'
      BY <1>2, <3>1, <3>2, <3>3 DEF AccountInv, ExpiryAccounted
    <3> QED BY <1>2, <2>0, <3>3, <3>4 DEF AccountInv
  <2>4. CASE UNCHANGED vars
    <3>1. UNCHANGED << flows, expiredTotal, arrived, sequence >>
      BY <2>4 DEF vars
    <3> QED BY <1>2, <2>0, <3>1 DEF AccountInv, ExpiryAccounted
  <2> QED BY <1>2, <2>1, <2>2, <2>3, <2>4 DEF Next
<1>3. QED
  BY <1>1, <1>2

\* expired_total is exact, in whatever order the flows come: _expire counts
\* each flow that it pops once, and no flow leaves the deque otherwise.
THEOREM ExpiryIsExact == Spec => []ExpiryAccounted
<1>1. Init => AccountInv
  BY AccountStep
<1>2. AccountInv /\ [Next]_vars => AccountInv'
  BY AccountStep
<1>3. AccountInv => ExpiryAccounted
  BY DEF AccountInv
<1>4. QED
  BY <1>1, <1>2, <1>3, PTL DEF Spec

-----------------------------------------------------------------------------
(* Order *)

Ordered(fl) == \A i, j \in 1..Len(fl) : i < j => fl[i].ts <= fl[j].ts

\* All flows of fl lie in the window that ends at endMs.
Within(fl, endMs) ==
    \A f \in FlowsOf(fl) : f.ts >= endMs - WindowMs /\ f.ts <= endMs

\* Expiring a sorted deque at its newest flow leaves it sorted, and nothing
\* outside the window: the prefix that _expire pops is all that is too old.
LEMMA ExpireOrdered ==
    ASSUME NEW fl \in Seq(Flow), fl # << >>, Ordered(fl)
    PROVE  /\ Ordered(Expire(fl, NewestMs(fl)))
           /\ Within(Expire(fl, NewestMs(fl)), NewestMs(fl))
<1> DEFINE endMs == NewestMs(fl)
           live == Expire(fl, endMs)
           k == Stale(fl, endMs)
<1> USE WindowAssumption
<1>1. /\ Len(fl) \in Nat \ {0} /\ endMs = fl[Len(fl)].ts
      /\ \A i \in 1..Len(fl) : fl[i].ts \in Int
  BY EmptySeq, FlowSeqFacts DEF NewestMs
<1>2. endMs \in Int
  BY <1>1
<1>3. /\ k \in 0..Len(fl)
      /\ k = Len(fl) \/ fl[k + 1].ts >= endMs - WindowMs
  BY <1>2, StaleFacts
<1>4. /\ live \in Seq(Flow) /\ Len(live) = Len(fl) - k
      /\ \A i \in 1..(Len(fl) - k) : live[i] = fl[i + k]
  BY <1>2, ExpireFacts
<1>5. DOMAIN live = 1..(Len(fl) - k)
  BY <1>4, LenProperties
<1> HIDE DEF live, k, endMs
<1>6. \A i, j \in 1..Len(fl) : i <= j => fl[i].ts <= fl[j].ts
  BY <1>1 DEF Ordered
<1>7. ASSUME NEW i \in 1..(Len(fl) - k)
      PROVE  /\ live[i] = fl[i + k] /\ i + k \in 1..Len(fl)
             /\ live[i].ts >= endMs - WindowMs /\ live[i].ts <= endMs
  <2>1. i + k \in 1..Len(fl) /\ k + 1 \in 1..Len(fl) /\ k + 1 <= i + k
        /\ Len(fl) \in 1..Len(fl) /\ k # Len(fl)
    BY <1>1, <1>3
  <2>2. fl[k + 1].ts <= fl[i + k].ts /\ fl[i + k].ts <= endMs
    BY <1>1, <1>6, <2>1
  <2>3. fl[k + 1].ts \in Int /\ fl[i + k].ts \in Int /\ fl[k + 1].ts >= endMs - WindowMs
    BY <1>1, <1>3, <2>1
  <2>4. QED
    BY <1>2, <1>4, <2>1, <2>2, <2>3
<1>8. Ordered(live)
  <2>1. ASSUME NEW i \in 1..Len(live), NEW j \in 1..Len(live), i < j
        PROVE  live[i].ts <= live[j].ts
    <3>1. i \in 1..(Len(fl) - k) /\ j \in 1..(Len(fl) - k) /\ i + k <= j + k
      BY <1>1, <1>3, <1>4, <2>1
    <3>2. i + k \in 1..Len(fl) /\ j + k \in 1..Len(fl)
          /\ live[i] = fl[i + k] /\ live[j] = fl[j + k]
      BY <1>7, <3>1
    <3>3. QED
      BY <1>6, <3>1, <3>2
  <2>2. QED
    BY <2>1 DEF Ordered
<1>9. Within(live, endMs)
  BY <1>5, <1>7 DEF Within, FlowsOf
<1>10. QED
  BY <1>8, <1>9 DEF live, endMs

\* A flow that is not older than the newest one keeps the deque sorted.
LEMMA AppendOrdered ==
    ASSUME NEW fl \in Seq(Flow), Ordered(fl), NEW new \in Flow,
           fl = << >> \/ NewestMs(fl) <= new.ts
    PROVE  Ordered(Append(fl, new))
<1>1. Len(fl) \in Nat /\ new.ts \in Int /\ \A i \in 1..Len(fl) : fl[i].ts \in Int
  BY FlowSeqFacts DEF Flow
<1>2. /\ Len(Append(fl, new)) = Len(fl) + 1
      /\ \A i \in 1..Len(fl) : Append(fl, new)[i] = fl[i]
      /\ Append(fl, new)[Len(fl) + 1] = new
  BY AppendProperties
<1>3. ASSUME NEW i \in 1..Len(fl) PROVE fl[i].ts <= new.ts
  <2>1. fl # << >> /\ Len(fl) \in 1..Len(fl) /\ i <= Len(fl)
    BY <1>1
  <2>2. fl[i].ts <= fl[Len(fl)].ts
    BY <1>1, <2>1 DEF Ordered
  <2>3. fl[Len(fl)].ts <= new.ts
    BY <2>1 DEF NewestMs
  <2>4. fl[i].ts \in Int /\ fl[Len(fl)].ts \in Int
    BY <1>1, <2>1
  <2>5. QED
    BY <1>1, <2>2, <2>3, <2>4
<1>4. ASSUME NEW i \in 1..(Len(fl) + 1), NEW j \in 1..(Len(fl) + 1), i < j
      PROVE  Append(fl, new)[i].ts <= Append(fl, new)[j].ts
  <2>1. i \in 1..Len(fl) /\ (j \in 1..Len(fl) \/ j = Len(fl) + 1)
    BY <1>1, <1>4
  <2>2. CASE j \in 1..Len(fl)
    BY <1>2, <1>4, <2>1, <2>2 DEF Ordered
  <2>3. CASE j = Len(fl) + 1
    BY <1>2, <1>3, <2>1, <2>3
  <2>4. QED
    BY <2>1, <2>2, <2>3
<1>5. QED
  BY <1>2, <1>4 DEF Ordered

\* What holds between two calls under an input in event order: the deque is
\* sorted, spans no more than one window, and holds all flows of that window;
\* the next window end is at most one slide behind the newest flow.
OrderInv ==
    /\ Typing
    /\ lastEmitMs = NoEmit => flows = << >> /\ arrived = {}
    /\ lastEmitMs # NoEmit =>
         /\ flows # << >>
         /\ NewestMs(flows) - lastEmitMs \in 0..(SlideMs - 1)
         /\ Within(flows, NewestMs(flows))
         /\ \A f \in arrived \ FlowsOf(flows) : f.ts < NewestMs(flows) - WindowMs
    /\ Ordered(flows)

LEMMA OrderInit == Init => OrderInv
<1>1. SUFFICES ASSUME Init PROVE OrderInv
  OBVIOUS
<1>2. Len(flows) = 0
  BY <1>1 DEF Init
<1>3. QED
  BY <1>1, <1>2, TypingInit DEF Init, OrderInv, Ordered

\* What an add does to a deque in order.
LEMMA OrderAddTimestamped ==
    ASSUME InOrder, OrderInv, NEW ts \in EventTimes, NEW src \in Sources,
           AddTimestamped(ts, src)
    PROVE  /\ OrderInv'
           /\ ts \in Int /\ NewestMs(flows') = ts
           /\ flows # << >> => \E d \in 0..MaxGap : ts = NewestMs(flows) + d
           /\ lastEmitMs # NoEmit => flows # << >> /\ ts >= lastEmitMs
<1> DEFINE new  == [ts |-> ts, seq |-> sequence + 1, src |-> src]
           all  == Append(flows, new)
           live == Expire(all, ts)
<1> USE WindowAssumption
<1>1. Typing /\ TypeOK /\ ts \in Int /\ flows \in Seq(Flow)
  BY EventTimesInt DEF OrderInv, Typing, TypeOK
<1>2. Typing'
  BY <1>1, TypingAddTimestamped
<1>3. /\ new \in Flow /\ new.ts = ts /\ all \in Seq(Flow) /\ all # << >>
      /\ NewestMs(all) = ts
      /\ FlowsOf(all) = FlowsOf(flows) \cup {new}
  BY <1>1, AppendFacts
<1>4. /\ flows' = live /\ lastEmitMs' = EmitAnchor(ts)
      /\ arrived' = arrived \cup {new}
  BY DEF AddTimestamped
<1>5. live # << >> /\ NewestMs(live) = ts
  <2>1. NewestMs(all) >= ts - WindowMs
    BY <1>1, <1>3
  <2>2. QED
    BY <1>1, <1>3, <2>1, NewestSurvives
<1>6. \A f \in FlowsOf(all) \ FlowsOf(live) : f.ts < ts - WindowMs
  BY <1>1, <1>3, ExpirePartition
<1>7. EmitAnchor(ts) \in Int /\ lastEmitMs' # NoEmit
  BY <1>1, <1>4, DueFacts
<1> HIDE DEF new, all, live
<1>8. flows # << >> => NewestMs(flows) \in Int /\ \E d \in 0..MaxGap : ts = NewestMs(flows) + d
  <2>1. SUFFICES ASSUME flows # << >>
                 PROVE  NewestMs(flows) \in Int /\ \E d \in 0..MaxGap : ts = NewestMs(flows) + d
    OBVIOUS
  <2>2. NewestMs(flows) \in Int
    BY <1>1, <2>1, EmptySeq, FlowSeqFacts DEF NewestMs
  <2>3. PICK d \in Deltas : ts = NewestMs(flows) + d
    BY <2>1 DEF EventTimes
  <2>4. d \in 0..MaxGap
    BY DEF InOrder
  <2>5. QED
    BY <2>2, <2>3, <2>4
<1>9. flows # << >> => NewestMs(flows) <= ts
  BY <1>8
<1>10. lastEmitMs # NoEmit => flows # << >> /\ ts >= lastEmitMs
  <2>1. lastEmitMs # NoEmit => lastEmitMs \in Int /\ flows # << >>
                               /\ NewestMs(flows) - lastEmitMs \in 0..(SlideMs - 1)
    BY <1>1 DEF OrderInv, TypeOK
  <2>2. QED
    BY <1>1, <1>8, <1>9, <2>1
<1>11. Ordered(live) /\ Within(live, ts)
  <2>1. Ordered(all)
    BY <1>1, <1>3, <1>9, AppendOrdered DEF OrderInv, all
  <2>2. QED
    BY <1>3, <2>1, ExpireOrdered DEF live
<1>12. ts - EmitAnchor(ts) \in 0..(SlideMs - 1)
  <2>1. EmitAnchor(ts) <= ts /\ ts < EmitAnchor(ts) + SlideMs
    <3>1. CASE lastEmitMs = NoEmit
      <4>1. EmitAnchor(ts) = ts
        BY <1>1, <3>1, DueFacts
      <4>2. QED
        BY <1>1, <4>1
    <3>2. CASE lastEmitMs # NoEmit
      BY <1>1, <1>10, <3>2, DueFacts
    <3>3. QED
      BY <3>1, <3>2
  <2>2. QED
    BY <1>1, <1>7, <2>1
<1>13. \A f \in arrived' \ FlowsOf(live) : f.ts < ts - WindowMs
  <2>1. SUFFICES ASSUME NEW f \in arrived', f \notin FlowsOf(live)
                 PROVE  f.ts < ts - WindowMs
    OBVIOUS
  <2>2. CASE f \in FlowsOf(all)
    BY <1>6, <2>1, <2>2
  <2>3. CASE f \notin FlowsOf(all)
    <3>1. f \in arrived /\ f \notin FlowsOf(flows) /\ f.ts \in Int
      BY <1>1, <1>3, <1>4, <2>3 DEF TypeOK, Flow
    <3>2. lastEmitMs # NoEmit /\ flows # << >>
      BY <3>1 DEF OrderInv
    <3>3. f.ts < NewestMs(flows) - WindowMs
      BY <3>1, <3>2 DEF OrderInv
    <3>4. QED
      BY <1>1, <1>8, <1>9, <3>1, <3>2, <3>3
  <2>4. QED
    BY <2>2, <2>3
<1>14. OrderInv'
  BY <1>2, <1>4, <1>5, <1>7, <1>11, <1>12, <1>13 DEF OrderInv
<1>15. QED
  BY <1>1, <1>4, <1>5, <1>8, <1>10, <1>14

LEMMA OrderFlush ==
    ASSUME OrderInv, Flush
    PROVE  /\ OrderInv'
           /\ NewestMs(flows) \in Int
           /\ NewestMs(flows') = NewestMs(flows)
<1> DEFINE endMs == NewestMs(flows)
           live == Expire(flows, endMs)
<1> USE WindowAssumption
<1>1. Typing /\ Typing' /\ flows # << >> /\ flows \in Seq(Flow)
  BY TypingNext DEF OrderInv, Typing, TypeOK, Next, Flush
<1>2. endMs \in Int
  BY <1>1, EmptySeq, FlowSeqFacts DEF NewestMs
<1>3. live # << >> /\ NewestMs(live) = endMs
  <2>1. NewestMs(flows) >= endMs - WindowMs
    BY <1>2
  <2>2. QED
    BY <1>1, <1>2, <2>1, NewestSurvives
<1>4. \A f \in FlowsOf(flows) \ FlowsOf(live) : f.ts < endMs - WindowMs
  BY <1>1, <1>2, ExpirePartition
<1>5. Ordered(live) /\ Within(live, endMs)
  BY <1>1, ExpireOrdered DEF OrderInv
<1>6. flows' = live /\ lastEmitMs' = endMs /\ arrived' = arrived
  BY DEF Flush
<1>7. lastEmitMs # NoEmit /\ \A f \in arrived \ FlowsOf(flows) : f.ts < endMs - WindowMs
  BY <1>1 DEF OrderInv
<1> HIDE DEF endMs, live
<1>8. lastEmitMs' # NoEmit /\ endMs - endMs \in 0..(SlideMs - 1)
  BY <1>2, <1>6
<1>9. OrderInv'
  BY <1>1, <1>3, <1>4, <1>5, <1>6, <1>7, <1>8 DEF OrderInv
<1>10. QED
  BY <1>2, <1>3, <1>6, <1>9 DEF endMs

LEMMA OrderNext ==
    ASSUME InOrder
    PROVE  OrderInv /\ [Next]_vars => OrderInv'
<1> SUFFICES ASSUME OrderInv, [Next]_vars PROVE OrderInv'
  OBVIOUS
<1>1. CASE AddUntimestamped
  <2>1. Typing'
    BY <1>1, TypingNext DEF OrderInv, Next
  <2>2. UNCHANGED << flows, lastEmitMs, arrived >>
    BY <1>1 DEF AddUntimestamped
  <2>3. QED
    BY <2>1, <2>2 DEF OrderInv
<1>2. ASSUME NEW ts \in EventTimes, NEW src \in Sources, AddTimestamped(ts, src)
      PROVE  OrderInv'
  BY <1>2, OrderAddTimestamped
<1>3. CASE Flush
  BY <1>3, OrderFlush
<1>4. CASE UNCHANGED vars
  <2>1. Typing'
    BY <1>4, TypingNext DEF OrderInv
  <2>2. UNCHANGED << flows, lastEmitMs, arrived >>
    BY <1>4 DEF vars
  <2>3. QED
    BY <2>1, <2>2 DEF OrderInv
<1>5. QED
  BY <1>1, <1>2, <1>3, <1>4 DEF Next

\* For a stream in event order, whatever its silences, the deque spans at most
\* one window of event time: looking at the left end only, as _expire does,
\* is then enough to bound it.
THEOREM HorizonBoundsMemory ==
    ASSUME InOrder
    PROVE  Spec => []HorizonBounded
<1>1. OrderInv /\ [Next]_vars => OrderInv'
  BY OrderNext
<1>2. OrderInv => HorizonBounded
  <2>1. SUFFICES ASSUME OrderInv, NEW i \in DOMAIN flows
                 PROVE  flows[i].ts >= NewestMs(flows) - WindowMs
    BY DEF HorizonBounded
  <2>2. lastEmitMs # NoEmit /\ flows[i] \in FlowsOf(flows)
    BY <2>1 DEF OrderInv, FlowsOf
  <2>3. QED
    BY <2>1, <2>2 DEF OrderInv, Within
<1>3. QED
  BY OrderInit, <1>1, <1>2, PTL DEF Spec

-----------------------------------------------------------------------------
(* Windows *)

\* The end of the i-th window that falls due.
DueEnd(i) == lastEmitMs + i * SlideMs

\* Whole slides after the last window end.
LEMMA SlideFacts ==
    ASSUME NEW n \in Nat, NEW i \in 1..n
    PROVE  i * SlideMs \in Int /\ SlideMs <= i * SlideMs /\ i * SlideMs <= n * SlideMs
<1>1. SlideMs \in Nat \ {0} /\ i \in Nat \ {0} /\ n - i \in Nat
  BY WindowAssumption
<1>2. \A a, b \in Nat : a * b \in Nat
  OBVIOUS
<1>3. (i - 1) * SlideMs \in Nat /\ (n - i) * SlideMs \in Nat /\ i * SlideMs \in Nat
  BY <1>1, <1>2
<1>4. i * SlideMs = (i - 1) * SlideMs + SlideMs /\ n * SlideMs = (n - i) * SlideMs + i * SlideMs
  BY <1>1
<1>5. QED
  BY <1>1, <1>3, <1>4

\* The windows that an add returns: their number, their ends, and what they
\* hold, which is the same for all of them.
LEMMA DueWindowFacts ==
    ASSUME Typing, NEW ts \in Int, NEW fl \in Seq(Flow), NEW expired,
           lastEmitMs # NoEmit, ts >= lastEmitMs
    PROVE  LET n == DueCount(ts)
               due == DueWindows(Expire(fl, ts), ts, expired)
           IN  /\ n \in Nat /\ DOMAIN due = 1..n /\ Len(due) = n
               /\ \A i \in 1..n :
                    /\ due[i].windowId = nextWindowId + i - 1
                    /\ due[i].endMs = DueEnd(i)
                    /\ due[i].startMs = DueEnd(i) - WindowMs
                    /\ due[i].flows = Expire(fl, ts)
                    /\ DueEnd(i) \in (lastEmitMs + SlideMs)..ts
<1> DEFINE n == DueCount(ts)
           live == Expire(fl, ts)
           due == DueWindows(live, ts, expired)
<1>1. n \in Nat /\ EmitAnchor(ts) = lastEmitMs + n * SlideMs /\ EmitAnchor(ts) <= ts
      /\ lastEmitMs \in Int
  BY DueFacts DEF Typing, TypeOK
<1>2. DOMAIN due = 1..n
  BY DEF DueWindows
<1>3. ASSUME NEW i \in 1..n
      PROVE  /\ due[i].windowId = nextWindowId + i - 1
             /\ due[i].endMs = DueEnd(i)
             /\ due[i].startMs = DueEnd(i) - WindowMs
             /\ due[i].flows = Expire(live, DueEnd(i))
  <2>1. PICK before : due[i] = Snapshot(nextWindowId + i - 1, DueEnd(i),
                                      Expire(live, DueEnd(i)), expired, before)
    BY Zenon DEF DueWindows, DueEnd
  <2> HIDE DEF due, live, n
  <2>2. QED
    BY <2>1 DEF Snapshot
<1>4. Len(due) = n
  <2>1. due \in [1..n -> {due[i] : i \in 1..n}]
    <3>1. due = [i \in 1..n |-> due[i]]
      BY DEF DueWindows
    <3> HIDE DEF due, n
    <3>2. QED
      BY <3>1
  <2> HIDE DEF due, n
  <2>2. due \in Seq({due[i] : i \in 1..n})
    BY <1>1, <2>1, SeqDef
  <2>3. Len(due) \in Nat /\ 1..Len(due) = 1..n
    BY <1>2, <2>2, LenProperties
  <2>4. QED
    BY <1>1, <2>3
<1>5. ASSUME NEW i \in 1..n
      PROVE  /\ DueEnd(i) \in (lastEmitMs + SlideMs)..ts
             /\ Expire(live, DueEnd(i)) = live
  <2> DEFINE a == i * SlideMs
             b == n * SlideMs
  <2>1. a \in Int /\ SlideMs \in Int /\ SlideMs <= a /\ a <= b /\ b \in Int
    BY <1>1, SlideFacts, WindowAssumption
  <2>2. DueEnd(i) = lastEmitMs + a /\ EmitAnchor(ts) = lastEmitMs + b
    BY <1>1 DEF DueEnd
  <2> HIDE DEF a, b
  <2>3. DueEnd(i) \in (lastEmitMs + SlideMs)..ts
    BY <1>1, <2>1, <2>2
  <2>4. Expire(live, DueEnd(i)) = live
    <3>1. DueEnd(i) \in Int /\ DueEnd(i) <= ts
      BY <1>1, <2>1, <2>3
    <3>2. QED
      BY <3>1, ExpireEarlierIsNoOp
  <2>5. QED
    BY <2>3, <2>4
<1> HIDE DEF due, live, n
<1>6. \A i \in 1..n :
         /\ due[i].windowId = nextWindowId + i - 1
         /\ due[i].endMs = DueEnd(i)
         /\ due[i].startMs = DueEnd(i) - WindowMs
         /\ due[i].flows = live
         /\ DueEnd(i) \in (lastEmitMs + SlideMs)..ts
  BY <1>3, <1>5, Zenon
<1>7. QED
  BY <1>1, <1>2, <1>4, <1>6 DEF due, live, n

\* A window over a deque in order, which ends in the gap before the newest
\* flow: fl are the flows in hand and all those that arrived.
LEMMA WindowExact ==
    ASSUME NEW fl \in Seq(Flow), fl # << >>, Within(fl, NewestMs(fl)),
           NEW all \in SUBSET Flow,
           \A f \in all \ FlowsOf(fl) : f.ts < NewestMs(fl) - WindowMs,
           NEW e \in Int, e <= NewestMs(fl), NewestMs(fl) <= e + MaxGap - 1
    PROVE  /\ \A f \in all :
                f.ts \in (e - WindowMs + MaxGap - 1)..e => f \in FlowsOf(fl)
           /\ \A f \in FlowsOf(fl) : f.ts \in (e - WindowMs)..(e + MaxGap - 1)
<1> USE WindowAssumption
<1> DEFINE newest == NewestMs(fl)
<1>1. /\ newest \in Int
      /\ \A f \in all : f.ts \in Int
      /\ \A f \in FlowsOf(fl) : f.ts \in Int
  <2>1. /\ Len(fl) \in Nat \ {0} /\ DOMAIN fl = 1..Len(fl)
        /\ \A i \in 1..Len(fl) : fl[i].ts \in Int
    BY EmptySeq, FlowSeqFacts
  <2>2. newest \in Int
    BY <2>1 DEF NewestMs
  <2>3. \A f \in FlowsOf(fl) : f.ts \in Int
    BY <2>1 DEF FlowsOf
  <2>4. \A f \in all : f.ts \in Int
    BY DEF Flow
  <2>5. QED
    BY <2>2, <2>3, <2>4
<1>2. \A f \in FlowsOf(fl) : f.ts >= newest - WindowMs /\ f.ts <= newest
  BY DEF Within
<1>3. /\ \A f \in all \ FlowsOf(fl) : f.ts < newest - WindowMs
      /\ e <= newest /\ newest <= e + MaxGap - 1
  OBVIOUS
<1> HIDE DEF newest
<1>4. ASSUME NEW f \in all, f.ts \in (e - WindowMs + MaxGap - 1)..e
      PROVE  f \in FlowsOf(fl)
  BY <1>1, <1>3, <1>4
<1>5. \A f \in FlowsOf(fl) : f.ts \in (e - WindowMs)..(e + MaxGap - 1)
  BY <1>1, <1>2, <1>3
<1>6. QED
  BY <1>4, <1>5

\* What OrderInv' says of the deque that a window is cut from.
LEMMA DequeAfter ==
    ASSUME OrderInv', lastEmitMs' # NoEmit
    PROVE  /\ flows' \in Seq(Flow) /\ flows' # << >> /\ arrived' \in SUBSET Flow
           /\ Within(flows', NewestMs(flows'))
           /\ \A f \in arrived' \ FlowsOf(flows') : f.ts < NewestMs(flows') - WindowMs
BY DEF OrderInv, Typing, TypeOK, Within, NewestMs, FlowsOf

LEMMA ExactNext ==
    ASSUME InOrder, OrderInv, WindowsNearlyExact, [Next]_vars
    PROVE  WindowsNearlyExact'
<1> USE WindowAssumption
<1>1. CASE AddUntimestamped
  <2>1. DOMAIN emitted' = {}
    BY <1>1 DEF AddUntimestamped
  <2>2. QED
    BY <2>1 DEF WindowsNearlyExact
<1>2. ASSUME NEW ts \in EventTimes, NEW src \in Sources, AddTimestamped(ts, src)
      PROVE  WindowsNearlyExact'
  <2> DEFINE new  == [ts |-> ts, seq |-> sequence + 1, src |-> src]
             all  == Append(flows, new)
             gone == expiredTotal + Stale(all, ts)
             due  == DueWindows(Expire(all, ts), ts, gone)
  <2>1. /\ OrderInv' /\ ts \in Int /\ NewestMs(flows') = ts
        /\ flows # << >> => \E d \in 0..MaxGap : ts = NewestMs(flows) + d
        /\ lastEmitMs # NoEmit => flows # << >> /\ ts >= lastEmitMs
    BY <1>2, OrderAddTimestamped
  <2>2. emitted' = due /\ flows' = Expire(all, ts)
    BY <1>2 DEF AddTimestamped
  <2>3. Typing /\ TypeOK
    BY DEF OrderInv, Typing
  <2>4. all \in Seq(Flow)
    BY <2>1, <2>3, AppendFacts
  <2> HIDE DEF new, all, gone
  <2>5. CASE lastEmitMs = NoEmit
    <3>1. DueCount(ts) = 0
      BY <2>5 DEF DueCount
    <3>2. DOMAIN due = 1..0
      BY <3>1 DEF DueWindows
    <3>3. DOMAIN emitted' = {}
      BY <2>2, <3>2
    <3>4. QED
      BY <3>3 DEF WindowsNearlyExact
  <2>6. CASE lastEmitMs # NoEmit
    <3> DEFINE n == DueCount(ts)
    <3>1. /\ n \in Nat /\ DOMAIN due = 1..n
          /\ Len(due) = n
          /\ \A i \in 1..n :
               /\ due[i].windowId = nextWindowId + i - 1
               /\ due[i].endMs = DueEnd(i)
               /\ due[i].startMs = DueEnd(i) - WindowMs
               /\ due[i].flows = Expire(all, ts)
               /\ DueEnd(i) \in (lastEmitMs + SlideMs)..ts
      <4>1. Typing /\ ts \in Int /\ ts >= lastEmitMs
        BY <2>1, <2>3, <2>6
      <4>2. QED
        BY <2>4, <2>6, <4>1, DueWindowFacts
    <3>2. /\ lastEmitMs \in Int /\ flows # << >> /\ NewestMs(flows) \in Int
          /\ NewestMs(flows) < lastEmitMs + SlideMs
      <4>1. lastEmitMs \in Int /\ flows # << >> /\ flows \in Seq(Flow)
            /\ NewestMs(flows) - lastEmitMs \in 0..(SlideMs - 1)
        BY <2>3, <2>6 DEF OrderInv, TypeOK
      <4>2. NewestMs(flows) \in Int
        BY <4>1, EmptySeq, FlowSeqFacts DEF NewestMs
      <4>3. QED
        BY <4>1, <4>2
    <3>3. ts <= NewestMs(flows) + MaxGap
      BY <2>1, <3>2
    <3>4. lastEmitMs' # NoEmit
      <4>1. lastEmitMs' = EmitAnchor(ts) /\ EmitAnchor(ts) \in Int
        BY <1>2, <2>1, <2>3, DueFacts DEF AddTimestamped
      <4>2. QED
        BY <4>1
    <3> HIDE DEF due, n
    <3>5. ASSUME NEW i \in 1..n
          PROVE  /\ \A f \in arrived' :
                      f.ts \in (due[i].startMs + MaxGap - 1)..due[i].endMs
                        => f \in FlowsOf(due[i].flows)
                 /\ \A f \in FlowsOf(due[i].flows) :
                      f.ts \in due[i].startMs..(due[i].endMs + MaxGap - 1)
      <4> DEFINE e == DueEnd(i)
      <4>1. /\ due[i].endMs = e /\ due[i].startMs = e - WindowMs
            /\ due[i].flows = Expire(all, ts) /\ e \in (lastEmitMs + SlideMs)..ts
        BY <3>1, Zenon
      <4> HIDE DEF e
      <4>2. e \in Int /\ e <= ts /\ ts <= e + MaxGap - 1
        BY <2>1, <3>2, <3>3, <4>1
      <4>3. /\ \A f \in arrived' :
                 f.ts \in (e - WindowMs + MaxGap - 1)..e => f \in FlowsOf(flows')
            /\ \A f \in FlowsOf(flows') : f.ts \in (e - WindowMs)..(e + MaxGap - 1)
        BY <2>1, <3>4, <4>2, DequeAfter, WindowExact
      <4>4. QED
        BY <2>2, <4>1, <4>3
    <3>6. QED
      BY <2>2, <3>1, <3>5 DEF WindowsNearlyExact
  <2>7. QED
    BY <2>5, <2>6
<1>3. CASE Flush
  <2> DEFINE e == NewestMs(flows)
             w == Snapshot(nextWindowId, e, Expire(flows, e),
                           expiredTotal + Stale(flows, e), previousSources)
  <2>1. OrderInv' /\ e \in Int /\ NewestMs(flows') = e
    BY <1>3, OrderFlush
  <2>0. lastEmitMs' # NoEmit
    <3>1. lastEmitMs' = e
      BY <1>3 DEF Flush
    <3>2. QED
      BY <2>1, <3>1
  <2>2. emitted' = << w >> /\ w.flows = flows' /\ w.endMs = e /\ w.startMs = e - WindowMs
    BY <1>3 DEF Flush, Snapshot
  <2> HIDE DEF w, e
  <2>3. e <= NewestMs(flows') /\ NewestMs(flows') <= e + MaxGap - 1
    BY <2>1
  <2>4. /\ \A f \in arrived' :
             f.ts \in (e - WindowMs + MaxGap - 1)..e => f \in FlowsOf(flows')
        /\ \A f \in FlowsOf(flows') : f.ts \in (e - WindowMs)..(e + MaxGap - 1)
    BY <2>0, <2>1, <2>3, DequeAfter, WindowExact
  <2>5. \A i \in DOMAIN emitted' : emitted'[i] = w
    BY <2>2
  <2>6. QED
    BY <2>2, <2>4, <2>5 DEF WindowsNearlyExact
<1>4. CASE UNCHANGED vars
  BY <1>4 DEF vars, WindowsNearlyExact
<1>5. QED
  BY <1>1, <1>2, <1>3, <1>4 DEF Next

\* For a stream in event order, whatever its silences: a window that add() or
\* flush() returns misses flows of its interval only at its very start, and
\* holds later ones only just after its end, both by less than one gap.
THEOREM WindowsHoldTheirInterval ==
    ASSUME InOrder
    PROVE  Spec => []WindowsNearlyExact
<1>1. OrderInv /\ [Next]_vars => OrderInv'
  BY OrderNext
<1>2. OrderInv /\ WindowsNearlyExact /\ [Next]_vars => WindowsNearlyExact'
  BY ExactNext
<1>3. Init => WindowsNearlyExact
  BY DEF Init, WindowsNearlyExact
<1>4. QED
  BY OrderInit, <1>1, <1>2, <1>3, PTL DEF Spec

\* The while loop of _advance, for a stream in event order: the windows of an
\* add end on consecutive points of the grid, under consecutive ids, and none
\* is left overdue, however long the silence before the flow was.
THEOREM WindowsTileTime ==
    ASSUME InOrder
    PROVE  Spec => WindowsTile
<1> USE WindowAssumption
<1>1. OrderInv /\ [Next]_vars => OrderInv'
  BY OrderNext
<1>2. ASSUME OrderInv, [Next]_vars,
             sequence' > sequence, lastEmitMs # NoEmit, arrived' # arrived
      PROVE  /\ lastEmitMs' = lastEmitMs + SlideMs * Len(emitted')
             /\ nextWindowId' = nextWindowId + Len(emitted')
             /\ \A i \in DOMAIN emitted' :
                  /\ emitted'[i].endMs = lastEmitMs + i * SlideMs
                  /\ emitted'[i].windowId = nextWindowId + i - 1
             /\ NewestMs(flows') - lastEmitMs' \in 0..(SlideMs - 1)
  <2>1. PICK ts \in EventTimes, src \in Sources : AddTimestamped(ts, src)
    BY <1>2 DEF Next, AddUntimestamped, Flush, vars
  <2> DEFINE new  == [ts |-> ts, seq |-> sequence + 1, src |-> src]
             all  == Append(flows, new)
             gone == expiredTotal + Stale(all, ts)
             due  == DueWindows(Expire(all, ts), ts, gone)
             n    == DueCount(ts)
  <2>2. /\ OrderInv' /\ ts \in Int /\ ts >= lastEmitMs
    BY <1>2, <2>1, OrderAddTimestamped
  <2>3. Typing /\ TypeOK /\ lastEmitMs \in Int
    BY <1>2 DEF OrderInv, Typing, TypeOK
  <2>4. all \in Seq(Flow)
    BY <2>2, <2>3, AppendFacts
  <2>5. emitted' = due /\ lastEmitMs' = EmitAnchor(ts) /\ nextWindowId' = nextWindowId + n
    BY <2>1 DEF AddTimestamped
  <2> HIDE DEF new, all, gone
  <2>6. /\ n \in Nat /\ DOMAIN due = 1..n /\ Len(due) = n
        /\ \A i \in 1..n :
             /\ due[i].windowId = nextWindowId + i - 1
             /\ due[i].endMs = DueEnd(i)
    BY <1>2, <2>2, <2>3, <2>4, DueWindowFacts
  <2>7. EmitAnchor(ts) = lastEmitMs + n * SlideMs /\ EmitAnchor(ts) \in Int
    BY <1>2, <2>2, <2>3, DueFacts
  <2>8. NewestMs(flows') - lastEmitMs' \in 0..(SlideMs - 1)
    BY <2>2, <2>5, <2>7 DEF OrderInv
  <2> HIDE DEF due, n
  <2>9. n * SlideMs = SlideMs * n
    BY <2>6
  <2>10. \A i \in DOMAIN emitted' :
            /\ emitted'[i].endMs = lastEmitMs + i * SlideMs
            /\ emitted'[i].windowId = nextWindowId + i - 1
    BY <2>5, <2>6, Zenon DEF DueEnd
  <2>11. Len(emitted') = n
    BY <2>5, <2>6
  <2>12. lastEmitMs' = lastEmitMs + SlideMs * Len(emitted')
         /\ nextWindowId' = nextWindowId + Len(emitted')
    BY <2>5, <2>7, <2>9, <2>11
  <2>13. QED
    BY <2>8, <2>10, <2>12
<1>3. QED
  BY OrderInit, <1>1, <1>2, PTL DEF Spec, WindowsTile

=============================================================================
