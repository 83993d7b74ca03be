--------------------------- MODULE SlidingWindow ---------------------------
(***************************************************************************)
(* The event-time sliding window of src/src/streaming/windowing.py: the    *)
(* SlidingWindow class and the WindowAggregator that decorates each of its *)
(* snapshots with source churn.  One caller drives it sequentially (the    *)
(* PCAP, replay and live loops of pipeline.py), so a step is a whole call. *)
(*                                                                         *)
(* A flow is a record of its timestamp, the sequence number it was given   *)
(* and its source address.  `arrived` and `delivered` are history          *)
(* variables: the timestamped flows accepted so far and those of them that *)
(* were in at least one emitted window.                                    *)
(***************************************************************************)
EXTENDS Integers, Sequences, FiniteSets

CONSTANTS
    WindowMs,           \* window_ms, the observation horizon
    SlideMs,            \* slide_ms, the distance between two window ends
    MaxUntimestamped,   \* max_untimestamped
    Sources,            \* source addresses
    FirstMs,            \* timestamp of the first timestamped flow
    Deltas,             \* timestamp of a flow minus that of the one before it
    MaxGap,             \* the largest silence between two flows of the input
    NoEmit,             \* _last_emit_ms is None
    NoSources,          \* previous_sources is None
    MaxSequence,        \* bound: number of flows added
    MaxWindows          \* bound: number of windows after which flush stops

\* The guards of the constructor.  window_seconds and slide_seconds are
\* rounded to milliseconds after those guards: see the README for a slide
\* that rounds to zero.
ASSUME WindowAssumption ==
    /\ WindowMs \in Nat \ {0}
    /\ SlideMs \in 1..WindowMs
    /\ MaxUntimestamped \in Nat \ {0}
    /\ FirstMs \in Int
    /\ MaxGap \in Nat \ {0}
    /\ Deltas \subseteq {d \in Int : d <= MaxGap}
    /\ NoEmit \notin Int
    /\ \A S \in SUBSET Sources : NoSources # S

VARIABLES
    flows,              \* _flows
    untimestamped,      \* _untimestamped
    nextWindowId,       \* _next_window_id
    lastEmitMs,         \* _last_emit_ms
    expiredTotal,       \* _expired_total
    sequence,           \* _sequence
    previousSources,    \* WindowAggregator.previous_sources
    emitted,            \* what the last call returned
    arrived, delivered  \* history

vars == << flows, untimestamped, nextWindowId, lastEmitMs, expiredTotal,
           sequence, previousSources, emitted, arrived, delivered >>

-----------------------------------------------------------------------------
Flow == [ts : Int, seq : Nat, src : Sources]

FlowsOf(fl) == {fl[i] : i \in DOMAIN fl}

\* Mutant: another field of the flow is collected.
SourcesOfSequence(fl) == {fl[i].seq : i \in DOMAIN fl}

SourcesOf(fl) == {fl[i].src : i \in DOMAIN fl}
NewestMs(fl) == fl[Len(fl)].ts

\* Mutants: a flow exactly one window old goes too; `if` in place of `while`;
\* the slide in place of the window.
StaleInclusive(fl, endMs) ==
    CHOOSE n \in 0..Len(fl) :
        /\ \A i \in 1..n : fl[i].ts <= endMs - WindowMs
        /\ n = Len(fl) \/ fl[n + 1].ts > endMs - WindowMs
StaleOnce(fl, endMs) ==
    IF fl # << >> /\ fl[1].ts < endMs - WindowMs THEN 1 ELSE 0
StaleBySlide(fl, endMs) ==
    CHOOSE n \in 0..Len(fl) :
        /\ \A i \in 1..n : fl[i].ts < endMs - SlideMs
        /\ n = Len(fl) \/ fl[n + 1].ts >= endMs - SlideMs

\* The number of flows _expire pops: the longest prefix of flows that are all
\* older than the cutoff.  A late flow behind a newer one is not reached.
Stale(fl, endMs) ==
    CHOOSE n \in 0..Len(fl) :
        /\ \A i \in 1..n : fl[i].ts < endMs - WindowMs
        /\ n = Len(fl) \/ fl[n + 1].ts >= endMs - WindowMs

\* Mutant: one flow more is dropped than is counted.
ExpireOneMore(fl, endMs) == SubSeq(fl, Stale(fl, endMs) + 2, Len(fl))

Expire(fl, endMs) == SubSeq(fl, Stale(fl, endMs) + 1, Len(fl))

\* Source churn of a window against the one before it: the sources that
\* differ and the sources that either has, whose ratio the code reports.
Churn(before, current) ==
    IF before = NoSources THEN NoSources
    ELSE [ differ |-> (before \ current) \cup (current \ before),
           either |-> before \cup current ]

\* A snapshot as _decorate returns it.
Snapshot(id, endMs, fl, expired, before) ==
    [ windowId    |-> id,
      startMs     |-> endMs - WindowMs,
      endMs       |-> endMs,
      flows       |-> fl,
      sourceChurn |-> Churn(before, SourcesOf(fl)),
      expired     |-> expired ]

\* Mutant: `>` in place of `>=`, a window is emitted one event late.
DueCountStrict(eventMs) ==
    IF lastEmitMs = NoEmit THEN 0 ELSE
    IF eventMs <= lastEmitMs THEN 0 ELSE (eventMs - lastEmitMs - 1) \div SlideMs

\* The windows that fall due at eventMs: the while loop of _advance, which
\* runs once per whole slide since the last emission.
DueCount(eventMs) ==
    IF lastEmitMs = NoEmit THEN 0 ELSE
    IF eventMs < lastEmitMs THEN 0 ELSE (eventMs - lastEmitMs) \div SlideMs

\* _last_emit_ms after a flow at eventMs: the end of the last window due, or
\* the first timestamp, which anchors the grid of window ends.
EmitAnchor(eventMs) ==
    IF lastEmitMs = NoEmit THEN eventMs
    ELSE lastEmitMs + DueCount(eventMs) * SlideMs

\* All of them are cut from the flows that survive the expiry at eventMs:
\* the expiry at an earlier window end finds nothing left to pop (proved as
\* ExpireEarlierIsNoOp in SlidingWindowProofs).
DueWindows(fl, eventMs, expired) ==
    [ i \in 1..DueCount(eventMs) |->
        LET endMs == lastEmitMs + i * SlideMs
        IN  Snapshot(nextWindowId + i - 1, endMs, Expire(fl, endMs), expired,
                     IF i = 1 THEN previousSources ELSE SourcesOf(fl)) ]

-----------------------------------------------------------------------------
Init ==
    /\ flows = << >>
    /\ untimestamped = << >>
    /\ nextWindowId = 0
    /\ lastEmitMs = NoEmit
    /\ expiredTotal = 0
    /\ sequence = 0
    /\ previousSources = NoSources
    /\ emitted = << >>
    /\ arrived = {}
    /\ delivered = {}

\* add() of a flow without a usable timestamp: kept apart, oldest dropped.
AddUntimestamped ==
    /\ sequence < MaxSequence
    /\ sequence' = sequence + 1
    /\ untimestamped' =
         LET all == Append(untimestamped, sequence + 1)
         IN  IF Len(all) > MaxUntimestamped THEN Tail(all) ELSE all
    /\ emitted' = << >>
    /\ UNCHANGED << flows, nextWindowId, lastEmitMs, expiredTotal,
                    previousSources, arrived, delivered >>

\* add() of a timestamped flow, with the _advance it calls.
AddTimestamped(ts, src) ==
    LET new  == [ts |-> ts, seq |-> sequence + 1, src |-> src]
        all  == Append(flows, new)
        live == Expire(all, ts)
        gone == expiredTotal + Stale(all, ts)
        due  == DueWindows(live, ts, gone)
        n    == DueCount(ts)
    IN  /\ sequence < MaxSequence
        /\ sequence' = sequence + 1
        /\ flows' = live
        /\ expiredTotal' = gone
        /\ lastEmitMs' = EmitAnchor(ts)
        /\ emitted' = due
        /\ nextWindowId' = nextWindowId + n
        /\ previousSources' = IF n = 0 THEN previousSources ELSE SourcesOf(live)
        /\ arrived' = arrived \cup {new}
        /\ delivered' = IF n = 0 THEN delivered ELSE delivered \cup FlowsOf(live)
        /\ UNCHANGED untimestamped

\* flush(): the window that ends at the last flow added.
Flush ==
    LET endMs == NewestMs(flows)
        live  == Expire(flows, endMs)
        gone  == expiredTotal + Stale(flows, endMs)
    IN  /\ flows # << >>
        /\ nextWindowId < MaxWindows
        /\ flows' = live
        /\ expiredTotal' = gone
        /\ emitted' = << Snapshot(nextWindowId, endMs, live, gone,
                                  previousSources) >>
        /\ nextWindowId' = nextWindowId + 1
        /\ lastEmitMs' = endMs
        /\ previousSources' = SourcesOf(live)
        /\ delivered' = delivered \cup FlowsOf(live)
        /\ UNCHANGED << untimestamped, sequence, arrived >>

\* The timestamps the next flow may carry.
EventTimes == IF flows = << >> THEN {FirstMs}
              ELSE {NewestMs(flows) + d : d \in Deltas}

Next ==
    \/ AddUntimestamped
    \/ \E ts \in EventTimes, src \in Sources : AddTimestamped(ts, src)
    \/ Flush

Spec == Init /\ [][Next]_vars

-----------------------------------------------------------------------------
TypeOK ==
    /\ flows \in Seq(Flow)
    /\ untimestamped \in Seq(Nat)
    /\ nextWindowId \in Nat
    /\ lastEmitMs \in Int \cup {NoEmit}
    /\ expiredTotal \in Nat
    /\ sequence \in Nat
    /\ previousSources = NoSources \/ previousSources \in SUBSET Sources
    /\ arrived \subseteq Flow
    /\ delivered \subseteq arrived

\* The flows of the input come in event order, as add_many documents.
InOrder == Deltas \subseteq Nat

\* ... and no silence is longer than the part of a window that the next one
\* still covers.
Dense == InOrder /\ MaxGap <= WindowMs - SlideMs + 1

\* No flow leaves the deque before some window has shown it to the detectors:
\* each timestamped flow is still buffered or was in an emitted window.  add()
\* expires before it emits, so this depends on how flows are spaced.
NoFlowLost == arrived \subseteq delivered \cup FlowsOf(flows)

\* The horizon bounds the memory: no buffered flow is older than a window
\* before the newest one.  _expire looks at the left end of the deque only.
HorizonBounded ==
    \A i \in DOMAIN flows : flows[i].ts >= NewestMs(flows) - WindowMs

\* Every accepted flow is buffered or counted as expired, once.
ExpiryAccounted == expiredTotal + Len(flows) = Cardinality(arrived)

\* What a window holds, for input in event order: no flow that arrived in its
\* interval is missing except in its first MaxGap - 1 milliseconds, and no
\* flow in it lies outside except in the MaxGap - 1 milliseconds after it.  The
\* module documentation, which says that a flow is assigned to a window by its
\* timestamp, describes the case MaxGap = 1.
WindowsNearlyExact ==
    \A i \in DOMAIN emitted :
        LET w == emitted[i]
        IN  /\ \A f \in arrived :
                 f.ts \in (w.startMs + MaxGap - 1)..w.endMs
                     => f \in FlowsOf(w.flows)
            /\ \A f \in FlowsOf(w.flows) :
                 f.ts \in w.startMs..(w.endMs + MaxGap - 1)

\* Window ends tile time: an add moves the last emitted end by one slide for
\* each window it returns, those windows end on that grid under consecutive
\* ids, and no window is left overdue.
WindowsTile ==
    [][ sequence' > sequence /\ lastEmitMs # NoEmit /\ arrived' # arrived =>
          /\ lastEmitMs' = lastEmitMs + SlideMs * Len(emitted')
          /\ nextWindowId' = nextWindowId + Len(emitted')
          /\ \A i \in DOMAIN emitted' :
               /\ emitted'[i].endMs = lastEmitMs + i * SlideMs
               /\ emitted'[i].windowId = nextWindowId + i - 1
          /\ NewestMs(flows') - lastEmitMs' \in 0..(SlideMs - 1) ]_vars

=============================================================================
