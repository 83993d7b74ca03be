------------------------------ MODULE Traffic ------------------------------
(***************************************************************************)
(* What the detectors measure on the flows of a window: totals, rates over *)
(* the shared observation window (features/window_rates.py), concentration *)
(* and source statistics (features/source_stats.py).                       *)
(*                                                                         *)
(* Numbers are integers: a time is a number of milliseconds, a ratio is a  *)
(* pair numerator, denominator, and a denominator 0 stands for the None    *)
(* that the code returns when there is nothing to measure.  Comparisons    *)
(* are cross-multiplied and limits are in hundredths, so that 0.7 is 70.   *)
(* The entropies are left out: no detector reads them.                     *)
(*                                                                         *)
(* Selections and sums are recursive functions over the places of a        *)
(* sequence, whose definitions a proof can unfold.                         *)
(***************************************************************************)
EXTENDS Integers, Sequences, FiniteSets, SequencesExt

-----------------------------------------------------------------------------
(* Sequences.                                                              *)

\* The elements of s at some of its places, in their order.
Pick(s, places) ==
    LET upTo[n \in 0..Len(s)] ==
          IF n = 0 THEN << >>
          ELSE IF n \in places THEN Append(upTo[n - 1], s[n])
          ELSE upTo[n - 1]
    IN  upTo[Len(s)]

SumOf(s) ==
    LET upTo[n \in 0..Len(s)] == IF n = 0 THEN 0 ELSE upTo[n - 1] + s[n]
    IN  upTo[Len(s)]

-----------------------------------------------------------------------------
(* Ratios.                                                                 *)

NoRatio == << 0, 0 >>
Ratio(n, d) == << n, d >>
Defined(r) == r[2] > 0

\* r >= limit and r <= limit; a missing ratio is neither.
AtLeast(r, limit) == Defined(r) /\ 100 * r[1] >= limit * r[2]
AtMost(r, limit)  == Defined(r) /\ 100 * r[1] <= limit * r[2]

-----------------------------------------------------------------------------
(* Flows.                                                                  *)

Total(field, flows) == SumOf([i \in DOMAIN flows |-> flows[i][field]])

TotalPackets(flows) == Total("packets", flows)
TotalBytes(flows)   == Total("bytes", flows)

Distinct(field, flows) == {flows[i][field] : i \in DOMAIN flows}
Sources(flows)      == Distinct("src", flows)
Destinations(flows) == Distinct("dst", flows)

FlowsTo(dst, flows)   == Pick(flows, {i \in DOMAIN flows : flows[i].dst = dst})
FlowsFrom(src, flows) == Pick(flows, {i \in DOMAIN flows : flows[i].src = src})
FlowsOfProtocol(proto, flows) == Pick(flows, {i \in DOMAIN flows : flows[i].proto = proto})

\* How many flows, or packets, pass a test.
CountWhere(test(_), s) == Cardinality({i \in DOMAIN s : test(s[i])})

\* How often a value occurs.
Occurrences(field, v, flows) == Cardinality({i \in DOMAIN flows : flows[i][field] = v})

\* max(set(target_ips), key=target_ips.count): with a tie, the order of a set
\* of strings decides, so every destination named most often is possible.
MainTargets(flows) ==
    {d \in Destinations(flows) : \A e \in Destinations(flows) :
        Occurrences("dst", e, flows) <= Occurrences("dst", d, flows)}

-----------------------------------------------------------------------------
(* Rates.                                                                  *)

WindowStart(flows) == Min({flows[i].first : i \in DOMAIN flows})
WindowEnd(flows)   == Max({flows[i].last : i \in DOMAIN flows})

\* compute_window_bounds: packets that were captured out of order may leave a
\* window that ends before it starts, which counts as no window.
WindowKnown(flows) == flows # << >> /\ WindowStart(flows) <= WindowEnd(flows)

MinWindowMs == 1

\* The width that calculate_window_rates divides by, clamped from below.
WindowMs(flows) == Max({MinWindowMs, WindowEnd(flows) - WindowStart(flows)})

\* n things per second, over the shared window of the flows, is >= rate.
\* Without a window the rate is unknown and reaches nothing.
RateReaches(n, flows, rate) ==
    WindowKnown(flows) /\ 1000 * n >= rate * WindowMs(flows)

-----------------------------------------------------------------------------
(* Concentration and sources.                                              *)

\* calculate_concentration: the normalized Herfindahl-Hirschman index of the
\* values of a field on the flows.  One value alone counts as concentrated.
Herfindahl(counts, total) ==
    LET n       == Cardinality(DOMAIN counts)
        squares == MapThenSumSet(LAMBDA v : counts[v] ^ 2, DOMAIN counts)
    IN  CASE n = 0 -> Ratio(0, 1)
          [] n = 1 -> Ratio(1, 1)
          [] OTHER -> Ratio(n * squares - total ^ 2, (n - 1) * total ^ 2)
Concentration(field, flows) ==
    Herfindahl([v \in Distinct(field, flows) |-> Occurrences(field, v, flows)], Len(flows))

\* one_packet_source_ratio of calculate_source_stats: the share of sources
\* with exactly one packet in all their flows together.
OnePacketSources(flows) ==
    {s \in Sources(flows) : TotalPackets(FlowsFrom(s, flows)) = 1}
OnePacketSourceRatio(flows) ==
    Ratio(Cardinality(OnePacketSources(flows)), Cardinality(Sources(flows)))

-----------------------------------------------------------------------------
(* Severities, least first.                                                *)

Severities == << "LOW", "MEDIUM", "HIGH", "CRITICAL" >>

\* One notch up, CRITICAL stays.
Escalate(severity) ==
    CASE severity = "LOW" -> "MEDIUM"
      [] severity = "MEDIUM" -> "HIGH"
      [] OTHER -> "CRITICAL"

\* The sum of the weights of the factors found, at most 100.
Score(weights, factors) ==
    Min({100, MapThenSumSet(LAMBDA f : weights[f], factors)})

=============================================================================
