--------------------------- MODULE RateDetectors ---------------------------
(***************************************************************************)
(* The detectors that judge a window by its aggregate traffic: port scan   *)
(* (detectors/scan.py), DDoS (ddos.py), SYN flood (syn_flood.py) and UDP   *)
(* flood and reflection (udp_flood.py).  They keep no state from window to *)
(* window.                                                                 *)
(*                                                                         *)
(* A detector looks for named factors; each has a weight in hundredths,    *)
(* and the sum of the weights found is the score (rule_score).  A result   *)
(* is a record of who reports what about which hosts; the evidence values, *)
(* wording and flow statistics it carries are left out.  Where the code    *)
(* picks one of several destinations that occur equally often, the model   *)
(* leaves the choice open.                                                 *)
(***************************************************************************)
EXTENDS Traffic

CONSTANTS
    Thresholds          \* config/thresholds.yaml: per detector, its limits

ASSUME ThresholdAssumption ==
    /\ Thresholds.port_scan.min_flows \in Nat \ {0}
    /\ Thresholds.ddos.min_flows \in Nat \ {0}
    /\ Thresholds.syn_flood.min_flows \in Nat \ {0}
    /\ Thresholds.syn_flood.min_syn_only_pps \in Nat
    /\ Thresholds.syn_flood.max_ack_completion_ratio \in Nat
    /\ Thresholds.syn_flood.min_spoofing_likelihood \in Nat
    /\ Thresholds.udp_flood.min_flows \in Nat \ {0}

ICMP == 1
TCP  == 6
UDP  == 17

\* source_ip of a result about traffic from everywhere, and the destination
\* of a result whose main target the model leaves open.
MultipleSources == "multiple_sources"
AnyHost         == "any"

Result(detector, type, src, dst, score, severity) ==
    [ detector |-> detector, type |-> type, src |-> src, dst |-> dst,
      score |-> score, severity |-> severity ]

\* What a detector returns when its aggregate analysis names `main`: results
\* per destination are added, except a second one for the same destination.
\* Mutant: an aggregate result makes all results per destination redundant.
WithDestinationsOnlyIfNone(aggregate, perDestination) ==
    aggregate \cup (IF aggregate = {} THEN perDestination ELSE {})
WithDestinations(aggregate, perDestination) ==
    aggregate \cup {r \in perDestination : \A a \in aggregate : a.dst # r.dst}

-----------------------------------------------------------------------------
(* Port scan.                                                              *)

ScanWeights == [ports |-> 40, hosts |-> 30, syn_only |-> 30, failed |-> 20]

\* A SYN without any answer, and a SYN that was answered by a reset.
Unanswered(f) == f.proto = TCP /\ f.syn > 0 /\ f.ack = 0 /\ f.rst = 0
Refused(f)    == f.proto = TCP /\ f.syn > 0 /\ f.rst > 0

ScanFactors(flows) ==
    LET limits == Thresholds.port_scan
        failed == CountWhere(Unanswered, flows) + CountWhere(Refused, flows)
        tcp    == Len(FlowsOfProtocol(TCP, flows))
    IN  {e \in DOMAIN ScanWeights :
            CASE e = "ports"    -> Cardinality(Distinct("dport", flows))
                                     >= limits.min_unique_ports
              [] e = "hosts"    -> Cardinality(Destinations(flows)) >= limits.min_unique_hosts
              [] e = "syn_only" -> AtLeast(Ratio(CountWhere(Unanswered, flows), Len(flows)),
                                           limits.min_syn_ratio)
              [] e = "failed"   -> AtLeast(Ratio(failed, tcp), limits.min_failed_ratio)}

ScanSeverity(ports, hosts) ==
    CASE ports >= 100 \/ hosts >= 20 -> "CRITICAL"
      [] ports < 100 /\ hosts < 20 /\ (ports >= 50 \/ hosts >= 10) -> "HIGH"
      [] ports < 50 /\ hosts < 10 /\ (ports >= 20 \/ hosts >= 5) -> "MEDIUM"
      [] OTHER -> "LOW"

\* _analyze_source_flows: one factor is enough.
ScanOf(src, flows) ==
    IF Len(flows) < Thresholds.port_scan.min_flows \/ ScanFactors(flows) = {}
    THEN {}
    ELSE {Result("port_scan", "PORT_SCAN", src, AnyHost,
                 Score(ScanWeights, ScanFactors(flows)),
                 ScanSeverity(Cardinality(Distinct("dport", flows)),
                              Cardinality(Destinations(flows))))}

PortScanResults(flows) ==
    UNION {ScanOf(src, FlowsFrom(src, flows)) : src \in Sources(flows)}

-----------------------------------------------------------------------------
(* DDoS.                                                                   *)

\* How one-directional the traffic is; no request traffic, no ratio.
Asymmetry(flows) ==
    LET out == Total("src2dst_bytes", flows)
        in  == Total("dst2src_bytes", flows)
    IN  Ratio(Max({0, out - in}), out)

SynRatio(flows) == Ratio(Total("syn", flows), TotalPackets(flows))

\* A concentration counts only over enough distinct values.
Concentrated(field, flows) ==
    /\ Cardinality(Distinct(field, flows)) >= Thresholds.ddos.min_distinct
    /\ AtLeast(Concentration(field, flows), Thresholds.ddos.source_concentration)

DDoSFactors(flows, weights) ==
    LET limits == Thresholds.ddos IN
    {e \in DOMAIN weights :
        CASE e = "volumetric" -> RateReaches(TotalPackets(flows), flows, limits.min_pps)
          [] e = "byte_rate"  -> RateReaches(TotalBytes(flows), flows, limits.min_bps)
          [] e = "tcp_syn"    -> /\ AtLeast(SynRatio(flows), limits.min_syn_ratio)
                                 /\ RateReaches(5 * TotalPackets(flows), flows, limits.min_pps)
          [] e = "sources"      -> Concentrated("src", flows)
          [] e = "destinations" -> Concentrated("dst", flows)
          [] e = "asymmetry"  -> AtLeast(Asymmetry(flows), 90)}

AggregateWeights ==
    [ volumetric |-> 30, byte_rate |-> 15, tcp_syn |-> 25, sources |-> 10,
      destinations |-> 10, asymmetry |-> 10 ]
DestinationWeights ==
    [ volumetric |-> 40, byte_rate |-> 20, tcp_syn |-> 20, asymmetry |-> 20 ]

DDoSSeverity(flows) ==
    LET Reaches(pps, bps) == \/ RateReaches(TotalPackets(flows), flows, pps)
                             \/ RateReaches(TotalBytes(flows), flows, bps)
    IN  IF Reaches(5000, 5000000) THEN "CRITICAL"
        ELSE IF Reaches(2000, 2000000) THEN "HIGH"
        ELSE IF Reaches(1000, 1000000) THEN "MEDIUM"
        ELSE "LOW"

\* _analyze_aggregate_traffic, which names the destination `main`.
DDoSAggregate(flows, main) ==
    LET factors == DDoSFactors(flows, AggregateWeights) IN
    IF Len(flows) < Thresholds.ddos.min_flows \/ Cardinality(factors) < 2
    THEN {}
    ELSE {Result("ddos", "DDOS", MultipleSources, main,
                 Score(AggregateWeights, factors), DDoSSeverity(flows))}

\* _analyze_destination_flows; without a window there is nothing to judge.
DDoSTo(dst, flows) ==
    LET factors == DDoSFactors(flows, DestinationWeights)
        score   == Score(DestinationWeights, factors)
    IN  IF Len(flows) < 3 \/ ~ WindowKnown(flows) \/ Cardinality(factors) < 2
        THEN {}
        ELSE {Result("ddos", "DDOS", MultipleSources, dst, score,
                     IF score > 50 THEN "HIGH" ELSE "MEDIUM")}

\* The destinations one by one.
DDoSPerDestination(flows) ==
    UNION {DDoSTo(dst, FlowsTo(dst, flows)) : dst \in Destinations(flows)}

\* detect: the possible lists of results, one per main target.
DDoSOutcomes(flows) ==
    IF flows = << >> THEN {{}}
    ELSE {WithDestinations(DDoSAggregate(flows, main), DDoSPerDestination(flows)) :
             main \in MainTargets(flows)}

-----------------------------------------------------------------------------
(* SYN flood.                                                              *)

SynOnly(flows) == Total("syn_only", flows)

\* No SYN-only packet leaves nothing to judge the completion by.
AckCompletion(flows) == Ratio(Total("ack", flows), SynOnly(flows))

SynRateReaches(flows, rate) == RateReaches(SynOnly(flows), flows, rate)

\* The share of one-packet sources, over enough sources.
SpoofingLikelihood(flows) ==
    IF Cardinality(Sources(flows)) < Thresholds.syn_flood.min_flows
    THEN NoRatio
    ELSE OnePacketSourceRatio(flows)

\* The rate of SYNs and their completion, and one corroborating factor.
SynFloodWeights == [rate |-> 40, completion |-> 30, corroboration |-> 30]

\* Mutant: a high completion counts, in place of a low one.
SynFloodFactorsSwapped(flows, corroborated) ==
    LET limits == Thresholds.syn_flood IN
    {e \in DOMAIN SynFloodWeights :
        CASE e = "rate"       -> SynRateReaches(flows, limits.min_syn_only_pps)
          [] e = "completion" -> AtLeast(AckCompletion(flows), limits.max_ack_completion_ratio)
          [] e = "corroboration" -> corroborated}
SynFloodFactors(flows, corroborated) ==
    LET limits == Thresholds.syn_flood IN
    {e \in DOMAIN SynFloodWeights :
        CASE e = "rate"       -> SynRateReaches(flows, limits.min_syn_only_pps)
          [] e = "completion" -> AtMost(AckCompletion(flows), limits.max_ack_completion_ratio)
          [] e = "corroboration" -> corroborated}

SynFloodSeverity(flows) ==
    LET byRate == IF SynRateReaches(flows, 5000) THEN "CRITICAL"
                  ELSE IF SynRateReaches(flows, 2000) THEN "HIGH"
                  ELSE IF SynRateReaches(flows, 500) THEN "MEDIUM"
                  ELSE "LOW"
        completion == AckCompletion(flows)
    IN  IF Defined(completion) /\ 100 * completion[1] < 5 * completion[2]
        THEN Escalate(byRate)
        ELSE byRate

SynFloodIf(dst, flows, corroborated) ==
    LET factors == SynFloodFactors(flows, corroborated) IN
    IF Len(flows) < Thresholds.syn_flood.min_flows \/ Cardinality(factors) < 2
    THEN {}
    ELSE {Result("syn_flood", "SYN_FLOOD", MultipleSources, dst,
                 Score(SynFloodWeights, factors), SynFloodSeverity(flows))}

\* Over all TCP flows a concentration of destinations corroborates, for one
\* destination the share of one-packet sources.
SynFloodAggregate(flows, main) ==
    SynFloodIf(main, flows,
               AtLeast(Concentration("dst", flows),
                       Thresholds.syn_flood.destination_concentration_threshold))
SynFloodTo(dst, flows) ==
    SynFloodIf(dst, flows,
               AtLeast(SpoofingLikelihood(flows),
                       Thresholds.syn_flood.min_spoofing_likelihood))

SynFloodPerDestination(tcp) ==
    UNION {SynFloodTo(dst, FlowsTo(dst, tcp)) : dst \in Destinations(tcp)}

SynFloodOutcomes(flows) ==
    LET tcp == FlowsOfProtocol(TCP, flows) IN
    IF tcp = << >> THEN {{}}
    ELSE {WithDestinations(SynFloodAggregate(tcp, main), SynFloodPerDestination(tcp)) :
             main \in MainTargets(tcp)}

-----------------------------------------------------------------------------
(* UDP flood and reflection.                                               *)

UdpFloodSeverity(flows) ==
    LET Reaches(pps) == RateReaches(TotalPackets(flows), flows, pps)
    IN  IF Reaches(10000) THEN "CRITICAL"
        ELSE IF Reaches(3000) THEN "HIGH"
        ELSE IF Reaches(800) THEN "MEDIUM"
        ELSE "LOW"

\* The concentration of ports and one more factor corroborate the rate.
UdpFloodWeights == [rate |-> 40, ports |-> 30, corroboration |-> 30]

UdpFloodIf(dst, flows, corroborated) ==
    LET limits  == Thresholds.udp_flood
        factors ==
          {e \in DOMAIN UdpFloodWeights :
              CASE e = "rate"  -> RateReaches(TotalPackets(flows), flows, limits.min_udp_pps)
                [] e = "ports" -> AtLeast(Concentration("dport", flows),
                                          limits.dest_port_concentration_threshold)
                [] e = "corroboration" -> corroborated}
    IN  IF Len(flows) < limits.min_flows \/ Cardinality(factors) < 2
        THEN {}
        ELSE {Result("udp_flood", "UDP_FLOOD", MultipleSources, dst,
                     Score(UdpFloodWeights, factors), UdpFloodSeverity(flows))}

UdpFloodAggregate(flows, main) ==
    UdpFloodIf(main, flows,
               AtLeast(Concentration("dst", flows),
                       Thresholds.udp_flood.destination_concentration_threshold))
UdpFloodTo(dst, flows) ==
    UdpFloodIf(dst, flows,
               /\ Cardinality(Sources(flows)) >= Thresholds.udp_flood.min_flows
               /\ AtLeast(OnePacketSourceRatio(flows),
                          Thresholds.udp_flood.min_one_packet_source_ratio))

ReflectionPronePorts == {53, 123, 1900, 389, 11211, 19, 17, 161}
ReflectionWeights == [amplification |-> 50, prone_port |-> 20, query_sources |-> 30]

ReflectionSeverity(amplification) ==
    CASE AtLeast(amplification, 5000) -> "CRITICAL"
      [] ~ AtLeast(amplification, 5000) /\ AtLeast(amplification, 2000) -> "HIGH"
      [] ~ AtLeast(amplification, 2000) /\ AtLeast(amplification, 1000) -> "MEDIUM"
      [] OTHER -> "LOW"

\* The queries to one service, <<host, port>>, when their replies outweigh them.
ReflectionFrom(service, flows) ==
    LET limits  == Thresholds.udp_flood
        request == Total("src2dst_bytes", flows)
        reply   == Total("dst2src_bytes", flows)
        amplification == Ratio(reply, request)
        factors ==
          {e \in DOMAIN ReflectionWeights :
              CASE e = "amplification" ->
                     AtLeast(amplification, limits.reflection_min_amplification_ratio)
                [] e = "prone_port"    -> service[2] \in ReflectionPronePorts
                [] e = "query_sources" -> Cardinality(Sources(flows)) >= limits.min_flows}
    IN  IF \/ Len(flows) < limits.reflection_min_flows
           \/ reply < limits.reflection_min_reply_bytes
           \/ Cardinality(factors) < 2
        THEN {}
        ELSE {Result("udp_flood", "UDP_REFLECTION_LIKE", MultipleSources, service[1],
                     Score(ReflectionWeights, factors), ReflectionSeverity(amplification))}

ServiceOf(flow) == << flow.dst, flow.dport >>

ReflectionResults(flows) ==
    UNION {ReflectionFrom(s, Pick(flows, {i \in DOMAIN flows : ServiceOf(flows[i]) = s})) :
              s \in {ServiceOf(flows[i]) : i \in DOMAIN flows}}

UdpFloodPerDestination(udp) ==
    UNION {UdpFloodTo(dst, FlowsTo(dst, udp)) : dst \in Destinations(udp)}

UdpFloodOutcomes(flows) ==
    LET udp == FlowsOfProtocol(UDP, flows) IN
    IF udp = << >> THEN {{}}
    ELSE {WithDestinations(UdpFloodAggregate(udp, main), UdpFloodPerDestination(udp))
             \cup ReflectionResults(udp) : main \in MainTargets(udp)}

=============================================================================
