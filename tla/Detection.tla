----------------------------- MODULE Detection -----------------------------
(***************************************************************************)
(* From packets to verdicts: packets arrive, live or in a file, become     *)
(* flow records (FlowExtraction), the records enter a window, and the      *)
(* detector factory runs every enabled detector on that window             *)
(* (detectors/detector_factory.py).                                        *)
(*                                                                         *)
(* What the windowing hands over besides the new records is some of the    *)
(* newest records of the window before, which of them is left open here    *)
(* (SlidingWindow says which).  `sightings` is a history variable.         *)
(***************************************************************************)
EXTENDS FlowExtraction

CONSTANTS
    Readers,            \* of "live", "stdlib", "nfstream": how packets are read
    Detectors,          \* the enabled detectors, by their canonical names
    Hosts,              \* the addresses that occur
    Kinds,              \* the packets that occur, without their time
    Steps,              \* time of a packet minus that of the one before it
    StartTime,          \* time of the first packet
    MaxPackets,         \* bound: packets in a behaviour
    MaxAnalyses         \* bound: windows analysed

Contents == {"none", "client_hello", "long_header", "short_header", "dns", "bad_dns"}
Flags    == {"F", "S", "R", "P", "A", "U"}

ASSUME DetectionAssumption ==
    /\ Readers \subseteq {"live", "stdlib", "nfstream"}
    /\ Kinds \subseteq [ src : Hosts, dst : Hosts, sport : Nat, dport : Nat, proto : Nat,
                         length : Nat, flags : SUBSET Flags, content : Contents,
                         query : DOMAIN Domain \cup {NoQuery}, nxdomain : BOOLEAN ]
    /\ Steps \subseteq Int
    /\ StartTime \in Int

VARIABLES
    reader,             \* how this pipeline reads packets
    clock,              \* time of the last packet, or StartTime
    packets,            \* the packets since the last analysis
    table,              \* live: IncrementalScapyFlowAggregator._flows
    evictions,          \* live: flows evicted since the last analysis
    window,             \* the records of the last window analysed
    beacons,            \* C2BeaconDetector.history
    verdicts,           \* what run_all_detectors returned for the window
    arrived, analyses,  \* bounds
    sightings,          \* history: <<session, time>> of each record analysed
    handed              \* history: number of records in the windows so far

vars == << reader, clock, packets, table, evictions, window, beacons,
           verdicts, arrived, analyses, sightings, handed >>

-----------------------------------------------------------------------------
Init ==
    /\ reader \in Readers
    /\ clock = StartTime
    /\ packets = << >>
    /\ table = << >>
    /\ evictions = 0
    /\ window = << >>
    /\ beacons = << >>
    /\ verdicts = {}
    /\ arrived = 0
    /\ analyses = 0
    /\ sightings = {}
    /\ handed = 0

At(kind, time) == Joined(kind, [time |-> time])

\* The times the next packet may carry.
Times == IF arrived = 0 THEN {StartTime} ELSE {clock + step : step \in Steps}

\* A packet is captured and fed to the live table, or is the next in the file.
Arrive(kind, time) ==
    LET p == At(kind, time) IN
    /\ arrived < MaxPackets
    /\ analyses < MaxAnalyses
    /\ arrived' = arrived + 1
    /\ clock' = time
    /\ packets' = Append(packets, p)
    /\ IF reader = "live"
       THEN /\ table' = AddPacket(table, p)
            /\ evictions' = evictions + One(Evicts(table, p))
       ELSE UNCHANGED << table, evictions >>
    /\ UNCHANGED << reader, window, beacons, verdicts, analyses,
                    sightings, handed >>

\* What the reader may make of the packets that arrived.
NewRecords ==
    CASE reader = "live"     -> {Records(table)}
      [] reader = "stdlib"   -> {StdlibFlows(packets)}
      [] reader = "nfstream" -> NfstreamOrScapy(packets)

\* A detector that is not enabled reports nothing.
Enabled(detector, outcomes) == IF detector \in Detectors THEN outcomes ELSE {{}}

\* run_all_detectors: what the enabled detectors may report together, given
\* the history of sessions.
Reports(history, flows) ==
    { scans \cup ddos \cup syn \cup udp \cup beaconing \cup dns \cup encrypted \cup transfers :
        scans     \in Enabled("port_scan", {PortScanResults(flows)}),
        ddos      \in Enabled("ddos", DDoSOutcomes(flows)),
        syn       \in Enabled("syn_flood", SynFloodOutcomes(flows)),
        udp       \in Enabled("udp_flood", UdpFloodOutcomes(flows)),
        beaconing \in Enabled("c2", {BeaconResults(history, flows)}),
        dns       \in Enabled("dns_threat", {DnsResults(flows)}),
        encrypted \in Enabled("encrypted_session", {EncryptedResults(flows)}),
        transfers \in Enabled("exfiltration", {ExfiltrationResults(flows)}) }

Sighted(flows) == {<< SessionOf(flows[i]), flows[i].last >> : i \in DOMAIN flows}

Forget ==
    /\ packets' = << >>
    /\ table' = << >>
    /\ evictions' = 0

\* A window of the last `kept` records of the one before and the new ones.
Analyse(kept, records) ==
    LET flows   == LastOf(kept, window) \o records
        history == Remember(beacons, flows)
    IN  /\ analyses < MaxAnalyses
        /\ records # << >>
        /\ analyses' = analyses + 1
        /\ window' = flows
        /\ beacons' = history
        /\ verdicts' \in Reports(history, flows)
        /\ sightings' = sightings \cup Sighted(flows)
        /\ handed' = handed + Len(flows)
        /\ Forget
        /\ UNCHANGED << reader, clock, arrived >>

\* NFStream fails, and Scapy gives up on a malformed DNS message: no flows, no
\* window.
ReadFails ==
    /\ analyses < MaxAnalyses
    /\ reader = "nfstream"
    /\ ScapyRaises(packets)
    /\ analyses' = analyses + 1
    /\ Forget
    /\ UNCHANGED << reader, clock, window, beacons, verdicts, arrived,
                    sightings, handed >>

Next ==
    \/ \E kind \in Kinds, time \in Times : Arrive(kind, time)
    \/ \E kept \in 0..Len(window), records \in NewRecords : Analyse(kept, records)
    \/ ReadFails

Spec == Init /\ [][Next]_vars

-----------------------------------------------------------------------------
\* What the readers of a capture define alike: all but the identity, the
\* metadata of TLS and QUIC and the mean inter-arrival time.
Alike(flow, fields) == [f \in fields |-> flow[f]]
SharedFields ==
    { "src", "dst", "sport", "dport", "proto", "first", "last", "duration",
      "packets", "bytes", "src2dst_packets", "src2dst_bytes", "dst2src_packets",
      "dst2src_bytes", "syn", "syn_only", "ack", "rst", "query", "nxdomain" }

AlikeAll(flows, fields) == [i \in DOMAIN flows |-> Alike(flows[i], fields)]

Ordered(ps) == \A i, j \in DOMAIN ps : i <= j => ps[i].time <= ps[j].time

\* No reader has a special case for these packets.
Plain(ps) ==
    \A i \in DOMAIN ps :
        /\ ps[i].proto \in KnownProtocols
        /\ ps[i].content # "bad_dns"
        /\ ps[i].content = "dns" => ps[i].query # NoQuery

\* The flows that live capture accumulates packet by packet are the flows
\* that a reader finds in a file of the same packets, in the same order and
\* with the same counters, as long as none was evicted.  For Scapy this takes
\* two different addresses and packets in the order of their times.
ExtractionAgrees ==
    reader = "live" /\ evictions = 0 /\ Plain(packets) =>
        /\ AlikeAll(Records(table), SharedFields)
             = AlikeAll(StdlibFlows(packets), SharedFields)
        /\ Ordered(packets) /\ (\A i \in DOMAIN packets : packets[i].src # packets[i].dst)
             => AlikeAll(Records(table), SharedFields \cup {"syn_ack"})
                  = AlikeAll(ScapyFlows(packets), SharedFields \cup {"syn_ack"})

\* The counters of a live flow fit together: a packet has one direction and
\* counts once, and every SYN either carries an ACK or does not.
CountersAddUp ==
    \A i \in DOMAIN table :
        LET f == table[i]
        IN  /\ f.packets > 0
            /\ f.src2dst_packets + f.dst2src_packets = f.packets
            /\ f.src2dst_bytes + f.dst2src_bytes = f.bytes
            /\ f.syn_only + f.syn_ack = f.syn
            /\ f.syn_ack <= f.ack
            /\ f.syn <= f.packets
            /\ f.ack <= f.packets

AccusedOf(results, detector) == {r.dst : r \in {q \in results : q.detector = detector}}

\* An ACK on a known connection speaks for its ends: in a capture in order, it
\* never makes the SYN flood detector accuse a host that it would not have
\* accused before.
SynAccused(flows) == AccusedOf(UNION SynFloodOutcomes(flows), "syn_flood")
AckArrives ==
    LET p == packets'[Len(packets')]
    IN  /\ arrived' = arrived + 1
        /\ p.proto = TCP
        /\ p.flags = {"A"}
        /\ StateOf(table, p) # {}
HandshakeClears ==
    [][ reader = "live" /\ AckArrives /\ Ordered(packets') =>
          SynAccused(Records(table')) \subseteq SynAccused(Records(table)) ]_vars

\* A flood on the whole network hides none on a single host: each host whose
\* own flows are evidence enough is named by the detector.
NoTargetMasked ==
    \A dst \in Destinations(window) :
        LET tcp == FlowsTo(dst, FlowsOfProtocol(TCP, window))
            udp == FlowsTo(dst, FlowsOfProtocol(UDP, window))
        IN  /\ "ddos" \in Detectors /\ DDoSTo(dst, FlowsTo(dst, window)) # {}
                 => dst \in AccusedOf(verdicts, "ddos")
            /\ "syn_flood" \in Detectors /\ SynFloodTo(dst, tcp) # {}
                 => dst \in AccusedOf(verdicts, "syn_flood")
            /\ "udp_flood" \in Detectors /\ UdpFloodTo(dst, udp) # {}
                 => dst \in AccusedOf(verdicts, "udp_flood")

Contacts(session) == {s[2] : s \in {q \in sightings : q[1] = session}}

Beaconing(session) ==
    \E r \in verdicts : r.detector = "c2_beacon" /\ r.src = session[1] /\ r.dst = session[2]

\* A session is reported as a beacon only if it was active at enough different
\* times, far enough apart: the same flow seen again in overlapping windows is
\* no repeat.
BeaconsReal ==
    \A r \in verdicts : r.detector = "c2_beacon" =>
        \E session \in Sessions(window) :
            LET times == Contacts(session)
            IN  /\ session[1] = r.src /\ session[2] = r.dst
                /\ Cardinality(times) >= Defaults.c2.min_repeats
                /\ Max(times) - Min(times)
                     >= Defaults.c2.min_interval * (Defaults.c2.min_repeats - 1)

\* A cadence longer than the windows is found all the same: a session of the
\* window that was active at enough times, always the same interval apart, is
\* reported, as long as what the windows showed fits in the history.
Even(times) ==
    \E step \in (Defaults.c2.min_interval..Defaults.c2.max_interval) \ {0} :
        \A t \in times : t = Max(times) \/ (t + step \in times
                                             /\ \A u \in times : u <= t \/ u >= t + step)
BeaconsSeen ==
    \A session \in Sessions(window) :
        /\ "c2" \in Detectors
        /\ handed <= Defaults.c2.history_limit
        /\ Cardinality(Contacts(session)) >= Defaults.c2.min_repeats
        /\ Even(Contacts(session))
        => Beaconing(session)

\* No report of exfiltration or of an encrypted session without its volume:
\* rarity, duration and asymmetry together never replace the bytes sent.
VolumeNeeded ==
    \A r \in verdicts :
        LET Sent(floor) == \E f \in ToSet(window) :
                              f.src = r.src /\ f.dst = r.dst /\ f.src2dst_bytes >= floor
        IN  /\ r.detector = "exfiltration" => Sent(Defaults.exfiltration.min_outbound_bytes)
            /\ r.detector = "encrypted_session" => Sent(Defaults.encrypted_session.min_bytes)

=============================================================================
