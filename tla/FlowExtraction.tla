--------------------------- MODULE FlowExtraction ---------------------------
(***************************************************************************)
(* How packets become flow records (flow/nfstream_wrapper.py): packet by   *)
(* packet in live capture (IncrementalScapyFlowAggregator), and a whole    *)
(* file at once by the dependency-free reader (_extract_with_stdlib with   *)
(* pcap_stdlib.py), by NFStream, or by Scapy where NFStream fails.         *)
(*                                                                         *)
(* The live table is a sequence of flow states that operators map to the   *)
(* next one, with every counter kept step by step as the code keeps it;    *)
(* FlowBuilder is the same table with the packets in place of counters.    *)
(* The records of a file are defined by what they count in the end.        *)
(*                                                                         *)
(* A packet has a time, two endpoints, a protocol, a length, TCP flags and *)
(* a content: "none", "client_hello", "long_header" (QUIC),                *)
(* "short_header", "dns" (with query and nxdomain) or "bad_dns".  DNS is   *)
(* UDP traffic of port 53 here.  FIN and ICMP counters and packet sizes    *)
(* are left out.                                                           *)
(***************************************************************************)
EXTENDS SessionDetectors

CONSTANT MaxFlows       \* max_flows of the live table

ASSUME ExtractionAssumption == MaxFlows \in Nat \ {0}

Sender(p)   == << p.src, p.sport >>
Receiver(p) == << p.dst, p.dport >>

\* The flow key: both directions of a conversation have the same.
Conversation(p) == << {Sender(p), Receiver(p)}, p.proto >>

HasFlag(p, flag) == p.proto = TCP /\ flag \in p.flags
IsSynOnly(p)     == HasFlag(p, "S") /\ ~ HasFlag(p, "A")
\* Mutant: any ACK counts.
IsAnyAck(p)      == HasFlag(p, "A")
IsSynAck(p)      == HasFlag(p, "S") /\ HasFlag(p, "A")

\* What Scapy and the live table make flows of; the file reader takes any IP.
KnownProtocols == {ICMP, TCP, UDP}

One(test) == IF test THEN 1 ELSE 0

\* The fields of both records, those of r first.
Joined(r, s) ==
    [field \in DOMAIN r \cup DOMAIN s |-> IF field \in DOMAIN r THEN r[field] ELSE s[field]]

-----------------------------------------------------------------------------
(* Live.                                                                   *)

NewState(p) ==
    [ src |-> p.src, dst |-> p.dst, sport |-> p.sport, dport |-> p.dport,
      proto |-> p.proto, first |-> p.time, last |-> p.time,
      packets |-> 0, bytes |-> 0,
      src2dst_packets |-> 0, src2dst_bytes |-> 0,
      dst2src_packets |-> 0, dst2src_bytes |-> 0,
      syn |-> 0, syn_only |-> 0, syn_ack |-> 0, ack |-> 0, rst |-> 0,
      query |-> NoQuery, nxdomain |-> FALSE, tls |-> FALSE, quic |-> FALSE ]

\* The direction of a packet is that of the flow's first packet or the other.
FromSource(state, p) == p.src = state.src /\ p.sport = state.sport

\* A client hello is compared with the four characters \x16 and is never
\* recognized; both header forms of QUIC are.
LiveQuic(state, p) ==
    \/ state.quic
    \/ p.proto = UDP /\ p.dport = 443 /\ p.content \in {"long_header", "short_header"}

\* A message without question leaves the query; a malformed one resets it.
LiveQuery(state, p) ==
    CASE p.content = "dns" /\ p.query # NoQuery -> p.query
      [] p.content = "bad_dns" -> NoQuery
      [] OTHER -> state.query

Tallied(state, p) ==
    [ state EXCEPT
        !.last            = p.time,
        !.packets         = @ + 1,
        !.bytes           = @ + p.length,
        !.src2dst_packets = @ + One(FromSource(state, p)),
        !.src2dst_bytes   = @ + When(FromSource(state, p), p.length),
        !.dst2src_packets = @ + One(~ FromSource(state, p)),
        !.dst2src_bytes   = @ + When(~ FromSource(state, p), p.length) ]

Flagged(state, p) ==
    [ state EXCEPT
        !.syn      = @ + One(HasFlag(p, "S")),
        !.syn_only = @ + One(IsSynOnly(p)),
        !.syn_ack  = @ + One(IsSynAck(p)),
        !.ack      = @ + One(HasFlag(p, "A")),
        !.rst      = @ + One(HasFlag(p, "R")) ]

Dissected(state, p) ==
    [ state EXCEPT
        !.query    = LiveQuery(state, p),
        !.nxdomain = IF p.content = "dns" THEN p.nxdomain ELSE @,
        !.quic     = LiveQuic(state, p) ]

\* What a packet adds to the state of its flow.
Count(state, p) == Dissected(Flagged(Tallied(state, p), p), p)

\* Mutant: each direction of a conversation has a state of its own.
StateOfDirection(table, p) ==
    {i \in DOMAIN table : /\ << Sender(table[i]), Receiver(table[i]) >> = << Sender(p), Receiver(p) >>
                          /\ table[i].proto = p.proto}
StateOf(table, p) == {i \in DOMAIN table : Conversation(table[i]) = Conversation(p)}

\* add_packet up to the loop that evicts.
Updated(table, p) ==
    IF StateOf(table, p) = {}
    THEN Append(table, Count(NewState(p), p))
    ELSE [i \in DOMAIN table |-> IF i \in StateOf(table, p)
                                 THEN Count(table[i], p) ELSE table[i]]

\* add_packet.  At most the one new flow is too many.
AddPacket(table, p) ==
    IF p.proto \notin KnownProtocols THEN table
    ELSE LET all == Updated(table, p)
         IN  IF Len(all) > MaxFlows THEN Tail(all) ELSE all

Evicts(table, p) == p.proto \in KnownProtocols /\ Len(Updated(table, p)) > MaxFlows

\* snapshot: the records number from 0 and leave the TLS and QUIC metadata
\* behind; the mean inter-arrival time is over the packets, not the gaps.
LiveRecord(state, index) ==
    LET duration == Max({0, state.last - state.first})
    IN  Joined([ state EXCEPT !.tls = FALSE, !.quic = FALSE ],
               [ id |-> index, ja4 |-> FALSE, duration |-> duration,
                 piat |-> Ratio(duration, state.packets) ])

Records(table) == [i \in DOMAIN table |-> LiveRecord(table[i], i - 1)]

-----------------------------------------------------------------------------
(* Files.                                                                  *)

\* The conversations of a file, in the order of their first packets.
FirstPackets(packets) ==
    {i \in DOMAIN packets :
        \A j \in 1..(i - 1) : Conversation(packets[j]) # Conversation(packets[i])}

PacketsOf(opening, packets) ==
    Pick(packets, {i \in DOMAIN packets : Conversation(packets[i]) = Conversation(opening)})

Conversations(packets) ==
    LET openings == Pick(packets, FirstPackets(packets))
    IN  [k \in DOMAIN openings |-> PacketsOf(openings[k], packets)]

\* The fields that both readers define alike, for the packets ps of a flow.
Common(ps) ==
    LET opening  == ps[1]
        forward  == Pick(ps, {i \in DOMAIN ps : Sender(ps[i]) = Sender(opening)})
        backward == Pick(ps, {i \in DOMAIN ps : Sender(ps[i]) # Sender(opening)})
        Bytes(s) == Total("length", s)
    IN  [ src |-> opening.src, dst |-> opening.dst, proto |-> opening.proto,
          first |-> opening.time, last |-> ps[Len(ps)].time,
          packets |-> Len(ps), bytes |-> Bytes(ps),
          src2dst_packets |-> Len(forward), src2dst_bytes |-> Bytes(forward),
          dst2src_packets |-> Len(backward), dst2src_bytes |-> Bytes(backward),
          syn      |-> CountWhere(LAMBDA p : HasFlag(p, "S"), ps),
          syn_only |-> CountWhere(IsSynOnly, ps),
          ack      |-> CountWhere(LAMBDA p : HasFlag(p, "A"), ps),
          rst      |-> CountWhere(LAMBDA p : HasFlag(p, "R"), ps) ]

MeanGap(duration, n) == IF n > 1 THEN Ratio(duration, n - 1) ELSE Ratio(0, 1)

\* stable_flow_id, without the hash.
FlowId(src, dst, sport, dport, proto, start) == << src, dst, sport, dport, proto, start >>

\* What the last of some messages says, or the default.
LastGiven(field, messages, default) ==
    IF messages = << >> THEN default ELSE messages[Len(messages)][field]

Messages(ps)  == Pick(ps, {i \in DOMAIN ps : ps[i].content = "dns"})
Questions(ps) ==
    Pick(ps, {i \in DOMAIN ps : ps[i].content = "dns" /\ ps[i].query # NoQuery})

\* _extract_with_stdlib.  syn_ack stays 0: it counts bool(flags & 0x12) ==
\* 0x12, which is never true.  A DNS message counts with its question only.
StdlibRecord(ps) ==
    LET flow     == Common(ps)
        duration == Max({0, flow.last - flow.first})
        hello    == \E i \in DOMAIN ps : ps[i].proto = TCP /\ ps[i].dport = 443
                                         /\ ps[i].content = "client_hello"
    IN  Joined(flow,
        [ sport |-> ps[1].sport, dport |-> ps[1].dport,
          id |-> FlowId(flow.src, flow.dst, ps[1].sport, ps[1].dport, flow.proto, flow.first),
          duration |-> duration, piat |-> MeanGap(duration, Len(ps)), syn_ack |-> 0,
          query    |-> LastGiven("query", Questions(ps), NoQuery),
          nxdomain |-> LastGiven("nxdomain", Questions(ps), FALSE),
          tls  |-> hello, ja4 |-> hello,
          quic |-> \E i \in DOMAIN ps : ps[i].proto = UDP /\ ps[i].dport = 443
                                        /\ ps[i].content = "long_header" ])

StdlibFlows(packets) ==
    LET flows == Conversations(packets)
    IN  [k \in DOMAIN flows |-> StdlibRecord(flows[k])]

\* _extract_with_scapy: a malformed DNS message makes it raise.
ScapyRaises(packets) == \E i \in DOMAIN packets : packets[i].content = "bad_dns"

\* The record is turned by the initiator's address alone, so between two
\* ports of one address the smaller one becomes the source port.
Ports(p) ==
    IF p.src = p.dst
    THEN << Min({p.sport, p.dport}), Max({p.sport, p.dport}) >>
    ELSE << p.sport, p.dport >>

\* The duration is not clamped, and no TLS is recognized.
ScapyRecord(ps) ==
    LET flow     == Common(ps)
        duration == flow.last - flow.first
        ports    == Ports(ps[1])
    IN  Joined(flow,
        [ sport |-> ports[1], dport |-> ports[2],
          id |-> FlowId(flow.src, flow.dst, ports[1], ports[2], flow.proto, flow.first),
          duration |-> duration, piat |-> MeanGap(duration, Len(ps)),
          syn_ack  |-> CountWhere(IsSynAck, ps),
          query    |-> LastGiven("query", Questions(ps), NoQuery),
          nxdomain |-> LastGiven("nxdomain", Messages(ps), FALSE),
          tls  |-> FALSE, ja4 |-> FALSE,
          quic |-> \E i \in DOMAIN ps : ps[i].proto = UDP /\ ps[i].dport = 443
                                        /\ ps[i].content = "long_header" ])

ScapyFlows(packets) ==
    LET known == Pick(packets, {i \in DOMAIN packets : packets[i].proto \in KnownProtocols})
        flows == Conversations(known)
    IN  [k \in DOMAIN flows |-> ScapyRecord(flows[k])]

\* _dataframe_to_flow_records.  NFStream is a library: it is taken to find the
\* same flows, and to have the columns that the code asks for.  What it asks
\* for leaves out the SYNs with and without ACK, DNS, TLS and QUIC.  The id is
\* a number of the library's own.
NfstreamRecord(ps) ==
    LET flow == Common(ps)
    IN  Joined([flow EXCEPT !.syn_only = 0],
        [ sport |-> ps[1].sport, dport |-> ps[1].dport,
          duration |-> flow.last - flow.first,
          piat |-> MeanGap(flow.last - flow.first, Len(ps)),
          syn_ack |-> 0, query |-> NoQuery, nxdomain |-> FALSE,
          tls |-> FALSE, ja4 |-> FALSE, quic |-> FALSE ])

NfstreamFlows(packets) ==
    LET flows == Conversations(packets)
    IN  [k \in DOMAIN flows |-> NfstreamRecord(flows[k])]

\* extract_from_pcap with NFStream installed: when it fails or finds nothing,
\* Scapy reads the file.
NfstreamOrScapy(packets) ==
    {NfstreamFlows(packets)}
        \cup (IF ScapyRaises(packets) THEN {} ELSE {ScapyFlows(packets)})

=============================================================================
