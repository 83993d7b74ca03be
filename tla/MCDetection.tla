---------------------------- MODULE MCDetection ----------------------------
(***************************************************************************)
(* Detection for TLC.  Three packets, in every order of eight kinds and with *)
(* steps of 50 ms forwards and backwards, in up to three windows.  The     *)
(* limits of the detectors are scaled down until three packets reach them: *)
(* a flow counts as many, a byte as thousands.                             *)
(***************************************************************************)
EXTENDS Detection

CONSTANTS s1, s2, v1, v2

NoFlags == {}
Kind(src, dst, sport, dport, proto, length, flags, content, query) ==
    [ src |-> src, dst |-> dst, sport |-> sport, dport |-> dport, proto |-> proto,
      length |-> length, flags |-> flags, content |-> content, query |-> query,
      nxdomain |-> query # NoQuery ]

Tcp(src, dst, sport, dport, flags) ==
    Kind(src, dst, sport, dport, TCP, 1, flags, "none", NoQuery)

\* A handshake of s1 with v1, a SYN of s2 to v2, uploads of s1 to v2 over TLS
\* and QUIC, and DNS queries, one of them malformed.
MCKinds ==
    { Tcp(s1, v1, 1000, 80, {"S"}),
      Tcp(v1, s1, 80, 1000, {"S", "A"}),
      Tcp(s1, v1, 1000, 80, {"A"}),
      Tcp(s2, v2, 1000, 80, {"S"}),
      Kind(s1, v2, 1000, 443, TCP, 10, {"A"}, "client_hello", NoQuery),
      Kind(s1, v2, 1000, 443, UDP, 10, NoFlags, "long_header", NoQuery),
      Kind(s1, v2, 1000, 53, UDP, 1, NoFlags, "dns", "long"),
      Kind(s1, v2, 1000, 53, UDP, 1, NoFlags, "bad_dns", NoQuery) }

MCHosts     == {s1, s2, v1, v2}
MCReaders   == {"live", "stdlib", "nfstream"}
MCDetectors == { "port_scan", "ddos", "syn_flood", "udp_flood", "c2", "dns_threat",
                 "encrypted_session", "exfiltration" }
MCSteps     == {-50, 50}

MCThresholds ==
    [ port_scan |-> [ min_flows |-> 2, min_unique_ports |-> 2, min_unique_hosts |-> 2,
                      min_syn_ratio |-> 70, min_failed_ratio |-> 70 ],
      ddos      |-> [ min_flows |-> 2, min_pps |-> 100, min_bps |-> 100, min_syn_ratio |-> 70,
                      source_concentration |-> 70, min_distinct |-> 2 ],
      syn_flood |-> [ min_flows |-> 1, min_syn_only_pps |-> 50, max_ack_completion_ratio |-> 20,
                      destination_concentration_threshold |-> 70,
                      min_spoofing_likelihood |-> 60 ],
      udp_flood |-> [ min_flows |-> 1, min_udp_pps |-> 20,
                      dest_port_concentration_threshold |-> 70,
                      destination_concentration_threshold |-> 70,
                      min_one_packet_source_ratio |-> 60,
                      reflection_min_amplification_ratio |-> 500,
                      reflection_min_flows |-> 1, reflection_min_reply_bytes |-> 5 ] ]

MCDefaults ==
    [ c2 |-> [ min_repeats |-> 3, max_cv |-> 20, min_interval |-> 50, max_interval |-> 300,
               history_limit |-> 4 ],
      exfiltration |-> [ min_outbound_bytes |-> 25, min_ratio |-> 5, min_duration |-> 50,
                         min_score |-> 70 ],
      encrypted_session |-> [ min_bytes |-> 10, min_duration |-> 50, min_score |-> 70 ],
      dns_threat |-> [ min_dga_score |-> 65, min_tunnel_score |-> 70 ] ]

\* A name with a long random first label.
MCDomain ==
    [ q \in {"long"} |-> [ name |-> q, label |-> 32, length |-> 48, entropy |-> 450,
                           digits |-> 40, vowels |-> 10 ] ]
=============================================================================
