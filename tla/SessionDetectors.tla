-------------------------- MODULE SessionDetectors --------------------------
(***************************************************************************)
(* The detectors that judge a session by itself: C2 beaconing              *)
(* (detectors/c2_beacon.py), data exfiltration (exfiltration.py), encrypted *)
(* sessions (encrypted_session.py) and DNS threats (dns_threat.py).        *)
(*                                                                         *)
(* They are constructed without arguments, so their limits are the         *)
(* defaults of their constructors.  Only the C2 detector keeps state, the  *)
(* times of the flows of every session it has seen; it is a value that     *)
(* Remember maps to the next one.  A flow without timestamp never gets     *)
(* here: the windowing keeps those apart.                                  *)
(***************************************************************************)
EXTENDS RateDetectors

CONSTANTS
    Defaults,           \* per detector, the defaults of its constructor
    Domain,             \* per DNS query, what the detector computes of it
    NoQuery             \* dns_query is None

ASSUME SessionAssumption ==
    /\ Defaults.c2.min_repeats \in Nat \ {0, 1}
    /\ Defaults.c2.history_limit \in Nat \ {0}
    /\ Defaults.c2.max_cv \in Nat
    /\ Defaults.c2.min_interval \in Nat
    /\ Defaults.c2.max_interval \in Nat
    /\ Defaults.exfiltration.min_outbound_bytes \in Nat \ {0}
    /\ Defaults.exfiltration.min_score \in 51..100
    /\ Defaults.encrypted_session.min_bytes \in Nat \ {0}
    /\ Defaults.encrypted_session.min_score \in 66..100
    /\ NoQuery \notin DOMAIN Domain

\* The weight of a factor that was found.
When(found, weight) == IF found THEN weight ELSE 0

-----------------------------------------------------------------------------
(* C2 beaconing.                                                           *)

SessionOf(flow) == << flow.src, flow.dst, flow.dport, flow.proto >>
Sessions(flows) == {SessionOf(flows[i]) : i \in DOMAIN flows}

Past(history, session) ==
    IF session \in DOMAIN history THEN history[session] ELSE << >>

LastOf(n, s) == SubSeq(s, Max({1, Len(s) - n + 1}), Len(s))

\* The times of a session's flows in a window.
TimesOf(session, flows) ==
    LET now == Pick(flows, {i \in DOMAIN flows : SessionOf(flows[i]) = session})
    IN  [i \in DOMAIN now |-> now[i].last]

\* The deques after the flows of a window: a flow that lies in several
\* windows is appended for each of them.
\* Mutant: the history starts anew in every window.
RememberWindowOnly(history, flows) ==
    [s \in Sessions(flows) |->
        LastOf(Defaults.c2.history_limit, TimesOf(s, flows))]
Remember(history, flows) ==
    [s \in DOMAIN history \cup Sessions(flows) |->
        LastOf(Defaults.c2.history_limit, Past(history, s) \o TimesOf(s, flows))]

\* A set of numbers, the least first.
Ascending(S) ==
    CHOOSE s \in [1..Cardinality(S) -> S] : \A i, j \in DOMAIN s : i < j => s[i] < s[j]

\* The positive intervals between the sorted times; equal times leave none.
Intervals(times) ==
    LET sorted == Ascending(ToSet(times))
    IN  [i \in 1..(Len(sorted) - 1) |-> sorted[i + 1] - sorted[i]]

SumOfSquares(s) == SumOf([i \in DOMAIN s |-> s[i] * s[i]])

\* n^2 times the variance of the n intervals; the coefficient of variation is
\* the square root of this over the sum.
Spread(intervals) ==
    Len(intervals) * SumOfSquares(intervals) - SumOf(intervals) * SumOf(intervals)

\* Mutant: repeats are counted, the intervals between them are not.
PeriodicByCount(times) ==
    LET limits    == Defaults.c2
        intervals == Intervals(times)
        n         == Len(intervals)
        sum       == SumOf(intervals)
    IN  /\ Len(times) >= limits.min_repeats
        /\ n >= 1
        /\ sum \in (limits.min_interval * n)..(limits.max_interval * n)
        /\ 10000 * Spread(intervals) <= limits.max_cv * limits.max_cv * sum * sum
Periodic(times) ==
    LET limits    == Defaults.c2
        intervals == Intervals(times)
        n         == Len(intervals)
        sum       == SumOf(intervals)
    IN  /\ Len(times) >= limits.min_repeats
        /\ n >= Max({1, limits.min_repeats - 1})
        /\ sum \in (limits.min_interval * n)..(limits.max_interval * n)
        /\ 10000 * Spread(intervals) <= limits.max_cv * limits.max_cv * sum * sum

\* Hundredths of 0.45 * periodicity + 0.25 * min(repeats / 20, 1) + 0.30.
BeaconScore(times) ==
    LET intervals == Intervals(times)
        regular == Max({k \in 0..45 : 45 ^ 2 * Spread(intervals)
                                         <= (45 - k) ^ 2 * SumOf(intervals) ^ 2})
    IN  regular + (25 * Min({Len(times), 20})) \div 20 + 30

\* detect: the sessions with a flow in this window whose history is periodic.
\* These results, and those below, carry no severity.
BeaconResults(history, flows) ==
    {Result("c2_beacon", "C2_BEACONING", s[1], s[2], BeaconScore(history[s]), "none") :
        s \in {q \in Sessions(flows) : Periodic(history[q])}}

-----------------------------------------------------------------------------
(* Data exfiltration.                                                      *)

\* out / max(in, 1) >= ratio
Outweighs(out, in, ratio) == out >= ratio * Max({in, 1})

\* The mean is that of the flows of the same source in the window.
\* Mutant: the weights of volume and rarity are swapped.
ExfiltrationScoreSwapped(out, in, duration, rare, sourceTotal, sourceFlows) ==
    LET limits == Defaults.exfiltration
    IN    When(out >= limits.min_outbound_bytes, 15)
        + When(Outweighs(out, in, limits.min_ratio), 20)
        + When(duration >= limits.min_duration, 15)
        + When(rare, 35)
        + When(/\ sourceTotal > 0
               /\ out >= limits.min_outbound_bytes
               /\ out * sourceFlows >= 5 * sourceTotal, 15)
ExfiltrationScore(out, in, duration, rare, sourceTotal, sourceFlows) ==
    LET limits == Defaults.exfiltration
    IN    When(out >= limits.min_outbound_bytes, 35)
        + When(Outweighs(out, in, limits.min_ratio), 20)
        + When(duration >= limits.min_duration, 15)
        + When(rare, 15)
        + When(/\ sourceTotal > 0
               /\ out >= limits.min_outbound_bytes
               /\ out * sourceFlows >= 5 * sourceTotal, 15)

Duration(flow) == Max({0, flow.duration})

ScoreOfTransfer(f, flows) ==
    LET own == FlowsFrom(f.src, flows)
    IN  ExfiltrationScore(f.src2dst_bytes, f.dst2src_bytes, Duration(f),
                          Occurrences("dst", f.dst, flows) <= 1,
                          Total("src2dst_bytes", own), Len(own))

ExfiltrationResults(flows) ==
    {Result("exfiltration", "POTENTIAL_DATA_EXFILTRATION", f.src, f.dst,
            ScoreOfTransfer(f, flows), "none") :
        f \in {g \in ToSet(flows) :
                  ScoreOfTransfer(g, flows) >= Defaults.exfiltration.min_score}}

-----------------------------------------------------------------------------
(* Encrypted sessions.                                                     *)

TlsPorts == {443, 8443}
HasMetadata(flow) == flow.tls \/ flow.quic
MayBeEncrypted(flow) ==
    flow.dport \in TlsPorts \/ flow.sport \in TlsPorts \/ HasMetadata(flow)

\* 0 < mean inter-arrival time < 20 ms
Rapid(piat) == Defined(piat) /\ piat[1] > 0 /\ piat[1] < 20 * piat[2]

EncryptedScore(out, in, duration, rare, fingerprint, rapid) ==
      When(out >= Defaults.encrypted_session.min_bytes, 35)
    + When(duration >= Defaults.encrypted_session.min_duration, 15)
    + When(Outweighs(out, in, 5), 20)
    + When(rare, 15)
    + When(fingerprint, 5)
    + When(rapid, 10)

ScoreOfSession(f, candidates) ==
    EncryptedScore(f.src2dst_bytes, f.dst2src_bytes, Duration(f),
                   Occurrences("dst", f.dst, candidates) <= 1,
                   f.ja4, Rapid(f.piat))

EncryptedResults(flows) ==
    LET candidates == Pick(flows, {i \in DOMAIN flows : MayBeEncrypted(flows[i])})
    IN  {Result("encrypted_session", "ENCRYPTED_SESSION_MALWARE", f.src, f.dst,
                ScoreOfSession(f, candidates), "none") :
            f \in {g \in ToSet(candidates) :
                      /\ HasMetadata(g)
                      /\ ScoreOfSession(g, candidates)
                           >= Defaults.encrypted_session.min_score}}

-----------------------------------------------------------------------------
(* DNS threats.  Domain gives, for a query as the packet spells it, the     *)
(* normalized name, the lengths of the name and its first label and, in    *)
(* hundredths, the label's entropy and its shares of digits and vowels.    *)

DnsFlows(flows) ==
    Pick(flows, {i \in DOMAIN flows : /\ 53 \in {flows[i].sport, flows[i].dport}
                                      /\ flows[i].query # NoQuery})

NxDomains(items) == CountWhere(LAMBDA f : f.nxdomain, items)

\* Ten-thousandths of char_anomaly.
CharAnomaly(d) ==
    11 * d.entropy + 20 * Min({2 * d.digits, 100}) + 15 * (100 - d.vowels)
      + When(d.label >= 20, 1000)

\* Hundredths of dga_score, rounded down, for n queries of which nx failed.
DgaScore(d, nx, n) ==
    Min({100, (CharAnomaly(d) * n + 2000 * nx) \div (100 * n)})

TunnelScore(d, unique, nx, n) ==
      When(d.label >= 30, 30)
    + When(d.entropy >= 350, 20)
    + When(d.length >= 45, 15)
    + When(100 * unique >= 80 * n /\ n >= 5, 15)
    + When(n >= 10, 10)
    + When(2 * nx >= n, 10)

DnsResultsFrom(src, items) ==
    LET n      == Len(items)
        nx     == NxDomains(items)
        unique == Cardinality({Domain[items[i].query].name : i \in 1..n})
        Dga(f)    == DgaScore(Domain[f.query], nx, n)
        Tunnel(f) == TunnelScore(Domain[f.query], unique, nx, n)
    IN  {Result("dns_threat", "DGA", src, f.dst, Dga(f), "none") :
            f \in {g \in ToSet(items) : Dga(g) >= Defaults.dns_threat.min_dga_score}}
        \cup
        {Result("dns_threat", "DNS_TUNNELLING", src, f.dst, Tunnel(f), "none") :
            f \in {g \in ToSet(items) : Tunnel(g) >= Defaults.dns_threat.min_tunnel_score}}

DnsResults(flows) ==
    LET dns == DnsFlows(flows)
    IN  UNION {DnsResultsFrom(src, FlowsFrom(src, dns)) : src \in Sources(dns)}

=============================================================================
