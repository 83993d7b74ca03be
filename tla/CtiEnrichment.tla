--------------------------- MODULE CtiEnrichment ---------------------------
(***************************************************************************)
(* Threat-intelligence enrichment of alerts: ThreatIntelligenceEnricher of *)
(* src/src/cti/enrichment.py with its cache, the CTIRateLimiter of         *)
(* src/src/cti/rate_limiter.py, and the providers of                       *)
(* src/src/cti/providers.py as the network lets the enricher see them.     *)
(*                                                                         *)
(* An alert is enriched one indicator after the other: source address,     *)
(* destination address, domain.  A lookup is two steps, the admission      *)
(* (cache, then rate limiter) and the answer of the providers, because a   *)
(* provider may take its timeout to answer and the clock runs meanwhile.   *)
(* A provider answers, stays silent (time-out, refused connection, error   *)
(* status, exception), or returns something that is no CTIResult.  Which   *)
(* of these it can do depends on the provider and on the form of the       *)
(* indicator: lookup() asks nobody about a value that is neither an        *)
(* address nor a dotted name, such as the source "multiple_sources" of an  *)
(* aggregate alert.                                                        *)
(*                                                                         *)
(* `calls` and `answers` are history variables: when providers were        *)
(* queried, and what each indicator of the alert in hand really met.       *)
(***************************************************************************)
EXTENDS Integers, Sequences, FiniteSets, SequencesExt

CONSTANTS
    Addresses, Domains, \* indicators of the two cache key prefixes, "ip:" and "domain:"
    NoIndicator,
    Providers,
    Feeds,              \* <<p, i>>: provider p lists indicator i as malicious
    Malformed,          \* indicators that are neither an address nor a dotted name
    Kind,               \* provider -> "threatfox", "urlhaus" or "local"
    MaxRequests,        \* max_requests of the rate limiter
    WindowLen,          \* window_seconds of the rate limiter, in clock ticks
    CacheTtl,           \* cache_ttl, in clock ticks
    NotCached,          \* no cache entry
    NotEnriched,        \* no alert was returned yet
    MaxAlerts,          \* bound: alerts enriched
    MaxClock            \* bound: time

Indicators == Addresses \cup Domains

ASSUME CtiAssumption ==
    /\ Addresses \cap Domains = {}
    /\ NoIndicator \notin Indicators
    /\ Providers # {}
    /\ Feeds \subseteq Providers \X Indicators
    /\ Malformed \subseteq Indicators
    /\ Kind \in [Providers -> {"threatfox", "urlhaus", "local"}]
    /\ MaxRequests \in Nat \ {0}
    /\ WindowLen \in Nat \ {0}
    /\ CacheTtl \in Nat

VARIABLES
    clock,
    available,          \* providers with is_available()
    loaded,             \* providers whose indicators _load_data could read
    timestamps,         \* CTIRateLimiter._timestamps
    allowedCount, rejectedCount,
    cache,              \* indicator -> [result, at] or NotCached
    alert,              \* indicators of the alert in hand, by role
    step,               \* the role that is looked up next
    phase,              \* "idle", "admit" or "answer"
    statuses,           \* statuses of this alert's lookups
    contribution,       \* details['cti_risk_contribution']
    enriched,           \* the last alert batch_enrich appended, as it ended
    count,              \* alerts taken
    calls, answers

vars == << clock, available, loaded, timestamps, allowedCount, rejectedCount, cache,
           alert, step, phase, statuses, contribution, enriched, count,
           calls, answers >>

-----------------------------------------------------------------------------
Roles == << "source", "destination", "domain" >>
RoleSet == ToSet(Roles)
Weight(role) == CASE role = "source" -> 10
                  [] role = "destination" -> 5
                  [] role = "domain" -> 15

Role == Roles[step]
Indicator == alert[Role]

\* Mutants: eviction one tick early, and one tick late.
ExpiredEarly(q) ==
    CHOOSE n \in 0..Len(q) :
        /\ \A k \in 1..n : q[k] <= clock - WindowLen + 1
        /\ n = Len(q) \/ q[n + 1] > clock - WindowLen + 1
ExpiredLate(q) ==
    CHOOSE n \in 0..Len(q) :
        /\ \A k \in 1..n : q[k] < clock - WindowLen
        /\ n = Len(q) \/ q[n + 1] >= clock - WindowLen

\* How many timestamps _evict_expired pops from the left of the deque: those
\* that are a whole window old, up to the first that is not.
Expired(q) ==
    CHOOSE n \in 0..Len(q) :
        /\ \A k \in 1..n : q[k] <= clock - WindowLen
        /\ n = Len(q) \/ q[n + 1] > clock - WindowLen

Live(q) == SubSeq(q, Expired(q) + 1, Len(q))

\* allow() with a slot left.
Admits == Len(Live(timestamps)) < MaxRequests

\* A cache entry is served until its time to live has passed.
Fresh(i) == cache[i] # NotCached /\ cache[i].at + CacheTtl > clock

\* The CTIResult of a provider that answers from its list.
Listing(p, i) == IF << p, i >> \in Feeds THEN "flag" ELSE "clean"

\* ThreatFox posts the same search for both forms; an error, another status
\* code or a query_status other than "ok" is silence.
ThreatFoxLookup(p, i) == {Listing(p, i), "silent"}

\* URLhaus does so for a domain, but hands the parsed answer on for an
\* address: a dict, no CTIResult.  An empty dict is as good as silence.
URLhausLookup(p, i) ==
    IF i \in Addresses THEN {"raw", "silent"} ELSE {Listing(p, i), "silent"}

\* The local provider always answers, from an empty list when its file could
\* not be read.
LocalLookup(p, i) == {IF p \in loaded THEN Listing(p, i) ELSE "clean"}

\* What a queried provider may do with a lookup.
Outcomes(p, i) ==
    CASE i \in Malformed -> {"silent"}
      [] i \notin Malformed /\ Kind[p] = "threatfox" -> ThreatFoxLookup(p, i)
      [] i \notin Malformed /\ Kind[p] = "urlhaus" -> URLhausLookup(p, i)
      [] i \notin Malformed /\ Kind[p] = "local" -> LocalLookup(p, i)

Worth(result) == IF result = "malicious" THEN Weight(Role) ELSE 0

\* Mutant: a lookup that was made decides the status.
FinalStatusOptimistic(ss) ==
    IF "checked" \in ss THEN "CHECKED"
    ELSE IF ss = {"cache_hit"} THEN "CACHE_HIT"
    ELSE IF ss = {} THEN "DISABLED" ELSE "PARTIAL"

\* The status that enrich_alert gives an alert whose lookups all returned.
\* The branch for "unavailable" is never taken, see NoProvider.
FinalStatus(ss) ==
    IF "rate_limited" \in ss THEN "PARTIAL"
    ELSE IF ss = {} THEN "DISABLED"
    ELSE IF ss = {"cache_hit"} THEN "CACHE_HIT" ELSE "CHECKED"

Skipped(a) == {k \in DOMAIN Roles : a[Roles[k]] = NoIndicator}

NoAlert == [r \in RoleSet |-> NoIndicator]
NoAnswers == [r \in RoleSet |-> "none"]

\* Mutant: the contribution is not reset between alerts.
FinishKeepsContribution(status, gained, met) ==
    /\ enriched' = [status |-> status, contribution |-> gained, answers |-> met]
    /\ phase' = "idle"
    /\ step' = 1
    /\ alert' = NoAlert
    /\ statuses' = {}
    /\ contribution' = gained
    /\ answers' = NoAnswers

\* The locals of enrich_alert go with the alert they belong to.
Finish(status, gained, met) ==
    /\ enriched' = [status |-> status, contribution |-> gained, answers |-> met]
    /\ phase' = "idle"
    /\ step' = 1
    /\ alert' = NoAlert
    /\ statuses' = {}
    /\ contribution' = 0
    /\ answers' = NoAnswers

\* The lookup of Indicator returned with a status and a result; met is what
\* really happened to it.
Return(status, result, met) ==
    LET later  == {k \in DOMAIN Roles : k > step} \ Skipped(alert)
        gained == contribution + Worth(result)
        all    == [answers EXCEPT ![Role] = met]
        seen   == statuses \cup {status}
    IN  IF later = {}
        THEN Finish(FinalStatus(seen), gained, all)
        ELSE /\ step' = Min(later)
             /\ phase' = "admit"
             /\ statuses' = seen
             /\ contribution' = gained
             /\ answers' = all
             /\ UNCHANGED << alert, enriched >>

\* Mutant: the alert that broke off is restored to what it was before.
RaiseRestores(met) == Finish("NOT_RUN", 0, [answers EXCEPT ![Role] = met])

\* The lookup raised: batch_enrich keeps the alert as it is by now, its
\* cti_status untouched and the indicators that follow never looked up.
Raise(met) == Finish("NOT_RUN", contribution, [answers EXCEPT ![Role] = met])

-----------------------------------------------------------------------------
Init ==
    /\ clock = 0
    /\ available \in SUBSET Providers
    /\ loaded \in {Providers, {p \in Providers : Kind[p] # "local"}}
    /\ timestamps = << >>
    /\ allowedCount = 0
    /\ rejectedCount = 0
    /\ cache = [i \in Indicators |-> NotCached]
    /\ alert = NoAlert
    /\ step = 1
    /\ phase = "idle"
    /\ statuses = {}
    /\ contribution = 0
    /\ enriched = NotEnriched
    /\ count = 0
    /\ calls = << >>
    /\ answers = NoAnswers

\* batch_enrich takes the next alert; one without indicators is done at once.
TakeAlert(a) ==
    LET present == DOMAIN Roles \ Skipped(a)
    IN  /\ phase = "idle"
        /\ count < MaxAlerts
        /\ count' = count + 1
        /\ IF present = {}
           THEN Finish(FinalStatus({}), 0, NoAnswers)
           ELSE /\ step' = Min(present)
                /\ phase' = "admit"
                /\ alert' = a
                /\ UNCHANGED << statuses, contribution, answers, enriched >>
        /\ UNCHANGED << clock, available, loaded, timestamps, allowedCount,
                        rejectedCount, cache, calls >>

\* Served from the cache, at no cost for the rate limiter.  A cached None is
\* an answer too.
CacheHit ==
    /\ phase = "admit"
    /\ Fresh(Indicator)
    /\ Return("cache_hit", cache[Indicator].result, cache[Indicator].result)
    /\ UNCHANGED << clock, available, loaded, timestamps, allowedCount, rejectedCount,
                    cache, count, calls >>

\* The rate limiter has no slot: the lookup is skipped and not cached.
RateLimited ==
    /\ phase = "admit"
    /\ ~ Fresh(Indicator)
    /\ ~ Admits
    /\ timestamps' = Live(timestamps)
    /\ rejectedCount' = rejectedCount + 1
    /\ Return("rate_limited", "nothing", "skipped")
    /\ UNCHANGED << clock, available, loaded, allowedCount, cache, count, calls >>

\* The rate limiter grants a slot and the providers are asked.
Admit ==
    /\ phase = "admit"
    /\ ~ Fresh(Indicator)
    /\ Admits
    /\ timestamps' = Append(Live(timestamps), clock)
    /\ allowedCount' = allowedCount + 1
    /\ calls' = Append(calls, clock)
    /\ phase' = "answer"
    /\ UNCHANGED << clock, available, loaded, rejectedCount, cache, alert, step,
                    statuses, contribution, enriched, count, answers >>

\* No provider is available: the test after the loop reads a variable that
\* the loop never bound, and the lookup raises.
NoProvider ==
    /\ phase = "answer"
    /\ available = {}
    /\ Raise("unavailable")
    /\ UNCHANGED << clock, available, loaded, timestamps, allowedCount, rejectedCount,
                    cache, count, calls >>

\* Mutant: any result counts as a flag.
VerdictOfAnyResult(results, outcome) ==
    IF results = {} THEN "nothing" ELSE "malicious"

\* _aggregate_results: malicious when one of the results says so.
Verdict(results, outcome) ==
    IF results = {} THEN "nothing"
    ELSE IF \E p \in results : outcome[p] = "flag" THEN "malicious" ELSE "clean"

\* The available providers have answered or given up.  Without any result the
\* lookup counts as checked and the absence is cached.
Answer(outcome) ==
    LET i       == Indicator
        results == {p \in available : outcome[p] # "silent"}
        result  == Verdict(results, outcome)
    IN  /\ phase = "answer"
        /\ available # {}
        /\ \A p \in available : outcome[p] \in Outcomes(p, i)
        /\ IF \E p \in results : outcome[p] = "raw"
           THEN Raise("broken") /\ UNCHANGED cache
           ELSE /\ cache' = [cache EXCEPT ![i] = [result |-> result, at |-> clock]]
                /\ Return("checked", result, result)
        /\ UNCHANGED << clock, available, loaded, timestamps, allowedCount,
                        rejectedCount, count, calls >>

ClearCache ==
    /\ phase = "idle"
    /\ \E i \in Indicators : cache[i] # NotCached
    /\ cache' = [i \in Indicators |-> NotCached]
    /\ UNCHANGED << clock, available, loaded, timestamps, allowedCount, rejectedCount,
                    alert, step, phase, statuses, contribution, enriched,
                    count, calls, answers >>

\* get_provider_status reads the load of the limiter, which evicts.
CurrentLoad ==
    /\ phase = "idle"
    /\ timestamps # Live(timestamps)
    /\ timestamps' = Live(timestamps)
    /\ UNCHANGED << clock, available, loaded, allowedCount, rejectedCount, cache, alert,
                    step, phase, statuses, contribution, enriched, count,
                    calls, answers >>

Tick ==
    /\ clock < MaxClock
    /\ clock' = clock + 1
    /\ UNCHANGED << available, loaded, timestamps, allowedCount, rejectedCount, cache,
                    alert, step, phase, statuses, contribution, enriched,
                    count, calls, answers >>

AlertsIn ==
    {a \in [RoleSet -> Indicators \cup {NoIndicator}] :
        /\ {a["source"], a["destination"]} \subseteq Addresses \cup {NoIndicator}
        /\ a["domain"] \in Domains \cup {NoIndicator}}

Next ==
    \/ \E a \in AlertsIn : TakeAlert(a)
    \/ CacheHit
    \/ RateLimited
    \/ Admit
    \/ NoProvider
    \/ \E outcome \in [available -> {"flag", "clean", "silent", "raw"}] :
         Answer(outcome)
    \/ ClearCache
    \/ CurrentLoad
    \/ Tick

Spec == Init /\ [][Next]_vars

-----------------------------------------------------------------------------
Met == {"none", "malicious", "clean", "nothing", "skipped", "unavailable", "broken"}

TypeOK ==
    /\ available \subseteq Providers
    /\ phase \in {"idle", "admit", "answer"}
    /\ step \in DOMAIN Roles
    /\ phase # "idle" => Indicator \in Indicators
    /\ statuses \subseteq {"cache_hit", "checked", "rate_limited"}
    /\ contribution \in 0..30
    /\ answers \in [RoleSet -> Met]
    /\ \A i \in Indicators : cache[i] # NotCached =>
         cache[i].result \in {"malicious", "clean", "nothing"} /\ cache[i].at <= clock

\* No window of the rate limiter's length, wherever it starts, sees more than
\* max_requests external lookups, although the deque that decides forgets.
RateLimitHolds ==
    \A t \in 0..clock :
        Cardinality({k \in DOMAIN calls : calls[k] \in (t - WindowLen + 1)..t})
            <= MaxRequests

\* The limiter rejects a lookup only when the window that ends now is full:
\* together with RateLimitHolds it admits exactly as many as it may.
RejectsOnlyWhenFull ==
    [][ rejectedCount' > rejectedCount =>
          Cardinality({k \in DOMAIN calls :
              calls[k] \in (clock - WindowLen + 1)..clock}) = MaxRequests ]_vars

\* A skipped lookup is never read as a negative one: an alert with an
\* indicator that the rate limiter kept from the providers ends as PARTIAL,
\* or as NOT_RUN when a later lookup raised.
SkipIsVisible ==
    enriched # NotEnriched /\ (\E r \in RoleSet : enriched.answers[r] = "skipped")
        => enriched.status \in {"PARTIAL", "NOT_RUN"}

\* The risk that an alert gains is exactly that of its indicators that some
\* provider flags, fresh or from the cache, also when enrichment broke off.
ContributionExact ==
    enriched # NotEnriched =>
        LET S == {r \in RoleSet : enriched.answers[r] = "malicious"}
        IN  enriched.contribution = (IF "source" \in S THEN 10 ELSE 0)
                                  + (IF "destination" \in S THEN 5 ELSE 0)
                                  + (IF "domain" \in S THEN 15 ELSE 0)

\* Malice is never made up: a cached verdict of malice is one that an
\* available provider's feed supports.
VerdictsGrounded ==
    \A i \in Indicators :
        cache[i] # NotCached /\ cache[i].result = "malicious" =>
            \E p \in available \cap loaded : << p, i >> \in Feeds

\* "A genuine checked, nothing flagged outcome" is what the comment at the
\* negative cache says of its entries: an alert whose status says that its
\* indicators were checked had an answer to each of them.
CheckedMeansAnswered ==
    enriched # NotEnriched /\ enriched.status \in {"CHECKED", "CACHE_HIT"} =>
        \A r \in RoleSet : enriched.answers[r] \in {"none", "malicious", "clean"}

=============================================================================
