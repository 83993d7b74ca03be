------------------------------ MODULE Pipeline ------------------------------
(***************************************************************************)
(* From a window to stored alerts: _process_window and the three calls     *)
(* around it, process_pcap, process_flow_stream and process_live, of       *)
(* streaming/pipeline.py.  The deduplication is AlertEngine, the score is  *)
(* Risk; SlidingWindow makes the windows, Detection the detections,        *)
(* CtiEnrichment the contributions and AuditTrail the hash chain, and here *)
(* their results are inputs.                                               *)
(*                                                                         *)
(* The calls are sequential, but they share the models, the deduplication  *)
(* history, the database and the statistics, so what a call does depends   *)
(* on the calls before it, on those that failed, and on the clock.         *)
(*                                                                         *)
(* `masked`, `lost` and `shown` are history variables.                     *)
(***************************************************************************)
EXTENDS Risk, ModelArtifacts, Sequences, FiniteSets

CONSTANTS
    Flows,
    FlowId,             \* [Flows -> ids]; flow_id need not be unique
    Endpoint,           \* [Flows -> addresses and ports]
    Windows,            \* sets of flows that a window may hold
    Offenders,          \* endpoints that a rule may detect
    RuleScores,         \* rule_score of a detection, in percent
    Artifacts,          \* the files that load_models may find
    CtiOutcomes,        \* of enrich_alert: the contribution, or None, and whether
                        \* the status is PARTIAL
    DedupWindow,        \* deduplication_window, in clock ticks
    MaxDetections,      \* bound: detections processed
    MaxClock,           \* bound: processing time
    MaxCalls, MaxWindows, MaxLoads   \* bounds

FlowIds   == {FlowId[f] : f \in Flows}
Endpoints == {Endpoint[f] : f \in Flows}

ASSUME PipelineAssumption ==
    /\ Windows \subseteq SUBSET Flows
    /\ RuleScores \subseteq 0..100
    /\ Artifacts \subseteq [Models -> FileStates]
    /\ CtiOutcomes \subseteq [gain : {None} \cup Nat, partial : BOOLEAN]
    /\ None \notin FlowIds
    /\ DedupWindow \in Nat

VARIABLES
    history, ranked, counter, escalated, clock, seen,
    accepted, suppressed, epoch,        \* AlertEngine
    models,             \* isolation_forest and random_forest
    phase,              \* where the pipeline is
    call,               \* the call: its kind, persist, and what it did so far
    window,             \* the window in hand
    pending,            \* its detections that are still to be deduplicated
    batch,              \* its alerts
    returned,           \* the alerts of the call
    rows,               \* the alerts table
    stats,              \* self.stats: alerts_created, alerts_stored
    report,             \* what the last call returned
    loads, calls, windows,      \* numbers of load_models, calls and windows
    masked,             \* suppressed detections with their own severity
    lost, shown         \* ids in failed commits, and in calls without persist

engine == << history, ranked, counter, escalated, clock, seen, accepted, suppressed, epoch >>
bounds == << loads, calls, windows >>
ghosts == << masked, lost, shown >>
vars == << engine, models, phase, call, window, pending, batch, returned, rows,
           stats, report, bounds, ghosts >>

MlTypes == {"ML_ANOMALY", "ML_CLASSIFICATION"}

Keys == [type : {"RULE"} \cup MlTypes, from : Endpoints, flow : FlowIds \cup {None}]

\* max_history_entries is far above what a run reaches: the trim has its own
\* module.  The event time of an alert only matters for the trim.
AE == INSTANCE AlertEngine WITH
        Severities <- 0..3, EventTimes <- {0}, MaxHistory <- MaxDetections + 1

NoStats  == [created |-> None, stored |-> None]
NoReport == [kind |-> "none", status |-> "none", stats |-> NoStats]
NoCall   == [kind |-> "none", persist |-> FALSE, empty |-> TRUE, stored |-> 0]
NoWindow == [flows |-> {}, at |-> 0, detections |-> {}, predictions |-> {}]

-----------------------------------------------------------------------------
(* Detections and the evidence of the models.                              *)

Trained == {m \in Models : models[m] = "trained"}

\* The confidence of a class, or the anomaly score, of a flagged flow and of
\* any other one, in percent.
Strength(flagged) == IF flagged THEN 90 ELSE 40

\* A detection of a rule names the flows of its endpoint.
RuleDetection(flows, e, score) ==
    [ type |-> "RULE", from |-> e, score |-> score,
      ids |-> {FlowId[f] : f \in {g \in flows : Endpoint[g] = e}},
      probability |-> None, anomaly |-> None ]

\* What the detectors may find in a window: something or nothing of each
\* endpoint.
Findings(flows) ==
    LET present == {Endpoint[f] : f \in flows} \cap Offenders
    IN  {{RuleDetection(flows, e, c[e]) : e \in {x \in present : c[x] # None}} :
           c \in [present -> RuleScores \cup {None}]}

\* The predictions of the trained models, by the flows that each flags.
PredictionsOf(flows, flagged) ==
    {[model |-> m, flow |-> f, flagged |-> f \in flagged[m]] : m \in Trained, f \in flows}

\* The strongest prediction of a model for a flow that the detection names.
Best(d, predictions, m) ==
    LET matched == {p \in predictions : p.model = m /\ FlowId[p.flow] \in d.ids}
    IN  IF matched = {} THEN None ELSE Strength(\E p \in matched : p.flagged)

\* _correlate_ml: by flow id.
Correlated(d, predictions) ==
    [d EXCEPT !.probability = Best(d, predictions, "random_forest"),
              !.anomaly = Best(d, predictions, "isolation_forest")]

\* Mutant: the flows of the window count as known once there is a detection.
KnownIdsOfWindow(detections) == IF detections = {} THEN {} ELSE FlowIds
KnownIds(detections) == UNION {d.ids : d \in detections}

MlDetection(p) ==
    [ type |-> IF p.model = "isolation_forest" THEN "ML_ANOMALY" ELSE "ML_CLASSIFICATION",
      from |-> Endpoint[p.flow], score |-> 0, ids |-> {FlowId[p.flow]},
      probability |-> None, anomaly |-> None ]

\* A flagged flow that no detection names is a detection of its own.
MlOnly(detections, predictions) ==
    {MlDetection(p) : p \in {q \in predictions :
        q.flagged /\ FlowId[q.flow] \notin KnownIds(detections)}}

-----------------------------------------------------------------------------
(* Detections and alerts.                                                  *)

\* _get_alert_key: the flow belongs to the identity when there is just one.
Key(d) ==
    [ type |-> d.type, from |-> d.from,
      flow |-> IF Cardinality(d.ids) = 1 THEN CHOOSE i \in d.ids : TRUE ELSE None ]

\* _detection_to_alert: to_dict has the evidence of the models in its details
\* only, and the assignments that follow the constructor read the top level.
AlertOf(d) ==
    [ id |-> seen + 1, key |-> Key(d), rule |-> d.score,
      probability |-> None, anomaly |-> None, cti |-> None,
      score |-> 0, breakdown |-> [s \in EvidenceSources |-> 0], sev |-> 0,
      quality |-> "GOOD" ]

\* _apply_authoritative_risk, after the alert was enriched.
WithRisk(a) ==
    LET evidence == EvidenceOf(a)
    IN  [a EXCEPT !.score = ScoreOf(evidence),
                  !.breakdown = Breakdown(evidence, PresentEvidence(a)),
                  !.sev = SeverityOf(ScoreOf(evidence))]

\* batch_enrich: a skipped look-up makes the status PARTIAL.
Enriched(a, outcome) ==
    [a EXCEPT !.cti = outcome.gain,
              !.quality = IF outcome.partial THEN "DEGRADED" ELSE "GOOD"]

\* The alert in the deduplication history is the same object.
WithSeverities(h, alerts) ==
    [k \in Keys |-> {IF \E a \in alerts : a.id = e.id
                     THEN [e EXCEPT !.sev = (CHOOSE a \in alerts : a.id = e.id).sev]
                     ELSE e : e \in h[k]}]

RowOf(a) == [id |-> a.id, score |-> a.score, sev |-> a.sev, quality |-> a.quality]
IdsOf(alerts) == {a.id : a \in alerts}

-----------------------------------------------------------------------------
Init ==
    /\ AE!Init
    /\ models = [m \in Models |-> "none"]
    /\ phase = "idle"
    /\ call = NoCall
    /\ window = NoWindow
    /\ pending = {}
    /\ batch = {}
    /\ returned = {}
    /\ rows = {}
    /\ stats = [created |-> 0, stored |-> 0]
    /\ report = NoReport
    /\ loads = 0
    /\ calls = 0
    /\ windows = 0
    /\ masked = {}
    /\ lost = {}
    /\ shown = {}

Goto(here, there) == phase = here /\ phase' = there

\* load_models: when the first file raises, the second is not looked at.
LoadModels(artifacts) ==
    /\ phase = "idle"
    /\ loads < MaxLoads
    /\ loads' = loads + 1
    /\ models' = [m \in Models |->
         IF m = "random_forest" /\ Raises(artifacts["isolation_forest"])
         THEN models[m] ELSE AfterLoad(models[m], artifacts[m])]
    /\ UNCHANGED << engine, phase, call, window, pending, batch, returned, rows,
                    stats, report, calls, windows, masked, lost, shown >>

\* One of the three calls.  process_flow_stream can be told to persist, which
\* none of its callers does.
StartCall(kind) ==
    /\ Goto("idle", "between")
    /\ calls < MaxCalls
    /\ calls' = calls + 1
    /\ call' = [NoCall EXCEPT !.kind = kind, !.persist = kind # "stream"]
    /\ returned' = {}
    /\ report' = NoReport
    /\ UNCHANGED << engine, models, window, pending, batch, rows, stats, loads,
                    windows, masked, lost, shown >>

\* _classify_error, by the words in the exception.
Classify(error) ==
    CASE error = "capture file"  -> "PARSER_ERROR"
      [] error = "model schema"  -> "ML_ERROR"
      [] error = "detector"      -> "DETECTOR_ERROR"
      [] error = "missing field" -> "INGESTION_ERROR"

\* process_pcap answers an exception with a status, the others let it pass.
\* Then the alerts of the windows before are lost to the caller.  What was
\* stored stays, and the statistics are those of an earlier call.
Fail(error) ==
    /\ phase' = "idle"
    /\ IF call.kind = "pcap"
       THEN /\ report' = [kind |-> "pcap", status |-> Classify(error), stats |-> stats]
            /\ UNCHANGED returned
       ELSE /\ report' = [kind |-> call.kind, status |-> "RAISED", stats |-> NoStats]
            /\ returned' = {}
    /\ call' = NoCall
    /\ window' = NoWindow
    /\ UNCHANGED << engine, models, pending, batch, rows, stats, bounds, ghosts >>

\* The file cannot be read; it is read before the first window.
ReadFails == phase = "between" /\ call.kind = "pcap" /\ call.empty /\ Fail("capture file")

\* validate_canonical_flow.  process_pcap validates all flows beforehand.
InvalidFlow ==
    /\ phase = "between"
    /\ call.kind = "pcap" => call.empty
    /\ Fail("missing field")

\* The next window, and what the detectors find in it.
Detect(flows) ==
    /\ Goto("between", "predict")
    /\ windows < MaxWindows
    /\ windows' = windows + 1
    /\ call' = [call EXCEPT !.empty = FALSE]
    /\ \E found \in Findings(flows) :
         window' = [flows |-> flows, at |-> clock, detections |-> found, predictions |-> {}]
    /\ UNCHANGED << engine, models, pending, batch, returned, rows, stats, report,
                    loads, calls, masked, lost, shown >>

DetectorRaises ==
    /\ phase = "between"
    /\ Fail("detector")

\* A loaded model was trained on other features.
ModelRaises ==
    /\ phase = "predict"
    /\ \E m \in Models : models[m] = "mismatched"
    /\ Fail("model schema")

\* _run_ml, _correlate_ml, and the alerts of the models alone.
Predict ==
    /\ Goto("predict", "convert")
    /\ \A m \in Models : models[m] # "mismatched"
    /\ \E flagged \in [Trained -> SUBSET window.flows] :
         LET predictions == PredictionsOf(window.flows, flagged)
             flat == {Correlated(d, predictions) : d \in window.detections}
                       \cup MlOnly(window.detections, predictions)
         IN  /\ window' = [window EXCEPT !.detections = flat, !.predictions = predictions]
             /\ pending' = flat
    /\ UNCHANGED << engine, models, call, batch, returned, rows, stats, report,
                    bounds, ghosts >>

\* process_flat_detections takes the next detection.  The order in which they
\* are taken is fixed: detections of one window differ in their identity here.
\* DetectionResult has no severity, and an alert without one is LOW.
Convert ==
    /\ phase = "convert"
    /\ pending # {}
    /\ LET d == CHOOSE x \in pending : TRUE IN
         /\ pending' = pending \ {d}
         /\ AE!ProcessDetection(Key(d), 0, 0)
         /\ IF accepted' # accepted
            THEN batch' = batch \cup {AlertOf(d)} /\ UNCHANGED masked
            ELSE /\ masked' = masked \cup
                      {[key |-> Key(d), sev |-> SeverityOf(100 * d.score), proc |-> clock]}
                 /\ UNCHANGED batch
    /\ UNCHANGED << models, phase, call, window, returned, rows, stats, report,
                    loads, calls, windows, lost, shown >>

\* All are converted: CTI, then the risk, of every alert.
Assess ==
    /\ Goto("convert", "persist")
    /\ pending = {}
    /\ \E outcome \in [{a.key.from : a \in batch} -> CtiOutcomes] :
         batch' = {WithRisk(Enriched(a, outcome[a.key.from])) : a \in batch}
    /\ history' = WithSeverities(history, batch')
    /\ UNCHANGED << ranked, counter, escalated, clock, seen, accepted, suppressed, epoch,
                    models, call, window, pending, returned, rows, stats, report,
                    bounds, ghosts >>

\* Mutant: the last alert of a batch is left out.
NewRowsButLast(alerts) ==
    {RowOf(a) : a \in {b \in alerts : \E c \in alerts : c.id > b.id}}
NewRows(alerts) == {RowOf(a) : a \in alerts}

\* The window is done.
Return ==
    /\ Goto("persist", "between")
    /\ returned' = returned \cup batch
    /\ batch' = {}
    /\ window' = NoWindow
    /\ UNCHANGED << engine, models, pending, stats, report, loads, calls, windows, masked >>

\* add_alerts commits all rows or none, and hides a failure.
Store ==
    /\ call.persist
    /\ rows' = rows \cup NewRows(batch)
    /\ call' = [call EXCEPT !.stored = @ + Cardinality(NewRows(batch))]
    /\ UNCHANGED << lost, shown >>
    /\ Return

StoreFails ==
    /\ call.persist
    /\ batch # {}
    /\ lost' = lost \cup IdsOf(batch)
    /\ UNCHANGED << rows, call, shown >>
    /\ Return

ShowOnly ==
    /\ ~ call.persist
    /\ shown' = shown \cup IdsOf(batch)
    /\ UNCHANGED << rows, call, lost >>
    /\ Return

\* The end of process_pcap.  A file without flows has its own status, and
\* reports the statistics that the last call left.
FinishPcap ==
    /\ Goto("between", "idle")
    /\ call.kind = "pcap"
    /\ stats' = IF call.empty THEN stats
                ELSE [created |-> Cardinality(returned), stored |-> call.stored]
    /\ report' = [kind |-> "pcap", stats |-> stats',
                  status |-> IF call.empty THEN "OK_EMPTY" ELSE "OK"]
    /\ call' = NoCall
    /\ UNCHANGED << engine, models, window, pending, batch, returned, rows, bounds, ghosts >>

FinishStream ==
    /\ Goto("between", "idle")
    /\ call.kind = "stream"
    /\ report' = [kind |-> "stream", status |-> "OK", stats |-> NoStats]
    /\ call' = NoCall
    /\ UNCHANGED << engine, models, window, pending, batch, returned, rows, stats,
                    bounds, ghosts >>

\* process_live marks its alerts, which are stored by then.
FinishLive(degraded) ==
    /\ Goto("between", "idle")
    /\ call.kind = "live"
    /\ returned' = IF degraded
                   THEN {[a EXCEPT !.quality = "DEGRADED"] : a \in returned}
                   ELSE returned
    /\ report' = [kind |-> "live",
                  status |-> IF degraded THEN "DEGRADED" ELSE "OK",
                  stats |-> [NoStats EXCEPT !.created = Cardinality(returned)]]
    /\ call' = NoCall
    /\ UNCHANGED << engine, models, window, pending, batch, rows, stats, bounds, ghosts >>

\* Processing time passes between windows; one window takes no time.
Tick ==
    /\ phase = "between"
    /\ AE!Tick
    /\ UNCHANGED << models, phase, call, window, pending, batch, returned, rows,
                    stats, report, bounds, ghosts >>

Next ==
    \/ \E artifacts \in Artifacts : LoadModels(artifacts)
    \/ \E kind \in {"pcap", "stream", "live"} : StartCall(kind)
    \/ ReadFails \/ InvalidFlow \/ DetectorRaises \/ ModelRaises
    \/ \E flows \in Windows : Detect(flows)
    \/ Predict \/ Convert \/ Assess
    \/ Store \/ StoreFails \/ ShowOnly
    \/ FinishPcap \/ FinishStream
    \/ \E degraded \in BOOLEAN : FinishLive(degraded)
    \/ Tick

Spec == Init /\ [][Next]_vars

-----------------------------------------------------------------------------
\* The breakdown that an operator sees adds up to the score, which is in
\* range and has the severity of its band: the claim of calculate_risk about
\* its corrected last item, of every alert on its way to the database.
RiskExplained ==
    \A a \in batch \cup returned : phase # "convert" =>
        /\ a.score \in 0..FullScore
        /\ SumOfAll(a.breakdown) = a.score
        /\ a.sev = SeverityOf(a.score)

Unique(f) == \A g \in window.flows \ {f} : FlowId[g] # FlowId[f]

\* A flow that a model flags is behind an alert: a detection names it, its
\* own or that of a rule, and an alert of that detection's identity was
\* returned no longer than the deduplication window ago.  It holds for flows
\* whose id no other flow of the window has: ids repeat between the snapshots
\* of a live capture, and then a flagged flow may pass for another that has
\* an alert.
FlaggedIsCovered ==
    phase = "persist" =>
        \A p \in window.predictions : p.flagged /\ Unique(p.flow) =>
            \E d \in window.detections, r \in accepted :
                /\ FlowId[p.flow] \in d.ids
                /\ d.from = Endpoint[p.flow]
                /\ r.alert.key = Key(d)
                /\ r.alert.proc >= window.at - DedupWindow

\* Every alert that passed the deduplication ends in exactly one place: in
\* the database, in a failed commit, or in a call that does not persist, also
\* when a later window of its call raises.  A call that reports OK stored all
\* but the alerts of failed commits, and its statistics say how many; what is
\* stored is what is returned, but for the mark of a degraded capture.
EveryAlertAccounted ==
    phase \in {"between", "idle"} =>
        /\ {r.alert.id : r \in accepted} = IdsOf(rows) \cup lost \cup shown
        /\ IdsOf(rows) \cap lost = {} /\ (IdsOf(rows) \cup lost) \cap shown = {}
        /\ \A a \in returned : a.id \notin lost \cup shown =>
             \E q \in {a.quality, "GOOD"} : RowOf([a EXCEPT !.quality = q]) \in rows
        /\ phase = "idle" /\ report.kind = "pcap" /\ report.status = "OK" =>
             report.stats = [created |-> Cardinality(returned),
                             stored |-> Cardinality(IdsOf(returned) \ lost)]

\* A detection that is suppressed has a returned alert of its identity, within
\* the deduplication window, that is at least as severe: the comment on
\* escalation in AlertEngine.process_detection.
EscalationSurfaces ==
    phase \in {"between", "idle"} =>
        \A m \in masked : \E r \in accepted, e \in history[m.key] :
            /\ r.alert.key = m.key
            /\ m.proc - r.alert.proc \in 0..DedupWindow
            /\ e.id = r.alert.id
            /\ e.sev >= m.sev

\* The probability that a model gives counts as evidence: section 6 of src/docs/
\* Cyber_Detecter_Complete_Audit_REPAIRED.md says "ML probability is one
\* evidence contribution", and _process_window converts the detections to
\* alerts "only after all rule+ML evidence is attached".  So when an alert goes
\* to the database, the probability that _correlate_ml attached to its
\* detection has a part in its score.
ModelEvidenceCounts ==
    phase = "persist" =>
        \A a \in batch, d \in window.detections :
            a.key = Key(d) /\ d.probability # None => a.breakdown["probability"] > 0

=============================================================================
