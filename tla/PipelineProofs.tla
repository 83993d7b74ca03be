--------------------------- MODULE PipelineProofs ---------------------------
(***************************************************************************)
(* Proofs about Risk and Pipeline, for every set of flows, windows, rule   *)
(* scores, contributions and model files, and every number of calls.       *)
(*                                                                         *)
(*   1. ScoreInRange .. BreakdownReconciles: calculate_risk.               *)
(*   2. PipelineInv: what a window has in hand, and how it was scored.     *)
(*   3. Placed, Counted: where every alert is, and what its call counted.  *)
(*   4. Remembered, Covering: the alert behind each flow that a model      *)
(*      flags.                                                             *)
(***************************************************************************)
EXTENDS Pipeline, FiniteSetTheorems, TLAPS

Contributions == [EvidenceSources -> Int]

-----------------------------------------------------------------------------
(***************************************************************************)
(* calculate_risk.                                                         *)
(***************************************************************************)
LEMMA FullScoreNat == FullScore \in Nat
BY DEF FullScore

LEMMA BoundedInRange ==
    ASSUME NEW n \in Nat, NEW high \in Nat
    PROVE  Bounded(n, 0, high) \in 0..high
BY DEF Bounded

LEMMA ScoreInRange ==
    ASSUME NEW c \in Contributions
    PROVE  /\ ScoreOf(c) \in 0..FullScore
           /\ RawTotal(c) \in Nat
           /\ ScoreOf(c) = Bounded(SumOfAll(c), 0, FullScore)
<1>1. SumOfAll(c) \in Int
  BY DEF SumOfAll, Contributions, EvidenceSources
<1>2. RawTotal(c) = IF SumOfAll(c) < 0 THEN 0 ELSE SumOfAll(c)
  BY DEF RawTotal
<1>3. RawTotal(c) \in Nat
  BY <1>1, <1>2
<1>4. ScoreOf(c) = Bounded(RawTotal(c), 0, FullScore)
  BY DEF ScoreOf
<1>5. ScoreOf(c) \in 0..FullScore
  <2>1. Bounded(RawTotal(c), 0, FullScore) \in 0..FullScore
    BY <1>3, BoundedInRange, FullScoreNat
  <2> QED BY <1>4, <2>1, Zenon
<1>6. Bounded(RawTotal(c), 0, FullScore) = Bounded(SumOfAll(c), 0, FullScore)
  BY <1>1, <1>2 DEF Bounded, FullScore
<1> QED BY <1>3, <1>4, <1>5, <1>6

LEMMA DisplayedType ==
    ASSUME NEW c \in Contributions
    PROVE  Displayed(c) \in Contributions
<1>1. SUFFICES ASSUME NEW s \in EvidenceSources
               PROVE  (IF RawTotal(c) > FullScore
                       THEN (c[s] * FullScore) \div RawTotal(c) ELSE c[s]) \in Int
  BY DEF Displayed, Contributions
<1>2. c[s] \in Int /\ RawTotal(c) \in Nat
  BY ScoreInRange DEF Contributions
<1>3. CASE RawTotal(c) > FullScore
  <2>1. c[s] * FullScore \in Int /\ RawTotal(c) \in Int /\ RawTotal(c) > 0
    BY <1>2, <1>3 DEF FullScore
  <2>2. \A n, d \in Int : d > 0 => n \div d \in Int
    OBVIOUS
  <2> QED BY <1>3, <2>1, <2>2
<1>4. CASE ~ (RawTotal(c) > FullScore)
  BY <1>2, <1>4
<1> QED BY <1>3, <1>4

\* However the contributions are scaled and rounded, the breakdown adds up to
\* the score, whichever sources gave evidence: correcting the last item of
\* calculate_risk is enough.
THEOREM BreakdownReconciles ==
    ASSUME NEW c \in Contributions, NEW present
    PROVE  /\ Breakdown(c, present) \in Contributions
           /\ SumOfAll(Breakdown(c, present)) = ScoreOf(c)
<1> DEFINE b == Breakdown(c, present)
           last == LastSource(present)
           d == Displayed(c)
<1>1. last \in EvidenceSources
  BY DEF LastSource, EvidenceSources
<1>2. d \in Contributions /\ ScoreOf(c) \in Int
  BY DisplayedType, ScoreInRange
<1>3. SumOfAll(d) \in Int /\ \A s \in EvidenceSources : d[s] \in Int
  BY <1>2 DEF SumOfAll, Contributions, EvidenceSources
<1>4. \A s \in EvidenceSources :
        b[s] = IF s = last THEN d[s] + ScoreOf(c) - SumOfAll(d) ELSE d[s]
  BY DEF Breakdown
<1>5. b \in Contributions
  <2>1. b = [s \in EvidenceSources |->
               IF s = last THEN d[s] + ScoreOf(c) - SumOfAll(d) ELSE d[s]]
    BY DEF Breakdown
  <2> HIDE DEF b, last, d
  <2> QED BY <1>2, <1>3, <2>1 DEF Contributions
<1>6. SumOfAll(b) = ScoreOf(c)
  <2> HIDE DEF b, last, d
  <2>1. \/ last = "rule" \/ last = "probability" \/ last = "anomaly" \/ last = "cti"
    BY <1>1 DEF EvidenceSources
  <2>2. /\ "rule" \in EvidenceSources /\ "probability" \in EvidenceSources
        /\ "anomaly" \in EvidenceSources /\ "cti" \in EvidenceSources
    BY DEF EvidenceSources
  <2> QED BY <1>2, <1>3, <1>4, <2>1, <2>2 DEF SumOfAll
<1> QED BY <1>5, <1>6

-----------------------------------------------------------------------------
(***************************************************************************)
(* What a detection and an alert can be.  No alert ever has evidence of a  *)
(* model, and one that stems from a model alone has no rule score.         *)
(***************************************************************************)
DetectionRecords ==
    [ type : {"RULE"} \cup MlTypes, from : Endpoints, score : 0..100,
      ids : SUBSET FlowIds, probability : Int, anomaly : Int ]

SoundDetection(d) ==
    /\ d \in DetectionRecords
    /\ d.type \in MlTypes => d.score = 0

AlertRecords ==
    [ id : Nat, key : Keys, rule : 0..100, probability : {None}, anomaly : {None},
      cti : {None} \cup Nat, score : 0..FullScore, breakdown : Contributions,
      sev : 0..3, quality : {"GOOD", "DEGRADED"} ]

SoundAlert(a) ==
    /\ a \in AlertRecords
    /\ a.key.type \in MlTypes => a.rule = 0

\* What the two properties say of one alert.
Explained(a) ==
    /\ SumOfAll(a.breakdown) = a.score
    /\ a.sev = SeverityOf(a.score)

ScoredByRule(a) ==
    /\ a.score = Bounded(100 * (a.rule + ValueOr0(a.cti)), 0, FullScore)
    /\ a.key.type \in MlTypes /\ a.cti = None => a.sev = 0

Assessed(a) == SoundAlert(a) /\ Explained(a) /\ ScoredByRule(a)

-----------------------------------------------------------------------------
LEMMA KeyType ==
    ASSUME NEW d \in DetectionRecords
    PROVE  Key(d) \in Keys /\ Key(d).type = d.type
<1>1. d.ids \in SUBSET FlowIds /\ d.type \in {"RULE"} \cup MlTypes /\ d.from \in Endpoints
  BY DEF DetectionRecords
<1>2. Cardinality(d.ids) = 1 => (CHOOSE i \in d.ids : TRUE) \in FlowIds
  <2>1. Cardinality(d.ids) = 1 => d.ids # {}
    BY FS_EmptySet
  <2> QED BY <1>1, <2>1
<1> QED BY <1>1, <1>2 DEF Key, Keys

LEMMA NewAlertSound ==
    ASSUME seen \in Nat, NEW d, SoundDetection(d)
    PROVE  SoundAlert(AlertOf(d))
<1>1. d.score \in 0..100 /\ Key(d) \in Keys /\ Key(d).type = d.type
  BY KeyType DEF SoundDetection, DetectionRecords
<1>2. [s \in EvidenceSources |-> 0] \in Contributions
  BY DEF Contributions
<1>3. 0 \in 0..FullScore /\ 0 \in 0..3
  BY FullScoreNat
<1>4. AlertOf(d) \in AlertRecords
  BY <1>1, <1>2, <1>3 DEF AlertOf, AlertRecords
<1>5. AlertOf(d).key = Key(d) /\ AlertOf(d).rule = d.score
  BY DEF AlertOf
<1> QED BY <1>1, <1>4, <1>5 DEF SoundAlert, SoundDetection

\* The evidence of an alert is its rule and its threat intelligence.
LEMMA EvidenceSound ==
    ASSUME NEW a \in AlertRecords
    PROVE  /\ EvidenceOf(a) \in Contributions
           /\ SumOfAll(EvidenceOf(a)) = 100 * (a.rule + ValueOr0(a.cti))
<1>1. a.rule \in 0..100 /\ a.probability = None /\ a.anomaly = None /\ a.cti \in {None} \cup Nat
  BY DEF AlertRecords
<1>2. ValueOr0(a.cti) \in Nat
  BY <1>1 DEF ValueOr0, None
<1>3. ValueOr0(a.probability) = 0 /\ ValueOr0(a.anomaly) = 0
  BY <1>1 DEF ValueOr0
<1>4. Bounded(100 * a.rule, 0, FullScore) = 100 * a.rule
  BY <1>1 DEF Bounded, FullScore
<1>5. Bounded(0, 0, 100) = 0
  BY DEF Bounded
<1>6. EvidenceOf(a) = [ rule |-> 100 * a.rule, probability |-> 0, anomaly |-> 0,
                        cti |-> 100 * ValueOr0(a.cti) ]
  BY <1>3, <1>4, <1>5 DEF EvidenceOf
<1>7. EvidenceOf(a) \in Contributions
  BY <1>1, <1>2, <1>6 DEF Contributions, EvidenceSources
<1> QED BY <1>1, <1>2, <1>6, <1>7 DEF SumOfAll

LEMMA SeverityInRange ==
    ASSUME NEW n \in Int
    PROVE  SeverityOf(n) \in 0..3 /\ (n = 0 => SeverityOf(n) = 0)
BY DEF SeverityOf

\* An alert that was enriched and scored.
LEMMA AssessedSound ==
    ASSUME NEW a, SoundAlert(a), NEW outcome \in CtiOutcomes
    PROVE  Assessed(WithRisk(Enriched(a, outcome)))
<1> DEFINE e == Enriched(a, outcome)
           r == WithRisk(e)
<1>1. outcome.gain \in {None} \cup Nat /\ outcome.partial \in BOOLEAN
  BY PipelineAssumption DEF PipelineAssumption
<1>2. e \in AlertRecords /\ e.key = a.key /\ e.rule = a.rule
  BY <1>1 DEF Enriched, SoundAlert, AlertRecords
<1> HIDE DEF e
<1>3. EvidenceOf(e) \in Contributions
  BY <1>2, EvidenceSound
<1>4. ScoreOf(EvidenceOf(e)) \in 0..FullScore
  BY <1>3, ScoreInRange
<1>5. SeverityOf(ScoreOf(EvidenceOf(e))) \in 0..3
  BY <1>4, FullScoreNat, SeverityInRange
<1>6. Breakdown(EvidenceOf(e), PresentEvidence(e)) \in Contributions
  BY <1>3, BreakdownReconciles
<1>7. r = [e EXCEPT !.score = ScoreOf(EvidenceOf(e)),
                    !.breakdown = Breakdown(EvidenceOf(e), PresentEvidence(e)),
                    !.sev = SeverityOf(ScoreOf(EvidenceOf(e)))]
  BY DEF WithRisk
<1>8. /\ r \in AlertRecords
      /\ r.key = e.key /\ r.rule = e.rule /\ r.cti = e.cti
      /\ r.score = ScoreOf(EvidenceOf(e))
      /\ r.breakdown = Breakdown(EvidenceOf(e), PresentEvidence(e))
      /\ r.sev = SeverityOf(r.score)
  <2> DEFINE s == ScoreOf(EvidenceOf(e))
             b == Breakdown(EvidenceOf(e), PresentEvidence(e))
             v == SeverityOf(ScoreOf(EvidenceOf(e)))
  <2>1. s \in 0..FullScore /\ b \in Contributions /\ v \in 0..3
    BY <1>4, <1>5, <1>6
  <2>2. v = SeverityOf(s) /\ r = [e EXCEPT !.score = s, !.breakdown = b, !.sev = v]
    BY <1>7
  <2> HIDE DEF r, s, b, v
  <2>3. /\ r \in AlertRecords
        /\ r.key = e.key /\ r.rule = e.rule /\ r.cti = e.cti
        /\ r.score = s /\ r.breakdown = b /\ r.sev = v
    BY <1>2, <2>1, <2>2 DEF AlertRecords
  <2>4. r.sev = SeverityOf(r.score)
    BY <2>2, <2>3
  <2> QED BY <2>3, <2>4 DEF s, b
<1> HIDE DEF r
<1>9. SoundAlert(r) /\ Explained(r)
  <2>1. SumOfAll(r.breakdown) = r.score
    BY <1>3, <1>8, BreakdownReconciles
  <2> QED BY <1>2, <1>8, <2>1 DEF SoundAlert, Explained
<1>10. r.score = Bounded(100 * (r.rule + ValueOr0(r.cti)), 0, FullScore)
  BY <1>2, <1>3, <1>8, EvidenceSound, ScoreInRange
<1>11. ASSUME r.key.type \in MlTypes, r.cti = None
       PROVE  r.sev = 0
  <2>1. r.rule = 0 /\ ValueOr0(r.cti) = 0
    BY <1>9, <1>11 DEF SoundAlert, ValueOr0
  <2>2. r.score = 0
    BY <1>10, <2>1 DEF Bounded, FullScore
  <2> QED BY <1>8, <2>2, SeverityInRange
<1>12. Assessed(r)
  BY <1>9, <1>10, <1>11 DEF Assessed, ScoredByRule
<1> QED BY <1>12 DEF r, e

LEMMA MarkSound ==
    ASSUME NEW a, Assessed(a)
    PROVE  Assessed([a EXCEPT !.quality = "DEGRADED"])
<1> DEFINE m == [a EXCEPT !.quality = "DEGRADED"]
<1>1. /\ m \in AlertRecords
      /\ m.key = a.key /\ m.rule = a.rule /\ m.cti = a.cti
      /\ m.score = a.score /\ m.breakdown = a.breakdown /\ m.sev = a.sev
  BY DEF Assessed, SoundAlert, AlertRecords
<1> HIDE DEF m
<1>2. Assessed(m)
  BY <1>1 DEF Assessed, SoundAlert, Explained, ScoredByRule
<1> QED BY <1>2 DEF m

LEMMA FindingsSound ==
    ASSUME NEW flows \in SUBSET Flows, NEW found \in Findings(flows), NEW d \in found
    PROVE  SoundDetection(d)
<1> DEFINE present == {Endpoint[f] : f \in flows} \cap Offenders
<1>1. PICK c \in [present -> RuleScores \cup {None}] :
        found = {RuleDetection(flows, e, c[e]) : e \in {x \in present : c[x] # None}}
  BY DEF Findings
<1>2. PICK e \in present : c[e] # None /\ d = RuleDetection(flows, e, c[e])
  BY <1>1
<1>3. c[e] \in 0..100
  BY <1>1, <1>2, PipelineAssumption DEF PipelineAssumption
<1>4. e \in Endpoints
  BY DEF Endpoints
<1>5. {FlowId[f] : f \in {g \in flows : Endpoint[g] = e}} \in SUBSET FlowIds
  BY DEF FlowIds
<1>6. d \in DetectionRecords /\ d.type = "RULE"
  BY <1>2, <1>3, <1>4, <1>5 DEF RuleDetection, DetectionRecords, None
<1> QED BY <1>6 DEF SoundDetection, MlTypes

LEMMA CorrelatedSound ==
    ASSUME NEW d, SoundDetection(d), NEW predictions
    PROVE  SoundDetection(Correlated(d, predictions))
<1> DEFINE p == Best(d, predictions, "random_forest")
           n == Best(d, predictions, "isolation_forest")
           e == Correlated(d, predictions)
<1>1. p \in Int /\ n \in Int
  BY DEF Best, Strength, None
<1>2. e = [d EXCEPT !.probability = p, !.anomaly = n]
  BY DEF Correlated
<1> HIDE DEF p, n, e
<1>3. e \in DetectionRecords /\ e.type = d.type /\ e.score = d.score
  BY <1>1, <1>2 DEF SoundDetection, DetectionRecords
<1>4. SoundDetection(e)
  BY <1>3 DEF SoundDetection
<1> QED BY <1>4 DEF e

LEMMA MlOnlySound ==
    ASSUME NEW flows \in SUBSET Flows, NEW flagged, NEW detections,
           NEW d \in MlOnly(detections, PredictionsOf(flows, flagged))
    PROVE  SoundDetection(d)
<1>1. PICK p \in PredictionsOf(flows, flagged) : d = MlDetection(p)
  BY DEF MlOnly
<1>2. PICK m \in Trained, f \in flows : p = [model |-> m, flow |-> f, flagged |-> f \in flagged[m]]
  BY <1>1 DEF PredictionsOf
<1>3. p.flow \in Flows
  BY <1>2
<1>4. Endpoint[p.flow] \in Endpoints /\ {FlowId[p.flow]} \in SUBSET FlowIds
  BY <1>3 DEF Endpoints, FlowIds
<1>5. d \in DetectionRecords /\ d.score = 0
  BY <1>1, <1>4 DEF MlDetection, DetectionRecords, MlTypes, None
<1> QED BY <1>5 DEF SoundDetection

-----------------------------------------------------------------------------
(***************************************************************************)
(* The invariant: where alerts are in which phase, and that every one that *)
(* left `batch` was assessed.                                              *)
(***************************************************************************)
InHand ==
    /\ seen \in Nat
    /\ window.flows \in SUBSET Flows
    /\ \A d \in window.detections \cup pending : SoundDetection(d)
    /\ phase \notin {"convert", "persist"} => batch = {}
    /\ phase = "convert" => \A a \in batch : SoundAlert(a)

AllAssessed ==
    /\ \A a \in returned : Assessed(a)
    /\ phase = "persist" => \A a \in batch : Assessed(a)

PipelineInv == InHand /\ AllAssessed

LEMMA InvInit == Init => PipelineInv
BY DEF Init, AE!Init, PipelineInv, InHand, AllAssessed, NoWindow

LEMMA FailKeeps ==
    ASSUME PipelineInv, NEW error, Fail(error), phase \in {"between", "predict"}
    PROVE  PipelineInv'
<1>1. phase' = "idle" /\ batch' = batch /\ pending' = pending /\ seen' = seen
  BY DEF Fail, engine
<1>2. returned' \in {returned, {}} /\ window' = NoWindow
  BY DEF Fail
<1>3. InHand'
  BY <1>1, <1>2 DEF PipelineInv, InHand, NoWindow
<1>4. AllAssessed'
  BY <1>1, <1>2 DEF PipelineInv, AllAssessed
<1> QED BY <1>3, <1>4 DEF PipelineInv

LEMMA InvNext == PipelineInv /\ [Next]_vars => PipelineInv'
<1> SUFFICES ASSUME PipelineInv, [Next]_vars
             PROVE  PipelineInv'
  OBVIOUS
<1> USE DEF PipelineInv
<1>1. ASSUME NEW artifacts \in Artifacts, LoadModels(artifacts)
      PROVE  PipelineInv'
  BY <1>1 DEF LoadModels, engine, InHand, AllAssessed
<1>2. ASSUME NEW kind \in {"pcap", "stream", "live"}, StartCall(kind)
      PROVE  PipelineInv'
  BY <1>2 DEF StartCall, Goto, engine, InHand, AllAssessed
<1>3. CASE ReadFails
  BY <1>3, FailKeeps DEF ReadFails
<1>4. CASE InvalidFlow
  BY <1>4, FailKeeps DEF InvalidFlow
<1>5. CASE DetectorRaises
  BY <1>5, FailKeeps DEF DetectorRaises
<1>6. CASE ModelRaises
  BY <1>6, FailKeeps DEF ModelRaises
<1>7. ASSUME NEW flows \in Windows, Detect(flows)
      PROVE  PipelineInv'
  <2>1. flows \in SUBSET Flows
    BY PipelineAssumption DEF PipelineAssumption
  <2>2. PICK found \in Findings(flows) :
          window' = [flows |-> flows, at |-> clock, detections |-> found, predictions |-> {}]
    BY <1>7 DEF Detect
  <2>3. window'.flows = flows /\ window'.detections = found
    BY <2>2
  <2>4. /\ phase = "between" /\ phase' = "predict" /\ batch' = batch /\ pending' = pending
        /\ returned' = returned /\ seen' = seen
    BY <1>7 DEF Detect, Goto, engine
  <2> QED BY <2>1, <2>3, <2>4, FindingsSound DEF InHand, AllAssessed
<1>8. CASE Predict
  <2>1. PICK flagged \in [Trained -> SUBSET window.flows] :
          LET predictions == PredictionsOf(window.flows, flagged)
              flat == {Correlated(d, predictions) : d \in window.detections}
                        \cup MlOnly(window.detections, predictions)
          IN  /\ window' = [window EXCEPT !.detections = flat, !.predictions = predictions]
              /\ pending' = flat
    BY <1>8 DEF Predict
  <2> DEFINE predictions == PredictionsOf(window.flows, flagged)
             flat == {Correlated(d, predictions) : d \in window.detections}
                       \cup MlOnly(window.detections, predictions)
  <2>2. \A d \in flat : SoundDetection(d)
    BY CorrelatedSound, MlOnlySound DEF InHand
  <2>3. /\ phase = "predict" /\ phase' = "convert" /\ batch' = batch
        /\ returned' = returned /\ seen' = seen /\ pending' = flat
    BY <1>8, <2>1 DEF Predict, Goto, engine
  <2>4. window'.flows = window.flows /\ window'.detections \in {window.detections, flat}
    BY <2>1
  <2> HIDE DEF flat, predictions
  <2> QED BY <2>2, <2>3, <2>4 DEF InHand, AllAssessed
<1>9. CASE Convert
  <2> DEFINE d == CHOOSE x \in pending : TRUE
  <2>1. d \in pending
    BY <1>9 DEF Convert
  <2>2. /\ phase = "convert" /\ phase' = phase /\ window' = window /\ returned' = returned
        /\ pending' = pending \ {d} /\ batch' \in {batch, batch \cup {AlertOf(d)}}
        /\ AE!ProcessDetection(Key(d), 0, 0)
    BY <1>9 DEF Convert
  <2>3. seen' \in Nat
    BY <2>2 DEF AE!ProcessDetection, InHand
  <2> HIDE DEF d
  <2>4. SoundAlert(AlertOf(d))
    BY <2>1, NewAlertSound DEF InHand
  <2> QED BY <2>2, <2>3, <2>4 DEF InHand, AllAssessed
<1>10. CASE Assess
  <2>1. PICK outcome \in [{a.key.from : a \in batch} -> CtiOutcomes] :
          batch' = {WithRisk(Enriched(a, outcome[a.key.from])) : a \in batch}
    BY <1>10 DEF Assess
  <2>2. /\ phase = "convert" /\ phase' = "persist" /\ window' = window
        /\ returned' = returned /\ pending' = pending /\ seen' = seen
    BY <1>10 DEF Assess, Goto
  <2>3. \A b \in batch' : Assessed(b)
    <3>1. SUFFICES ASSUME NEW a \in batch
                   PROVE  Assessed(WithRisk(Enriched(a, outcome[a.key.from])))
      BY <2>1
    <3>2. outcome[a.key.from] \in CtiOutcomes /\ SoundAlert(a)
      BY <2>2 DEF InHand
    <3> QED BY <3>2, AssessedSound
  <2> QED BY <2>2, <2>3 DEF InHand, AllAssessed
<1>11. ASSUME Return PROVE seen' = seen => PipelineInv'
  <2>1. /\ phase = "persist" /\ phase' = "between" /\ window' = NoWindow
        /\ returned' = returned \cup batch /\ batch' = {} /\ pending' = pending
    BY <1>11 DEF Return, Goto
  <2> QED BY <2>1 DEF InHand, AllAssessed, NoWindow
<1>12. Store \/ StoreFails \/ ShowOnly => PipelineInv'
  BY <1>11 DEF Store, StoreFails, ShowOnly, Return, engine
<1>13. CASE FinishPcap
  BY <1>13 DEF FinishPcap, Goto, engine, InHand, AllAssessed
<1>14. CASE FinishStream
  BY <1>14 DEF FinishStream, Goto, engine, InHand, AllAssessed
<1>15. ASSUME NEW degraded \in BOOLEAN, FinishLive(degraded)
       PROVE  PipelineInv'
  <2>1. /\ phase = "between" /\ phase' = "idle" /\ window' = window
        /\ batch' = batch /\ pending' = pending /\ seen' = seen
        /\ returned' \in {returned, {[a EXCEPT !.quality = "DEGRADED"] : a \in returned}}
    BY <1>15 DEF FinishLive, Goto, engine
  <2>2. \A a \in returned' : Assessed(a)
    BY <2>1, MarkSound DEF AllAssessed
  <2> QED BY <2>1, <2>2 DEF InHand, AllAssessed
<1>16. CASE Tick
  BY <1>16 DEF Tick, AE!Tick, InHand, AllAssessed
<1>17. CASE UNCHANGED vars
  BY <1>17 DEF vars, engine, InHand, AllAssessed
<1> QED BY <1>1, <1>2, <1>3, <1>4, <1>5, <1>6, <1>7, <1>8, <1>9, <1>10, <1>12,
           <1>13, <1>14, <1>15, <1>16, <1>17 DEF Next

(* _process_window appends an alert to the result only after               *)
(* _apply_authoritative_risk has scored it, and nothing scores it again:   *)
(* in every reachable state the alerts outside the hands of the detectors  *)
(* are assessed, and those in hand have the evidence of one origin.        *)
THEOREM InvHolds == Spec => []PipelineInv
BY InvInit, InvNext, PTL DEF Spec

\* Every alert on its way out of the pipeline has a breakdown that adds up to
\* its score, a score in range and the severity of its band, whatever the
\* rules, the models and the threat intelligence said and however many
\* windows and calls there were.
THEOREM ScoresAreExplained == Spec => []RiskExplained
<1>1. PipelineInv => RiskExplained
  BY DEF PipelineInv, InHand, AllAssessed, Assessed, Explained, SoundAlert, AlertRecords,
         RiskExplained
<1> QED BY <1>1, InvHolds, PTL

\* The score of an alert is that of its rule and of its threat intelligence,
\* and an alert of a model alone is LOW unless threat intelligence raises it.
RiskWithoutModels ==
    \A a \in batch \cup returned : phase # "convert" =>
        /\ a.score = Bounded(100 * (a.rule + ValueOr0(a.cti)), 0, FullScore)
        /\ a.key.type \in MlTypes /\ a.cti = None => a.sev = 0

\* How far ModelEvidenceCounts is from what the code does: TLC finds one alert
\* without the evidence of its model, and this theorem says that there is no
\* alert with it, for any prediction, window or model file.
THEOREM ModelsNeverScore == Spec => []RiskWithoutModels
<1>1. PipelineInv => RiskWithoutModels
  BY DEF PipelineInv, InHand, AllAssessed, Assessed, ScoredByRule, RiskWithoutModels
<1> QED BY <1>1, InvHolds, PTL

-----------------------------------------------------------------------------
(***************************************************************************)
(* Where the alerts are that passed the deduplication.                     *)
(***************************************************************************)
CallRecords ==
    [ kind : {"none", "pcap", "stream", "live"}, persist : BOOLEAN, empty : BOOLEAN,
      stored : Nat ]

AcceptedIds == {r.alert.id : r \in accepted}

\* Every alert is in hand, stored, lost or shown, and at one place only.
Placed ==
    /\ AcceptedIds = IdsOf(rows) \cup lost \cup shown \cup IdsOf(batch)
    /\ AcceptedIds \subseteq 1..seen
    /\ IdsOf(rows) \cap lost = {} /\ (IdsOf(rows) \cup lost) \cap shown = {}
    /\ IdsOf(batch) \cap (IdsOf(rows) \cup lost \cup shown) = {}
    /\ IsFiniteSet(batch) /\ \A a, b \in batch : a.id = b.id => a = b

StoredAs(a) == \E q \in {a.quality, "GOOD"} : RowOf([a EXCEPT !.quality = q]) \in rows

\* What the call in hand has returned and counted so far, and what the last
\* one reported.
Counted ==
    /\ call \in CallRecords
    /\ call.kind = "pcap" => call.persist
    /\ IsFiniteSet(returned)
    /\ IdsOf(returned) \subseteq IdsOf(rows) \cup lost \cup shown
    /\ \A a \in returned : a.id \notin lost \cup shown => StoredAs(a)
    /\ call.persist => call.stored = Cardinality(IdsOf(returned) \ lost)
    /\ phase = "idle" /\ report.kind = "pcap" /\ report.status = "OK" =>
         report.stats = [created |-> Cardinality(returned),
                         stored |-> Cardinality(IdsOf(returned) \ lost)]

-----------------------------------------------------------------------------
(***************************************************************************)
(* What covers the flows that the models flag.                             *)
(***************************************************************************)
HistoryRecords == [id : Nat, key : Keys, sev : 0..3, event : {0}, proc : Nat]

PredictionRecords == [model : Models, flow : Flows, flagged : BOOLEAN]

WindowRecords ==
    [ flows : SUBSET Flows, at : Nat, detections : SUBSET DetectionRecords,
      predictions : SUBSET PredictionRecords ]

\* An entry of the history stems from an alert that was returned then.
Remembered ==
    /\ clock \in Nat /\ window \in WindowRecords
    /\ history \in [Keys -> SUBSET HistoryRecords]
    /\ \A k \in Keys : \A e \in history[k] :
         \E r \in accepted : r.alert.key = k /\ r.alert.proc = e.proc

Names(d, f) == FlowId[f] \in d.ids /\ d.from = Endpoint[f]

Answered(d) ==
    \E r \in accepted : r.alert.key = Key(d) /\ r.alert.proc >= window.at - DedupWindow

\* The window in hand: no time passes, a detection of a rule names flows of
\* its endpoint, then a flagged flow has a detection, and at last an alert.
Covering ==
    /\ phase \in {"predict", "convert", "persist"} => window.at = clock
    /\ phase = "predict" =>
         \A d \in window.detections :
             d.ids = {FlowId[f] : f \in {g \in window.flows : Endpoint[g] = d.from}}
    /\ phase \in {"convert", "persist"} =>
         /\ \A p \in window.predictions : p.flagged /\ Unique(p.flow) =>
              \E d \in window.detections : Names(d, p.flow)
         /\ \A d \in window.detections \ pending : Answered(d)
    /\ phase = "persist" => pending = {}

-----------------------------------------------------------------------------
\* The deduplication returns a new alert, or it found one within its window.
LEMMA ProcessEffects ==
    ASSUME Remembered, seen \in Nat, AcceptedIds \subseteq 1..seen, NEW key \in Keys,
           AE!ProcessDetection(key, 0, 0)
    PROVE  /\ seen' = seen + 1 /\ clock' = clock
           /\ history' \in [Keys -> SUBSET HistoryRecords]
           /\ \/ /\ accepted' = accepted
                 /\ \E e \in history[key] : e.proc >= clock - DedupWindow
                 /\ \A k \in Keys : history'[k] \subseteq history[k]
              \/ \E r :
                 /\ r.alert.id = seen + 1 /\ r.alert.key = key /\ r.alert.proc = clock
                 /\ accepted' = accepted \cup {r} /\ accepted' # accepted
                 /\ \A k \in Keys : \A e \in history'[k] :
                      e \in history[k] \/ (k = key /\ e = r.alert)
<1> DEFINE a == AE!NewAlert(key, 0, 0)
           r == [alert |-> a, epoch |-> epoch]
           h == [history EXCEPT ![key] = AE!Recent(key) \cup {a}]
<1>1. /\ clock \in Nat /\ history \in [Keys -> SUBSET HistoryRecords] /\ DedupWindow \in Nat
      /\ AE!Recent(key) \subseteq history[key]
  BY PipelineAssumption DEF PipelineAssumption, Remembered, AE!Recent
<1>2. /\ a \in HistoryRecords /\ a.id = seen + 1 /\ a.key = key /\ a.proc = clock
      /\ r.alert = a
  BY <1>1 DEF AE!NewAlert, HistoryRecords
<1>3. seen' = seen + 1 /\ clock' = clock
  BY DEF AE!ProcessDetection
<1>4. \/ \E dup : AE!Accept(a, dup)
      \/ AE!Recent(key) # {} /\ AE!Suppress(a, "detection")
  BY DEF AE!ProcessDetection, AE!Duplicates
<1>5. ASSUME NEW dup, AE!Accept(a, dup)
      PROVE  accepted' = accepted \cup {r} /\ AE!AddToHistory(h)
  BY <1>2, <1>5 DEF AE!Accept
<1>6. ASSUME AE!Suppress(a, "detection")
      PROVE  accepted' = accepted /\ history' = [history EXCEPT ![key] = AE!Recent(key)]
  BY <1>2, <1>6 DEF AE!Suppress
<1>7. r \notin accepted
  <2>1. seen + 1 \notin AcceptedIds
    BY DEF AcceptedIds
  <2> QED BY <1>2, <2>1 DEF AcceptedIds
<1>8. /\ h \in [Keys -> SUBSET HistoryRecords]
      /\ \A k \in Keys : \A e \in h[k] : e \in history[k] \/ (k = key /\ e = a)
  <2> HIDE DEF a
  <2> QED BY <1>1, <1>2
<1> HIDE DEF a, r, h
<1>9. CASE \E dup : AE!Accept(a, dup)
  <2>1. accepted' = accepted \cup {r} /\ AE!AddToHistory(h)
    BY <1>5, <1>9
  <2>2. history' = h \/ \E v : history' = [k \in Keys |-> h[k] \ {v}]
    BY <2>1 DEF AE!AddToHistory
  <2>3. /\ history' \in [Keys -> SUBSET HistoryRecords]
        /\ \A k \in Keys : history'[k] \subseteq h[k]
    BY <1>8, <2>2
  <2>4. accepted' # accepted
    BY <1>7, <2>1
  <2>5. \A k \in Keys : \A e \in history'[k] : e \in history[k] \/ (k = key /\ e = r.alert)
    BY <1>2, <1>8, <2>3
  <2> QED BY <1>2, <1>3, <2>1, <2>3, <2>4, <2>5
<1>10. CASE AE!Recent(key) # {} /\ AE!Suppress(a, "detection")
  <2>1. accepted' = accepted /\ history' = [history EXCEPT ![key] = AE!Recent(key)]
    BY <1>6, <1>10
  <2>2. /\ history' \in [Keys -> SUBSET HistoryRecords]
        /\ \A k \in Keys : history'[k] \subseteq history[k]
    BY <1>1, <2>1
  <2>3. PICK e \in AE!Recent(key) : TRUE
    BY <1>10
  <2>4. clock - e.proc \in 0..DedupWindow /\ e \in history[key] /\ e.proc \in Nat
    BY <1>1, <2>3 DEF AE!Recent, AE!IsWithinWindow, HistoryRecords
  <2>5. e.proc >= clock - DedupWindow
    BY <1>1, <2>4
  <2> QED BY <1>3, <2>1, <2>2, <2>4, <2>5
<1> QED BY <1>4, <1>9, <1>10

LEMMA IdsFacts ==
    /\ IdsOf({}) = {}
    /\ \A S, T : IdsOf(S \cup T) = IdsOf(S) \cup IdsOf(T)
    /\ \A S : IsFiniteSet(S) => IsFiniteSet(IdsOf(S))
<1>1. ASSUME NEW S, IsFiniteSet(S) PROVE IsFiniteSet(IdsOf(S))
  <2> DEFINE f == [a \in S |-> a.id]
  <2>1. f \in Surjection(S, IdsOf(S))
    BY DEF Surjection, IdsOf
  <2> HIDE DEF f
  <2> QED BY <1>1, <2>1, FS_Surjection
<1> QED BY <1>1 DEF IdsOf

\* A row for every alert of a batch.
LEMMA RowsCount ==
    ASSUME NEW alerts, IsFiniteSet(alerts), \A a, b \in alerts : a.id = b.id => a = b
    PROVE  /\ IsFiniteSet(IdsOf(alerts)) /\ Cardinality(IdsOf(alerts)) \in Nat
           /\ Cardinality(NewRows(alerts)) = Cardinality(IdsOf(alerts))
           /\ IdsOf(NewRows(alerts)) = IdsOf(alerts)
<1> DEFINE f == [a \in alerts |-> a.id]
           g == [a \in alerts |-> RowOf(a)]
<1>1. \A a \in alerts : RowOf(a).id = a.id
  BY DEF RowOf
<1>2. IdsOf(alerts) = {a.id : a \in alerts} /\ NewRows(alerts) = {RowOf(a) : a \in alerts}
  BY DEF IdsOf, NewRows
<1>3. f \in Bijection(alerts, IdsOf(alerts))
  BY <1>2 DEF Bijection, Injection, Surjection, IsInjective
<1>4. g \in Bijection(alerts, NewRows(alerts))
  BY <1>1, <1>2 DEF Bijection, Injection, Surjection, IsInjective
<1>5. IdsOf(NewRows(alerts)) = IdsOf(alerts)
  BY <1>1, <1>2 DEF IdsOf
<1> HIDE DEF f, g
<1>6. ExistsBijection(alerts, IdsOf(alerts)) /\ ExistsBijection(alerts, NewRows(alerts))
  BY <1>3, <1>4 DEF ExistsBijection
<1>7. /\ IsFiniteSet(IdsOf(alerts)) /\ Cardinality(IdsOf(alerts)) = Cardinality(alerts)
      /\ Cardinality(NewRows(alerts)) = Cardinality(alerts)
  BY <1>6, FS_Bijection
<1> QED BY <1>5, <1>7, FS_CardinalityType

\* Assessing an alert leaves its id.
LEMMA AssessedId ==
    ASSUME NEW a, SoundAlert(a), NEW outcome
    PROVE  WithRisk(Enriched(a, outcome)).id = a.id
<1> DEFINE e == Enriched(a, outcome)
<1>1. DOMAIN a = DOMAIN e /\ "id" \in DOMAIN e /\ e.id = a.id
  BY DEF Enriched, SoundAlert, AlertRecords
<1> HIDE DEF e
<1>2. WithRisk(e).id = e.id
  BY <1>1 DEF WithRisk
<1> QED BY <1>1, <1>2 DEF e

\* Assess works on the alerts in hand, and keeps them apart.
LEMMA AssessEffects ==
    ASSUME Placed, PipelineInv, Assess
    PROVE  /\ IdsOf(batch)' = IdsOf(batch) /\ IsFiniteSet(batch')
           /\ \A a, b \in batch' : a.id = b.id => a = b
           /\ \A b \in batch' : Assessed(b)
<1>1. phase = "convert" /\ \A a \in batch : SoundAlert(a)
  BY DEF Assess, Goto, PipelineInv, InHand
<1>2. PICK outcome \in [{a.key.from : a \in batch} -> CtiOutcomes] :
        batch' = {WithRisk(Enriched(a, outcome[a.key.from])) : a \in batch}
  BY DEF Assess
<1> DEFINE f == [a \in batch |-> WithRisk(Enriched(a, outcome[a.key.from]))]
<1>3. \A a \in batch : f[a].id = a.id /\ Assessed(f[a])
  <2> SUFFICES ASSUME NEW a \in batch PROVE f[a].id = a.id /\ Assessed(f[a])
    OBVIOUS
  <2>1. SoundAlert(a) /\ outcome[a.key.from] \in CtiOutcomes
    BY <1>1
  <2> QED BY <2>1, AssessedId, AssessedSound
<1>4. f \in [batch -> batch'] /\ \A b \in batch' : \E a \in batch : b = f[a]
  BY <1>2
<1> HIDE DEF f
<1>5. f \in Surjection(batch, batch')
  BY <1>4 DEF Surjection
<1>6. IsFiniteSet(batch')
  BY <1>5, FS_Surjection DEF Placed
<1>7. \A a, b \in batch' : a.id = b.id => a = b
  BY <1>3, <1>4 DEF Placed
<1>8. IdsOf(batch)' = IdsOf(batch)
  BY <1>3, <1>4 DEF IdsOf
<1> QED BY <1>3, <1>4, <1>6, <1>7, <1>8

\* Taking a detection gives at most one new alert, with a new id.
LEMMA ConvertEffects ==
    ASSUME Placed, PipelineInv, Remembered, Convert
    PROVE  \E d \in pending :
             /\ Key(d) \in Keys /\ pending' = pending \ {d}
             /\ seen' = seen + 1 /\ clock' = clock
             /\ history' \in [Keys -> SUBSET HistoryRecords]
             /\ \/ /\ accepted' = accepted /\ batch' = batch
                   /\ \E e \in history[Key(d)] : e.proc >= clock - DedupWindow
                   /\ \A k \in Keys : history'[k] \subseteq history[k]
                \/ \E r :
                   /\ r.alert.id = seen + 1 /\ r.alert.key = Key(d) /\ r.alert.proc = clock
                   /\ accepted' = accepted \cup {r}
                   /\ batch' = batch \cup {AlertOf(d)} /\ AlertOf(d).id = seen + 1
                   /\ \A k \in Keys : \A e \in history'[k] :
                        e \in history[k] \/ (k = Key(d) /\ e = r.alert)
<1> DEFINE d == CHOOSE x \in pending : TRUE
<1>1. d \in pending
  BY DEF Convert
<1>2. /\ pending' = pending \ {d} /\ AE!ProcessDetection(Key(d), 0, 0)
      /\ IF accepted' # accepted
         THEN batch' = batch \cup {AlertOf(d)} ELSE batch' = batch
  BY DEF Convert
<1> HIDE DEF d
<1>3. Key(d) \in Keys /\ seen \in Nat /\ AcceptedIds \subseteq 1..seen
  BY <1>1, KeyType DEF PipelineInv, InHand, SoundDetection, Placed
<1>4. AlertOf(d).id = seen + 1
  BY DEF AlertOf
<1>5. /\ seen' = seen + 1 /\ clock' = clock
      /\ history' \in [Keys -> SUBSET HistoryRecords]
      /\ \/ /\ accepted' = accepted
            /\ \E e \in history[Key(d)] : e.proc >= clock - DedupWindow
            /\ \A k \in Keys : history'[k] \subseteq history[k]
         \/ \E r :
            /\ r.alert.id = seen + 1 /\ r.alert.key = Key(d) /\ r.alert.proc = clock
            /\ accepted' = accepted \cup {r} /\ accepted' # accepted
            /\ \A k \in Keys : \A e \in history'[k] :
                 e \in history[k] \/ (k = Key(d) /\ e = r.alert)
  <2> DEFINE key == Key(d)
  <2>1. key \in Keys /\ AE!ProcessDetection(key, 0, 0)
    BY <1>2, <1>3
  <2> HIDE DEF key
  <2>2. /\ seen' = seen + 1 /\ clock' = clock
        /\ history' \in [Keys -> SUBSET HistoryRecords]
        /\ \/ /\ accepted' = accepted
              /\ \E e \in history[key] : e.proc >= clock - DedupWindow
              /\ \A k \in Keys : history'[k] \subseteq history[k]
           \/ \E r :
              /\ r.alert.id = seen + 1 /\ r.alert.key = key /\ r.alert.proc = clock
              /\ accepted' = accepted \cup {r} /\ accepted' # accepted
              /\ \A k \in Keys : \A e \in history'[k] :
                   e \in history[k] \/ (k = key /\ e = r.alert)
    BY <1>3, <2>1, ProcessEffects
  <2> QED BY <2>2 DEF key
<1>6. CASE accepted' = accepted
  <2>1. batch' = batch
    BY <1>2, <1>6
  <2> QED BY <1>1, <1>2, <1>3, <1>5, <1>6, <2>1
<1>7. CASE accepted' # accepted
  <2>1. batch' = batch \cup {AlertOf(d)}
    BY <1>2, <1>7
  <2> QED BY <1>1, <1>2, <1>3, <1>4, <1>5, <1>7, <2>1
<1> QED BY <1>6, <1>7

LEMMA PlacedStep ==
    ASSUME Placed, PipelineInv, Remembered, [Next]_vars
    PROVE  Placed'
<1>1. CASE Convert
  <2>1. PICK d \in pending :
             /\ seen' = seen + 1
             /\ \/ accepted' = accepted /\ batch' = batch
                \/ \E r :
                   /\ r.alert.id = seen + 1
                   /\ accepted' = accepted \cup {r}
                   /\ batch' = batch \cup {AlertOf(d)} /\ AlertOf(d).id = seen + 1
    BY <1>1, ConvertEffects
  <2>2. UNCHANGED << rows, lost, shown >> /\ seen \in Nat
    BY <1>1 DEF Convert, PipelineInv, InHand
  <2>3. CASE accepted' = accepted /\ batch' = batch
    <3>1. 1..seen \subseteq 1..seen'
      BY <2>1, <2>2
    <3> QED BY <2>2, <2>3, <3>1 DEF Placed, AcceptedIds
  <2>4. CASE \E r : /\ r.alert.id = seen + 1
                    /\ accepted' = accepted \cup {r}
                    /\ batch' = batch \cup {AlertOf(d)} /\ AlertOf(d).id = seen + 1
    <3> DEFINE b == AlertOf(d)
    <3>1. PICK r : /\ r.alert.id = seen + 1
                   /\ accepted' = accepted \cup {r}
                   /\ batch' = batch \cup {b} /\ b.id = seen + 1
      BY <2>4
    <3> HIDE DEF b
    <3>2. AcceptedIds' = AcceptedIds \cup {seen + 1}
      BY <3>1 DEF AcceptedIds
    <3>3. IdsOf(batch') = IdsOf(batch) \cup {seen + 1}
      BY <3>1 DEF IdsOf
    <3>4. seen + 1 \notin AcceptedIds /\ AcceptedIds' \subseteq 1..seen'
      BY <2>1, <2>2, <3>2 DEF Placed
    <3>5. IsFiniteSet(batch')
      BY <3>1, FS_AddElement DEF Placed
    <3>6. \A a, c \in batch' : a.id = c.id => a = c
      <4>1. seen + 1 \notin IdsOf(batch)
        BY <3>4 DEF Placed
      <4>2. \A a \in batch : a.id # seen + 1
        BY <4>1 DEF IdsOf
      <4> QED BY <3>1, <4>2 DEF Placed
    <3> QED BY <2>2, <3>2, <3>3, <3>4, <3>5, <3>6 DEF Placed
  <2> QED BY <2>1, <2>3, <2>4
<1>2. CASE Assess
  <2>1. UNCHANGED << rows, lost, shown, accepted, seen >>
    BY <1>2 DEF Assess, ghosts
  <2> QED BY <1>2, <2>1, AssessEffects DEF Placed, AcceptedIds
<1>3. CASE Store \/ StoreFails \/ ShowOnly
  <2>1. /\ batch' = {} /\ UNCHANGED << accepted, seen >>
        /\ \/ rows' = rows \cup NewRows(batch) /\ UNCHANGED << lost, shown >>
           \/ lost' = lost \cup IdsOf(batch) /\ UNCHANGED << rows, shown >>
           \/ shown' = shown \cup IdsOf(batch) /\ UNCHANGED << rows, lost >>
    BY <1>3 DEF Store, StoreFails, ShowOnly, Return, engine
  <2>2. IdsOf(NewRows(batch)) = IdsOf(batch)
    BY RowsCount DEF Placed
  <2>3. IdsOf(batch') = {} /\ IsFiniteSet(batch')
    BY <2>1, IdsFacts, FS_EmptySet
  <2>4. IdsOf(rows') = IdsOf(rows) \/ IdsOf(rows') = IdsOf(rows) \cup IdsOf(batch)
    BY <2>1, <2>2, IdsFacts
  <2>5. CASE rows' = rows \cup NewRows(batch) /\ UNCHANGED << lost, shown >>
    <3>1. IdsOf(rows') = IdsOf(rows) \cup IdsOf(batch)
      BY <2>2, <2>5, IdsFacts
    <3> QED BY <2>1, <2>3, <2>5, <3>1 DEF Placed, AcceptedIds
  <2>6. CASE lost' = lost \cup IdsOf(batch) /\ UNCHANGED << rows, shown >>
    BY <2>1, <2>3, <2>6 DEF Placed, AcceptedIds
  <2>7. CASE shown' = shown \cup IdsOf(batch) /\ UNCHANGED << rows, lost >>
    BY <2>1, <2>3, <2>7 DEF Placed, AcceptedIds
  <2> QED BY <2>1, <2>5, <2>6, <2>7
<1>4. CASE \/ \E artifacts \in Artifacts : LoadModels(artifacts)
           \/ \E kind \in {"pcap", "stream", "live"} : StartCall(kind)
           \/ ReadFails \/ InvalidFlow \/ DetectorRaises \/ ModelRaises
           \/ \E flows \in Windows : Detect(flows)
           \/ Predict
           \/ FinishPcap \/ FinishStream
           \/ \E degraded \in BOOLEAN : FinishLive(degraded)
           \/ Tick \/ UNCHANGED vars
  <2>1. UNCHANGED << rows, lost, shown, batch, accepted, seen >>
    BY <1>4 DEF LoadModels, StartCall, ReadFails, InvalidFlow, DetectorRaises, ModelRaises,
       Fail, Detect, Predict, FinishPcap, FinishStream, FinishLive, Tick, AE!Tick, vars,
       engine, ghosts
  <2> QED BY <2>1 DEF Placed, AcceptedIds
<1> QED BY <1>1, <1>2, <1>3, <1>4 DEF Next

-----------------------------------------------------------------------------
LEMMA NoCallFacts ==
    /\ NoCall \in CallRecords /\ NoCall.kind = "none" /\ NoCall.persist = FALSE
    /\ NoCall.stored = 0
BY DEF NoCall, CallRecords

LEMMA PlacedInit == Init => Placed /\ Counted
<1> SUFFICES ASSUME Init PROVE Placed /\ Counted
  OBVIOUS
<1>1. /\ accepted = {} /\ rows = {} /\ lost = {} /\ shown = {} /\ batch = {} /\ seen = 0
      /\ returned = {} /\ call = NoCall /\ report.kind = "none"
  BY DEF Init, AE!Init, NoReport
<1>2. IsFiniteSet({}) /\ IdsOf({}) = {}
  BY FS_EmptySet, IdsFacts
<1>3. Placed
  BY <1>1, <1>2 DEF Placed, AcceptedIds
<1>4. Counted
  BY <1>1, <1>2, NoCallFacts DEF Counted
<1> QED BY <1>3, <1>4

\* A call that fails reports no success.
LEMMA FailCounted ==
    ASSUME Counted, phase \in {"between", "predict"},
           NEW error \in {"capture file", "model schema", "detector", "missing field"},
           Fail(error)
    PROVE  Counted'
<1>1. /\ call' = NoCall /\ UNCHANGED << rows, lost, shown >>
      /\ \/ call.kind = "pcap" /\ returned' = returned /\ report'.status = Classify(error)
         \/ call.kind # "pcap" /\ returned' = {} /\ report'.kind = call.kind
  <2>1. call' = NoCall /\ UNCHANGED << rows, lost, shown >>
    BY DEF Fail, ghosts
  <2>2. CASE call.kind = "pcap"
    <3>1. /\ report' = [kind |-> "pcap", status |-> Classify(error), stats |-> stats]
          /\ returned' = returned
      BY <2>2 DEF Fail
    <3>2. report'.status = Classify(error)
      BY <3>1
    <3> QED BY <2>1, <2>2, <3>1, <3>2
  <2>3. CASE call.kind # "pcap"
    <3>1. /\ report' = [kind |-> call.kind, status |-> "RAISED", stats |-> NoStats]
          /\ returned' = {}
      BY <2>3 DEF Fail
    <3>2. report'.kind = call.kind
      BY <3>1
    <3> QED BY <2>1, <2>3, <3>1, <3>2
  <2> QED BY <2>2, <2>3
<1>2. Classify(error) # "OK"
  BY DEF Classify
<1>3. IsFiniteSet({}) /\ IdsOf({}) = {}
  BY FS_EmptySet, IdsFacts
<1>4. CASE call.kind = "pcap" /\ returned' = returned /\ report'.status = Classify(error)
  BY <1>1, <1>2, <1>4, NoCallFacts DEF Counted, StoredAs
<1>5. CASE call.kind # "pcap" /\ returned' = {} /\ report'.kind = call.kind
  BY <1>1, <1>3, <1>5, NoCallFacts DEF Counted
<1> QED BY <1>1, <1>4, <1>5

\* The window is done: its alerts are counted when they were stored.
LEMMA ReturnCounted ==
    ASSUME Counted, Placed, PipelineInv, Store \/ StoreFails \/ ShowOnly
    PROVE  Counted'
<1> DEFINE new  == IdsOf(batch)
           kept == IdsOf(returned) \ lost
           n    == Cardinality(new)
<1>1. /\ phase' = "between" /\ returned' = returned \cup batch
      /\ \A a \in batch : a \in AlertRecords
  BY DEF Store, StoreFails, ShowOnly, Return, Goto, PipelineInv, AllAssessed, Assessed,
     SoundAlert
<1>2. /\ IsFiniteSet(new) /\ n \in Nat /\ Cardinality(NewRows(batch)) = n
      /\ IdsOf(NewRows(batch)) = new
  BY RowsCount DEF Placed
<1>3. IsFiniteSet(returned') /\ IdsOf(returned') = IdsOf(returned) \cup new
  BY <1>1, IdsFacts, FS_Union DEF Counted, Placed
<1>4. /\ IsFiniteSet(kept) /\ Cardinality(kept) \in Nat
  <2>1. IsFiniteSet(IdsOf(returned))
    BY IdsFacts DEF Counted
  <2>2. IsFiniteSet(kept)
    BY <2>1, FS_Subset
  <2> QED BY <2>2, FS_CardinalityType
<1>5. new \cap (IdsOf(rows) \cup lost \cup shown) = {} /\ new \cap kept = {}
  BY DEF Placed, Counted
<1>6. \A a \in batch : [a EXCEPT !.quality = a.quality] = a /\ a.id \in new
  BY <1>1 DEF AlertRecords, IdsOf
<1>7. call \in CallRecords /\ call.persist \in BOOLEAN /\ call.stored \in Nat
  BY DEF Counted, CallRecords
<1>8. CASE Store
  <2>1. /\ call.persist /\ rows' = rows \cup NewRows(batch) /\ UNCHANGED << lost, shown >>
        /\ call' = [call EXCEPT !.stored = @ + Cardinality(NewRows(batch))]
    BY <1>8 DEF Store
  <2>2. IdsOf(rows') = IdsOf(rows) \cup new
    BY <1>2, <2>1, IdsFacts
  <2>3. call.stored = Cardinality(kept)
    BY <2>1 DEF Counted
  <2>4. /\ call' \in CallRecords /\ call'.persist = call.persist /\ call'.kind = call.kind
        /\ call'.stored = Cardinality(kept) + n
    <3> DEFINE t == Cardinality(kept) + n
    <3>1. t \in Nat /\ call' = [call EXCEPT !.stored = t]
      BY <1>2, <1>4, <2>1, <2>3
    <3> HIDE DEF t
    <3>2. /\ call' \in CallRecords /\ call'.persist = call.persist /\ call'.kind = call.kind
          /\ call'.stored = t
      BY <1>7, <3>1 DEF CallRecords
    <3> QED BY <3>2 DEF t
  <2>5. IdsOf(returned') \ lost' = kept \cup new
    BY <1>3, <1>5, <2>1
  <2>6. Cardinality(kept \cup new) = Cardinality(kept) + n
    <3>1. Cardinality(kept \cup new) = Cardinality(kept) + n - Cardinality(kept \cap new)
      BY <1>2, <1>4, FS_Union
    <3>2. Cardinality(kept \cap new) = 0
      BY <1>5, FS_EmptySet
    <3> QED BY <1>2, <1>4, <3>1, <3>2
  <2>7. ASSUME NEW a \in returned', a.id \notin lost' \cup shown' PROVE StoredAs(a)'
    <3>1. CASE a \in returned
      BY <2>1, <2>7, <3>1 DEF Counted, StoredAs
    <3>2. CASE a \in batch
      <4>1. RowOf(a) \in rows'
        BY <2>1, <3>2 DEF NewRows
      <4> QED BY <1>6, <3>2, <4>1 DEF StoredAs
    <3> QED BY <1>1, <2>7, <3>1, <3>2
  <2>8. IdsOf(returned') \subseteq IdsOf(rows') \cup lost' \cup shown'
    BY <1>3, <2>1, <2>2 DEF Counted
  <2>9. call'.kind = "pcap" => call'.persist
    BY <2>4 DEF Counted
  <2>10. call'.stored = Cardinality(IdsOf(returned') \ lost')
    BY <2>4, <2>5, <2>6
  <2> HIDE DEF new, kept, n
  <2> QED BY <1>1, <1>3, <2>4, <2>7, <2>8, <2>9, <2>10 DEF Counted
<1>9. CASE StoreFails \/ ShowOnly
  <2>1. /\ UNCHANGED << rows, call >>
        /\ \/ lost' = lost \cup new /\ UNCHANGED shown
           \/ shown' = shown \cup new /\ UNCHANGED lost /\ ~ call.persist
    BY <1>9 DEF StoreFails, ShowOnly
  <2>2. call.persist => IdsOf(returned') \ lost' = kept
    BY <1>3, <1>5, <2>1
  <2>3. ASSUME NEW a \in returned', a.id \notin lost' \cup shown' PROVE StoredAs(a)'
    <3>1. a \in returned /\ a.id \notin lost \cup shown
      BY <1>1, <1>6, <2>1, <2>3
    <3> QED BY <2>1, <3>1 DEF Counted, StoredAs
  <2>4. IdsOf(returned') \subseteq IdsOf(rows') \cup lost' \cup shown'
    BY <1>3, <2>1 DEF Counted
  <2>5. call'.persist => call'.stored = Cardinality(IdsOf(returned') \ lost')
    BY <2>1, <2>2 DEF Counted
  <2> HIDE DEF new, kept, n
  <2> QED BY <1>1, <1>3, <2>1, <2>3, <2>4, <2>5 DEF Counted
<1> QED BY <1>8, <1>9

\* process_live marks its alerts after they were stored.
LEMMA LiveCounted ==
    ASSUME Counted, PipelineInv, NEW degraded \in BOOLEAN, FinishLive(degraded)
    PROVE  Counted'
<1> DEFINE mark(a) == [a EXCEPT !.quality = "DEGRADED"]
           f == [a \in returned |-> mark(a)]
<1>1. /\ call' = NoCall /\ report'.kind = "live" /\ UNCHANGED << rows, lost, shown >>
      /\ returned' = returned \/ returned' = {mark(a) : a \in returned}
      /\ \A a \in returned : a \in AlertRecords
  BY DEF FinishLive, ghosts, PipelineInv, AllAssessed, Assessed, SoundAlert
<1>2. CASE returned' = returned
  BY <1>1, <1>2, NoCallFacts DEF Counted, StoredAs
<1>3. CASE returned' = {mark(a) : a \in returned}
  <2>1. \A a \in returned : f[a] = mark(a) /\ f[a] \in returned'
    BY <1>3
  <2>2. \A b \in returned' : \E a \in returned : b = f[a]
    BY <1>3
  <2>3. f \in Surjection(returned, returned')
    <3>1. f \in [returned -> returned']
      BY <2>1
    <3> QED BY <2>2, <3>1 DEF Surjection
  <2>4. IsFiniteSet(returned')
    BY <2>3, FS_Surjection DEF Counted
  <2>5. ASSUME NEW a \in returned
        PROVE  /\ mark(a).id = a.id
               /\ [mark(a) EXCEPT !.quality = mark(a).quality] = [a EXCEPT !.quality = "DEGRADED"]
               /\ [mark(a) EXCEPT !.quality = "GOOD"] = [a EXCEPT !.quality = "GOOD"]
               /\ a.quality \in {"GOOD", "DEGRADED"} /\ mark(a).quality = "DEGRADED"
    BY <1>1 DEF AlertRecords
  <2> HIDE DEF f
  <2>6. IdsOf(returned') = IdsOf(returned)
    <3>1. /\ \A a \in returned : mark(a).id = a.id /\ mark(a) \in returned'
          /\ \A b \in returned' : \E a \in returned : b = mark(a)
      BY <1>3, <2>5
    <3> HIDE DEF mark
    <3>2. \A i \in IdsOf(returned) : i \in IdsOf(returned')
      BY <3>1 DEF IdsOf
    <3>3. \A i \in IdsOf(returned') : i \in IdsOf(returned)
      BY <3>1 DEF IdsOf
    <3> QED BY <3>2, <3>3
  <2>7. ASSUME NEW b \in returned', b.id \notin lost \cup shown PROVE StoredAs(b)
    <3>1. PICK a \in returned : b = mark(a)
      BY <1>3
    <3>2. a.id \notin lost \cup shown
      BY <2>5, <2>7, <3>1
    <3>3. PICK q \in {a.quality, "GOOD"} : RowOf([a EXCEPT !.quality = q]) \in rows
      BY <3>2 DEF Counted, StoredAs
    <3>4. q \in {"GOOD", "DEGRADED"}
      BY <2>5
    <3>5. CASE q = "GOOD"
      BY <2>5, <3>1, <3>3, <3>5 DEF StoredAs
    <3>6. CASE q = "DEGRADED"
      BY <2>5, <3>1, <3>3, <3>6 DEF StoredAs
    <3> QED BY <3>4, <3>5, <3>6
  <2> HIDE DEF mark
  <2>8. \A b \in returned' : b.id \notin lost' \cup shown' => StoredAs(b)'
    BY <1>1, <2>7 DEF StoredAs
  <2> QED BY <1>1, <2>4, <2>6, <2>8, NoCallFacts DEF Counted
<1> QED BY <1>1, <1>2, <1>3

LEMMA CountedStep ==
    ASSUME Placed, Counted, PipelineInv, [Next]_vars
    PROVE  Counted'
<1>1. CASE Store \/ StoreFails \/ ShowOnly
  BY <1>1, ReturnCounted
<1>2. CASE \E degraded \in BOOLEAN : FinishLive(degraded)
  BY <1>2, LiveCounted
<1>3. CASE ReadFails \/ InvalidFlow \/ DetectorRaises \/ ModelRaises
  BY <1>3, FailCounted DEF ReadFails, InvalidFlow, DetectorRaises, ModelRaises
<1>4. ASSUME NEW kind \in {"pcap", "stream", "live"}, StartCall(kind)
      PROVE  Counted'
  <2>1. /\ call' = [NoCall EXCEPT !.kind = kind, !.persist = kind # "stream"]
        /\ returned' = {} /\ report'.kind = "none" /\ UNCHANGED << rows, lost, shown >>
    BY <1>4 DEF StartCall, NoReport
  <2>2. /\ call' \in CallRecords /\ call'.kind = kind /\ call'.persist = (kind # "stream")
        /\ call'.stored = 0
    BY <2>1 DEF NoCall, CallRecords
  <2>3. IsFiniteSet({}) /\ IdsOf({}) = {} /\ Cardinality({}) = 0
    BY FS_EmptySet, IdsFacts
  <2> QED BY <2>1, <2>2, <2>3 DEF Counted
<1>5. ASSUME NEW flows \in Windows, Detect(flows)
      PROVE  Counted'
  <2>1. /\ call' = [call EXCEPT !.empty = FALSE] /\ phase' = "predict"
        /\ UNCHANGED << returned, rows, lost, shown >>
    BY <1>5 DEF Detect, Goto
  <2>2. /\ call' \in CallRecords /\ call'.kind = call.kind /\ call'.persist = call.persist
        /\ call'.stored = call.stored
    BY <2>1 DEF Counted, CallRecords
  <2> QED BY <2>1, <2>2 DEF Counted, StoredAs
<1>6. CASE FinishPcap
  <2>1. /\ call.kind = "pcap" /\ call' = NoCall
        /\ UNCHANGED << returned, rows, lost, shown >>
        /\ report'.status = "OK" =>
             report'.stats = [created |-> Cardinality(returned), stored |-> call.stored]
    BY <1>6 DEF FinishPcap, ghosts
  <2> QED BY <2>1, NoCallFacts DEF Counted, StoredAs
<1>7. CASE FinishStream
  <2>1. call' = NoCall /\ report'.kind = "stream" /\ UNCHANGED << returned, rows, lost, shown >>
    BY <1>7 DEF FinishStream, ghosts
  <2> QED BY <2>1, NoCallFacts DEF Counted, StoredAs
<1>8. CASE \/ \E artifacts \in Artifacts : LoadModels(artifacts)
           \/ Predict \/ Convert \/ Assess \/ Tick \/ UNCHANGED vars
  <2>1. /\ UNCHANGED << call, returned, rows, lost, shown, report >>
        /\ phase' = "idle" => phase = "idle"
    BY <1>8 DEF LoadModels, Predict, Convert, Assess, Tick, Goto, vars, ghosts
  <2> QED BY <2>1 DEF Counted, StoredAs
<1> QED BY <1>1, <1>2, <1>3, <1>4, <1>5, <1>6, <1>7, <1>8 DEF Next

-----------------------------------------------------------------------------
LEMMA NoWindowType == NoWindow \in WindowRecords
BY DEF NoWindow, WindowRecords

\* The severities change, the entries stay.
LEMMA SeveritiesKeep ==
    ASSUME NEW h \in [Keys -> SUBSET HistoryRecords],
           NEW alerts, \A a \in alerts : a.sev \in 0..3
    PROVE  /\ WithSeverities(h, alerts) \in [Keys -> SUBSET HistoryRecords]
           /\ \A k \in Keys : \A e \in WithSeverities(h, alerts)[k] :
                \E d \in h[k] : d.proc = e.proc
<1> DEFINE found(e) == \E a \in alerts : a.id = e.id
           sev(e) == (CHOOSE a \in alerts : a.id = e.id).sev
           marked(e) == IF found(e) THEN [e EXCEPT !.sev = sev(e)] ELSE e
<1>1. ASSUME NEW e \in HistoryRecords
      PROVE  marked(e) \in HistoryRecords /\ marked(e).proc = e.proc
  <2>1. CASE found(e)
    <3>1. sev(e) \in 0..3
      BY <2>1
    <3> HIDE DEF sev
    <3>2. /\ [e EXCEPT !.sev = sev(e)] \in HistoryRecords
          /\ [e EXCEPT !.sev = sev(e)].proc = e.proc
      BY <3>1 DEF HistoryRecords
    <3> QED BY <2>1, <3>2
  <2>2. CASE ~ found(e)
    BY <2>2
  <2> QED BY <2>1, <2>2
<1>2. WithSeverities(h, alerts) = [k \in Keys |-> {marked(e) : e \in h[k]}]
  BY DEF WithSeverities
<1> HIDE DEF marked
<1>3. \A k \in Keys : \A e \in h[k] : e \in HistoryRecords
  OBVIOUS
<1> QED BY <1>1, <1>2, <1>3

\* What the models predict about a window.
LEMMA PredictionsType ==
    ASSUME NEW flows \in SUBSET Flows, NEW flagged, NEW p \in PredictionsOf(flows, flagged)
    PROVE  p \in PredictionRecords /\ p.flow \in flows
<1>1. PICK m \in Trained, f \in flows :
        p = [model |-> m, flow |-> f, flagged |-> f \in flagged[m]]
  BY DEF PredictionsOf
<1>2. (f \in flagged[m]) \in BOOLEAN
  OBVIOUS
<1>3. m \in Models /\ f \in Flows
  BY DEF Trained
<1> QED BY <1>1, <1>2, <1>3 DEF PredictionRecords

\* The detections of a window and those of its models.
LEMMA PredictEffects ==
    ASSUME PipelineInv, Remembered, Covering, Predict
    PROVE  /\ window' \in WindowRecords /\ window'.at = window.at
           /\ pending' = window'.detections
           /\ \A p \in window'.predictions :
                p.flagged /\ (\A g \in window'.flows \ {p.flow} : FlowId[g] # FlowId[p.flow])
                  => \E d \in window'.detections : Names(d, p.flow)
<1>1. PICK flagged \in [Trained -> SUBSET window.flows] :
        LET predictions == PredictionsOf(window.flows, flagged)
            flat == {Correlated(d, predictions) : d \in window.detections}
                      \cup MlOnly(window.detections, predictions)
        IN  /\ window' = [window EXCEPT !.detections = flat, !.predictions = predictions]
            /\ pending' = flat
  BY DEF Predict
<1> DEFINE predictions == PredictionsOf(window.flows, flagged)
           flat == {Correlated(d, predictions) : d \in window.detections}
                     \cup MlOnly(window.detections, predictions)
<1>2. /\ window \in WindowRecords /\ window.flows \in SUBSET Flows
      /\ window.detections \in SUBSET DetectionRecords
      /\ \A d \in window.detections :
           SoundDetection(d) /\
           d.ids = {FlowId[f] : f \in {g \in window.flows : Endpoint[g] = d.from}}
  BY DEF Remembered, WindowRecords, PipelineInv, InHand, Covering, Predict, Goto
<1>3. flat \in SUBSET DetectionRecords
  BY <1>2, CorrelatedSound, MlOnlySound DEF SoundDetection
<1>4. predictions \in SUBSET PredictionRecords /\ \A p \in predictions : p.flow \in window.flows
  BY <1>2, PredictionsType
<1>5. ASSUME NEW d \in window.detections
      PROVE  /\ Correlated(d, predictions) \in flat
             /\ Correlated(d, predictions).ids = d.ids
             /\ Correlated(d, predictions).from = d.from
  <2>1. d \in DetectionRecords
    BY <1>2
  <2> HIDE DEF predictions
  <2> QED BY <2>1 DEF Correlated, DetectionRecords
<1>6. ASSUME NEW p \in predictions, p.flagged,
             \A g \in window.flows \ {p.flow} : FlowId[g] # FlowId[p.flow]
      PROVE  \E d \in flat : Names(d, p.flow)
  <2>1. p.flow \in window.flows
    BY <1>4
  <2>2. CASE FlowId[p.flow] \in KnownIds(window.detections)
    <3>1. PICK d \in window.detections : FlowId[p.flow] \in d.ids
      BY <2>2 DEF KnownIds
    <3>2. PICK f \in window.flows : Endpoint[f] = d.from /\ FlowId[f] = FlowId[p.flow]
      BY <1>2, <3>1
    <3>3. f = p.flow
      BY <1>6, <3>2
    <3> QED BY <1>5, <3>1, <3>2, <3>3 DEF Names
  <2>3. CASE FlowId[p.flow] \notin KnownIds(window.detections)
    <3>1. MlDetection(p) \in flat
      BY <1>6, <2>3 DEF MlOnly
    <3>2. MlDetection(p).ids = {FlowId[p.flow]} /\ MlDetection(p).from = Endpoint[p.flow]
      BY DEF MlDetection
    <3> QED BY <3>1, <3>2 DEF Names
  <2> QED BY <2>2, <2>3
<1>7. window' = [window EXCEPT !.detections = flat, !.predictions = predictions]
      /\ pending' = flat
  BY <1>1
<1> HIDE DEF flat, predictions
<1>8. /\ window' \in WindowRecords /\ window'.at = window.at /\ window'.flows = window.flows
      /\ window'.detections = flat /\ window'.predictions = predictions
  BY <1>2, <1>3, <1>4, <1>7 DEF WindowRecords
<1> QED BY <1>6, <1>7, <1>8

LEMMA DetectEffects ==
    ASSUME Remembered, NEW flows \in Windows, Detect(flows)
    PROVE  /\ window' \in WindowRecords /\ window'.at = clock /\ clock' = clock
           /\ \A d \in window'.detections :
                d.ids = {FlowId[f] : f \in {g \in window'.flows : Endpoint[g] = d.from}}
<1>1. flows \in SUBSET Flows /\ clock \in Nat
  BY PipelineAssumption DEF PipelineAssumption, Remembered
<1>2. PICK found \in Findings(flows) :
        window' = [flows |-> flows, at |-> clock, detections |-> found, predictions |-> {}]
  BY DEF Detect
<1>3. ASSUME NEW d \in found
      PROVE  d \in DetectionRecords /\
             d.ids = {FlowId[f] : f \in {g \in flows : Endpoint[g] = d.from}}
  <2>1. d \in DetectionRecords
    BY <1>1, <1>3, FindingsSound DEF SoundDetection
  <2>2. \E e, score : d = RuleDetection(flows, e, score)
    BY DEF Findings
  <2>3. PICK e, score : d = RuleDetection(flows, e, score)
    BY <2>2
  <2>4. d.from = e /\ d.ids = {FlowId[f] : f \in {g \in flows : Endpoint[g] = e}}
    BY <2>3 DEF RuleDetection
  <2> QED BY <2>1, <2>4
<1>4. window' \in WindowRecords
  BY <1>1, <1>2, <1>3 DEF WindowRecords
<1>5. clock' = clock
  BY DEF Detect, engine
<1> QED BY <1>2, <1>3, <1>4, <1>5

LEMMA RememberedInit == Init => Remembered /\ Covering
BY NoWindowType DEF Init, AE!Init, Remembered, Covering

LEMMA RememberedStep ==
    ASSUME Placed, PipelineInv, Remembered, Covering, [Next]_vars
    PROVE  Remembered'
<1>1. CASE Convert
  <2>1. PICK d \in pending :
             /\ Key(d) \in Keys
             /\ clock' = clock
             /\ history' \in [Keys -> SUBSET HistoryRecords]
             /\ \/ /\ accepted' = accepted
                   /\ \A k \in Keys : history'[k] \subseteq history[k]
                \/ \E r :
                   /\ r.alert.key = Key(d)
                   /\ accepted' = accepted \cup {r}
                   /\ \A k \in Keys : \A e \in history'[k] :
                        e \in history[k] \/ (k = Key(d) /\ e = r.alert)
    BY <1>1, ConvertEffects
  <2>2. window' = window
    BY <1>1 DEF Convert
  <2>3. \A k \in Keys : \A e \in history'[k] :
          \E r \in accepted' : r.alert.key = k /\ r.alert.proc = e.proc
    <3>1. CASE accepted' = accepted /\ \A k \in Keys : history'[k] \subseteq history[k]
      BY <3>1 DEF Remembered
    <3>2. CASE \E r : /\ r.alert.key = Key(d)
                      /\ accepted' = accepted \cup {r}
                      /\ \A k \in Keys : \A e \in history'[k] :
                           e \in history[k] \/ (k = Key(d) /\ e = r.alert)
      BY <3>2 DEF Remembered
    <3> QED BY <2>1, <3>1, <3>2
  <2> QED BY <2>1, <2>2, <2>3 DEF Remembered
<1>2. CASE Assess
  <2>1. /\ history' = WithSeverities(history, batch')
        /\ UNCHANGED << clock, window, accepted >>
    BY <1>2 DEF Assess
  <2>2. \A b \in batch' : b.sev \in 0..3
    BY <1>2, AssessEffects DEF Assessed, SoundAlert, AlertRecords
  <2>3. history \in [Keys -> SUBSET HistoryRecords]
    BY DEF Remembered
  <2> DEFINE marked == batch'
  <2>4. /\ history' = WithSeverities(history, marked) /\ \A b \in marked : b.sev \in 0..3
    BY <2>1, <2>2
  <2> HIDE DEF marked
  <2>5. /\ history' \in [Keys -> SUBSET HistoryRecords]
        /\ \A k \in Keys : \A e \in history'[k] : \E d \in history[k] : d.proc = e.proc
    BY <2>3, <2>4, SeveritiesKeep
  <2>6. \A k \in Keys : \A e \in history'[k] :
          \E r \in accepted' : r.alert.key = k /\ r.alert.proc = e.proc
    BY <2>1, <2>5 DEF Remembered
  <2> QED BY <2>1, <2>5, <2>6 DEF Remembered
<1>3. CASE Tick
  <2>1. clock' = clock + 1 /\ UNCHANGED << history, accepted, window >>
    BY <1>3 DEF Tick, AE!Tick
  <2> QED BY <2>1 DEF Remembered
<1>4. ASSUME window' \in WindowRecords, UNCHANGED engine
      PROVE  Remembered'
  BY <1>4 DEF Remembered, engine
<1>5. CASE \E flows \in Windows : Detect(flows)
  <2>1. UNCHANGED engine
    BY <1>5 DEF Detect
  <2> QED BY <1>4, <1>5, <2>1, DetectEffects
<1>6. CASE Predict
  <2>1. UNCHANGED engine
    BY <1>6 DEF Predict
  <2> QED BY <1>4, <1>6, <2>1, PredictEffects
<1>7. CASE \/ \E artifacts \in Artifacts : LoadModels(artifacts)
           \/ \E kind \in {"pcap", "stream", "live"} : StartCall(kind)
           \/ ReadFails \/ InvalidFlow \/ DetectorRaises \/ ModelRaises
           \/ Store \/ StoreFails \/ ShowOnly
           \/ FinishPcap \/ FinishStream
           \/ \E degraded \in BOOLEAN : FinishLive(degraded)
           \/ UNCHANGED vars
  <2>1. UNCHANGED engine /\ window' \in {window, NoWindow}
    BY <1>7 DEF LoadModels, StartCall, ReadFails, InvalidFlow, DetectorRaises, ModelRaises,
       Fail, Store, StoreFails, ShowOnly, Return, FinishPcap, FinishStream, FinishLive, vars
  <2> QED BY <1>4, <2>1, NoWindowType DEF Remembered
<1> QED BY <1>1, <1>2, <1>3, <1>5, <1>6, <1>7 DEF Next

LEMMA CoveringStep ==
    ASSUME Placed, PipelineInv, Remembered, Covering, [Next]_vars
    PROVE  Covering'
<1>1. CASE Convert
  <2>1. PICK d \in pending :
             /\ pending' = pending \ {d} /\ clock' = clock /\ Key(d) \in Keys
             /\ \/ /\ accepted' = accepted
                   /\ \E e \in history[Key(d)] : e.proc >= clock - DedupWindow
                \/ \E r :
                   /\ r.alert.key = Key(d) /\ r.alert.proc = clock
                   /\ accepted' = accepted \cup {r}
    BY <1>1, ConvertEffects
  <2>2. /\ window' = window /\ phase = "convert" /\ phase' = phase /\ window.at = clock
        /\ clock \in Nat /\ DedupWindow \in Nat
    BY <1>1, PipelineAssumption DEF Convert, Covering, Remembered, PipelineAssumption
  <2>3. Answered(d)'
    <3>1. CASE accepted' = accepted /\ \E e \in history[Key(d)] : e.proc >= clock - DedupWindow
      <4>1. \E r \in accepted : r.alert.key = Key(d) /\ r.alert.proc >= clock - DedupWindow
        BY <2>1, <3>1 DEF Remembered
      <4> QED BY <2>2, <3>1, <4>1 DEF Answered
    <3>2. CASE \E r : /\ r.alert.key = Key(d) /\ r.alert.proc = clock
                      /\ accepted' = accepted \cup {r}
      <4>1. PICK r : /\ r.alert.key = Key(d) /\ r.alert.proc = clock
                     /\ accepted' = accepted \cup {r}
        BY <3>2
      <4>2. r \in accepted' /\ r.alert.proc >= clock - DedupWindow
        BY <2>2, <4>1
      <4> QED BY <2>2, <4>1, <4>2 DEF Answered
    <3> QED BY <2>1, <3>1, <3>2
  <2>4. accepted \subseteq accepted'
    BY <2>1
  <2>5. \A c \in window.detections \ pending : Answered(c)'
    <3>1. \A c \in window.detections \ pending : Answered(c)
      BY <2>2 DEF Covering
    <3> QED BY <2>2, <2>4, <3>1 DEF Answered
  <2>6. \A c \in window'.detections \ pending' : Answered(c)'
    BY <2>1, <2>2, <2>3, <2>5
  <2>7. \A p \in window'.predictions : p.flagged /\ Unique(p.flow)' =>
          \E c \in window'.detections : Names(c, p.flow)
    BY <2>2 DEF Covering, Unique
  <2> QED BY <2>1, <2>2, <2>6, <2>7 DEF Covering, Names
<1>2. CASE Assess
  <2>1. /\ phase = "convert" /\ phase' = "persist" /\ pending = {}
        /\ UNCHANGED << window, clock, pending, accepted >>
    BY <1>2 DEF Assess, Goto
  <2>2. \A d \in window.detections \ pending : Answered(d)'
    BY <2>1 DEF Covering, Answered
  <2>3. \A p \in window'.predictions : p.flagged /\ Unique(p.flow)' =>
          \E c \in window'.detections : Names(c, p.flow)
    BY <2>1 DEF Covering, Unique
  <2>4. window'.at = clock'
    BY <2>1 DEF Covering
  <2> QED BY <2>1, <2>2, <2>3, <2>4 DEF Covering, Names
<1>3. CASE Predict
  <2>1. phase' = "convert" /\ phase = "predict" /\ UNCHANGED clock
    BY <1>3 DEF Predict, Goto, engine
  <2>2. /\ window'.at = window.at /\ pending' = window'.detections
        /\ \A p \in window'.predictions :
             p.flagged /\ (\A g \in window'.flows \ {p.flow} : FlowId[g] # FlowId[p.flow])
               => \E d \in window'.detections : Names(d, p.flow)
    BY <1>3, PredictEffects
  <2>3. \A p \in window'.predictions : p.flagged /\ Unique(p.flow)' =>
          \E c \in window'.detections : Names(c, p.flow)
    BY <2>2 DEF Unique
  <2>4. window'.at = clock'
    BY <2>1, <2>2 DEF Covering
  <2> QED BY <2>1, <2>2, <2>3, <2>4 DEF Covering, Names
<1>4. CASE \E flows \in Windows : Detect(flows)
  <2>1. phase' = "predict"
    BY <1>4 DEF Detect, Goto
  <2> QED BY <1>4, <2>1, DetectEffects DEF Covering
<1>5. CASE \/ \E artifacts \in Artifacts : LoadModels(artifacts)
           \/ \E kind \in {"pcap", "stream", "live"} : StartCall(kind)
           \/ ReadFails \/ InvalidFlow \/ DetectorRaises \/ ModelRaises
           \/ Store \/ StoreFails \/ ShowOnly
           \/ FinishPcap \/ FinishStream
           \/ \E degraded \in BOOLEAN : FinishLive(degraded)
           \/ Tick
  <2>1. phase' \in {"idle", "between"}
    BY <1>5 DEF LoadModels, StartCall, ReadFails, InvalidFlow, DetectorRaises, ModelRaises,
       Fail, Store, StoreFails, ShowOnly, Return, FinishPcap, FinishStream, FinishLive, Tick,
       Goto
  <2> QED BY <2>1 DEF Covering
<1>6. CASE UNCHANGED vars
  <2>1. UNCHANGED << phase, window, clock, pending, accepted >>
    BY <1>6 DEF vars, engine
  <2> QED BY <2>1 DEF Covering, Answered, Names, Unique
<1> QED BY <1>1, <1>2, <1>3, <1>4, <1>5, <1>6 DEF Next

LEMMA AccountsAlways == Spec => [](Placed /\ Counted /\ Remembered /\ Covering)
<1> DEFINE Inv == Placed /\ Counted /\ Remembered /\ Covering
<1>1. Init => Inv
  BY PlacedInit, RememberedInit
<1>2. PipelineInv /\ Inv /\ [Next]_vars => Inv'
  BY PlacedStep, CountedStep, RememberedStep, CoveringStep
<1> HIDE DEF Inv
<1>3. Spec => []Inv
  BY <1>1, <1>2, InvHolds, PTL DEF Spec
<1> QED BY <1>3 DEF Inv

\* Between windows every alert that the deduplication let pass is in the
\* database, in a failed commit or was only shown, and in one of these; a
\* pcap call that reports OK reports how many it returned and stored,
\* whichever windows failed to commit.
THEOREM AlertsAreAccounted == Spec => []EveryAlertAccounted
<1>1. ASSUME Placed, Counted, PipelineInv, phase \in {"between", "idle"}
      PROVE  /\ AcceptedIds = IdsOf(rows) \cup lost \cup shown
             /\ IdsOf(rows) \cap lost = {} /\ (IdsOf(rows) \cup lost) \cap shown = {}
             /\ \A a \in returned : a.id \notin lost \cup shown => StoredAs(a)
             /\ phase = "idle" /\ report.kind = "pcap" /\ report.status = "OK" =>
                  report.stats = [created |-> Cardinality(returned),
                                  stored |-> Cardinality(IdsOf(returned) \ lost)]
  <2>1. batch = {}
    BY <1>1 DEF PipelineInv, InHand
  <2>2. IdsOf(batch) = {}
    BY <2>1, IdsFacts
  <2> QED BY <1>1, <2>2 DEF Placed, Counted
<1>2. Placed /\ Counted /\ PipelineInv => EveryAlertAccounted
  BY <1>1 DEF EveryAlertAccounted, AcceptedIds, StoredAs
<1> QED BY <1>2, AccountsAlways, InvHolds, PTL

\* A flow that a model flags is behind an alert when its window is stored:
\* one of a detection that names it, or one that was returned for the same
\* identity no longer than the deduplication window ago.
THEOREM FlaggedFlowsAlerted == Spec => []FlaggedIsCovered
<1>1. Covering => FlaggedIsCovered
  <2> SUFFICES ASSUME Covering, phase = "persist",
                      NEW p \in window.predictions, p.flagged, Unique(p.flow)
               PROVE  \E d \in window.detections, r \in accepted :
                        /\ FlowId[p.flow] \in d.ids
                        /\ d.from = Endpoint[p.flow]
                        /\ r.alert.key = Key(d)
                        /\ r.alert.proc >= window.at - DedupWindow
    BY DEF FlaggedIsCovered
  <2>1. PICK d \in window.detections : Names(d, p.flow)
    BY DEF Covering
  <2>2. Answered(d)
    BY DEF Covering
  <2> QED BY <2>1, <2>2 DEF Names, Answered
<1> QED BY <1>1, AccountsAlways, PTL

=============================================================================
