# Verification of the cyber threat detection pipeline

TLA+ modules, TLC models and TLAPS proofs for the Python package `src/src` of
this repository: a pipeline that turns network flows into alerts. Paths below
are relative to `src/src` unless they start with `src/`.

## 1. The system

```
 interface --thread--> LivePacketCapture --queue--> process_live --> IncrementalScapyFlowAggregator
                                                        |                    | snapshot()
 PCAP file ----------> FlowExtractor ---- flows --------+--------------------+
                                                        v
                                 SlidingWindow / WindowAggregator
                                                        v  one window
        _process_window: detectors, ML --> AlertEngine --> CTI enrichment --> risk
                                                        v
                                    DatabaseManager.add_alerts, HashChain.append_alerts
```

| Component | State | Operations | Hard behaviour | What makes it correct |
|---|---|---|---|---|
| Windowing (`streaming/windowing.py`) | deque of flows, last emission, ids, previous sources | add, flush; expire and advance inside | order of expiry and emission, silences, several windows due at once, late flows | no flow escapes every window; window ends tile time; memory bounded by the horizon |
| Alert engine (`alerts/alert_engine.py`) | history per alert key, counter | process_detection(_dict), clear | two clocks (processing and event time), trim that re-sorts | a suppressed detection is represented by a returned alert; repeats only escalate |
| Audit trail (`storage/database.py`, `blockchain/hash_chain.py`) | SQLite rows; chain in memory and in a JSON file | add_alerts, append_alerts, load, validate, update status, delete | crash between steps, torn file, failures that are swallowed, alerts that change after they were hashed | the chain validates always; what was saved survives; both trails agree; the chain vouches for what the operator sees |
| CTI enrichment (`cti/`) | cache, rate limiter log, counters | batch_enrich, clear_cache, status | time-outs, limits, exceptions in mid-alert, entries that expire, indicators no provider takes | rate limit exact; a skipped look-up never reads as negative; the risk gained is exact |
| Live capture (`ingest/live_capture.py`) | bounded queue, three counters, flags, a thread | start, stop, wait, drain; callback | every interleaving of two threads, overflow, a join whose result is ignored | every packet is counted once |
| Live flow builder (`flow/nfstream_wrapper.py`) | flow table, identities, eviction count | add_packet, snapshot | table at its limit | evictions are visible; a packet counts towards one snapshot |
| `process_live` (`streaming/pipeline.py`) | loop position, time, errors, report | the loop | termination; a report that must not race with the capture | no silent loss; the report is final; it returns |
| Window processing (`streaming/pipeline.py`) | models, history, database, statistics shared by its calls | `_process_window`, `process_pcap`, `process_flow_stream`, `process_live`, `load_models` | failures in mid-call, ids that collide, marks set after storing, alerts that are scored after deduplication | every alert ends in one place; a flagged flow is behind an alert |
| Risk (`risk/`, `scoring/`) | none | `calculate_risk` | clamp, reconciliation, thresholds | the breakdown explains the score |
| Detectors (`detectors/`), features (`features/`) | history of the C2 detector | detect | overlapping windows feed the same flow twice; aggregate and single targets | no target is masked, no beacon invented or missed |
| Extraction (`flow/`) | flow table; none for files | three file readers, live table | four implementations of the same counters | they agree |
| Model files (`models/`) | model objects | fit, save, verify, load | loads that fail half way | what is in use is known |
| Front ends (`src/dashboard/app.py`, `src/scripts/`) | the pipelines they construct | an upload, a run | several pipelines on one database and one chain file | the trail keeps what an append returned |
| Configuration, logging | | | | not modelled |

Components interact by calls on one thread, except that the capture thread
shares the queue, the flags and the counters with `process_live`, and that
other processes (the dashboard, `scripts/manage_alerts.py`) update the status of
rows of the database and delete them, and that every upload and every run of
`src/scripts/run_pipeline.py` builds a pipeline of its own on the same database
and chain file. Only the database and the chain file survive a crash.

`PROJECT.json` lists every component with its status, every hazard at its line,
and for each definition the lines it models.

## 2. Modules

* **SlidingWindow** - one action per call: `AddTimestamped` (add with the
  expiry and the emission of all due windows), `AddUntimestamped`, `Flush`. The
  `while` loops appear as `Stale` (how many flows are popped) and `DueCount`
  (how many windows fall due). `arrived` and `delivered` are history variables.
  `Deltas` and `MaxGap` describe the input stream: which steps the timestamps
  make, and the longest silence.
* **AlertEngine** - `ProcessDetection`, `ProcessDetectionDict`, `ClearHistory`,
  and a clock. An alert is its key, severity, event time and processing time.
  The trim of the history chooses any of the alerts with the oldest event,
  because the order in which a dictionary lists keys decides between them. The
  list of a key is a set here: what was appended since the last trim (`ranked`)
  stands behind the rest in the order of the ids, and the trim sorts the rest by
  event, newest first.
* **HashChain** - a chain as a value: what an entry is made of and what the
  validations test. A hash is the term it is computed from.
* **AuditTrail** - `_process_window`'s persistence step by step: commit, append
  in memory, truncate the file, write it; each of them may fail, and the
  process may crash between any two. Of
  an alert's content the model keeps the fields that storage treats differently:
  `FromAlert` and `ToAlert` say what a row keeps, `EndDegraded` is the marking
  at the end of `process_live`, `UpdateStatus` the operator's update.
  It implements **AppendOnlyLog**, the abstract log whose newest entries a
  crash may lose, whose durable ones it may not, and which may break visibly.
* **SharedTrail** - the same steps for several pipelines that share the database
  and the file. Commits may fail and rows be deleted, but no save fails and no
  process crashes: what goes wrong with the file goes wrong between healthy
  pipelines. A save truncates the file and later writes the
  text from its start, so what a longer text of another pipeline leaves behind
  stays.
* **CtiEnrichment** - an alert is looked up role by role; a look-up is an
  admission (cache, rate limiter) and an answer, between which time passes. Each
  provider is of a `Kind` (ThreatFox, URLhaus, the local file) that decides
  which indicators it asks about and what it makes of an answer. `calls` and
  `answers` record what really happened.
* **Traffic** (totals, rates, concentration, sources), **RateDetectors** (port
  scan, DDoS, SYN flood, UDP flood), **SessionDetectors** (C2, exfiltration,
  encrypted session, DNS) - the rules as operators from the flows of a window to
  a set of results. Ratios are pairs of integers and comparisons are
  cross-multiplied, so that no division rounds. Where the code takes the most
  frequent value and a tie is decided by the order of a set, all are possible.
  A comprehension with a condition is `Pick`, a sum `SumOf`: recursive functions
  over the positions of a list, so that proofs can unfold them.
* **FlowExtraction** - the live flow table with every counter, and the records
  that the standard-library reader, Scapy and NFStream make of the same packets.
  NFStream is a library: it is taken to find the same flows, or to fail.
* **Detection** composes these four: packets arrive, are analysed in overlapping
  windows by any of the readers, and the detectors report (`Reports`: one outcome
  of each enabled detector). Which records of the window before are handed over
  again is left open, so that the proofs hold for any windowing.
* **Risk** - `calculate_risk` in hundredths of a point. **ModelArtifacts** - a
  model file between fit and predict. **Pipeline** - `_process_window` and the
  three calls around it, with the deduplication of AlertEngine (by INSTANCE), the
  score of Risk and the models of ModelArtifacts. Windows, detections,
  predictions and contributions, which other modules make, are inputs here.
* **Packets**, **FlowBuilder** (operators on a record), **LiveCapture** (the
  thread and the owner's operations) and **LiveLoop**, which composes them with
  the loop of `process_live`. The queue and the counters are accessed in
  separate steps, as the code takes its lock only around the counters.
* **MC\*** modules give constants to TLC.
* **SlidingWindowProofs**, **AlertEngineProofs**, **AuditTrailProofs** (with
  HashChain), **SharedTrailProofs**, **CtiEnrichmentProofs**, **LiveLoopProofs**,
  **PipelineProofs** (with Risk) and **DetectionProofs** (with the rules, the
  readers and the live table) hold the proofs.

Definitions whose comment says "Mutant" are deliberate faults. They are used by
no specification; replacing the definition that follows by one of them must
violate a property, which shows that the property can fail.

## 3. What the runs show

| Run (module, cfg) | Question | Bounds, and why they are enough |
|---|---|---|
| MCSlidingWindow, `MCSlidingWindowDense.cfg` | Does a window see what it should, for streams without long silences? | Window 5 ms, slide 2 ms, gaps 0..4 (`WindowMs - SlideMs + 1`, the largest for which `NoFlowLost` holds), 5 flows of 2 sources: one add makes up to two windows due, flows expire, a flush follows and precedes adds. |
| MCAlertEngine | Deduplication, escalation | 2 keys, history of 2, window of 1 tick, 4 detections, 3 severities, 2 event times: the history is trimmed twice, ages, and is cleared. |
| MCAuditTrail, `MCAuditTrail.cfg` | Do the trails survive failures, and does the chain vouch for what is seen? | 3 alerts in windows of 1 or 2, without `ml_ran`, with it and a reason that degrades, and with a reason that does not, 2 faults, 2 crashes: a batch is cut in the middle, a fault is followed by a crash and a restart, rows are updated and deleted at any time. |
| MCSharedTrail | Does the chain file keep what two pipelines append? | 2 pipelines, 3 alerts, no failed commit (`MaxFaults = 0`), so that nothing else can be the cause: **violated** (`SavedStays`) in 13 steps, by two uploads with an alert each. |
| MCCtiEnrichment, `MCCtiEnrichment.cfg` | Limits, cache, visibility | 3 indicators (a listed address, a domain, one that is neither), the three kinds of provider, 2 requests per 2 ticks, cache of 2 ticks, 2 alerts, 4 clock values: an alert of three indicators meets a full limiter, entries expire between look-ups. |
| MCCtiEnrichment, `MCCtiEnrichmentChecked.cfg` | Does "checked" mean answered? | **violated** (`CheckedMeansAnswered`): look-ups that nobody answered are cached as negatives. |
| MCLiveLoop, `MCLiveLoop.cfg` | Is a loss ever silent; does the call return? | 3 packets of 2 keys (or none, or broken), queue 2, drain 2, flow table 1: overflow, a drain that stops at its limit, eviction, a capture that fails or stays silent. Liveness included. |
| MCLiveLoop, `MCLiveLoopBounded.cfg` | Is the flow builder bounded? | **violated** (`StateBounded`): identities outlive snapshots. |
| MCDetection | Do the readers agree, and are the detectors' decisions sound over overlapping windows? | 3 packets in every order of 8 kinds (handshake, SYN, uploads over TLS and QUIC, DNS good and malformed), 50 ms forwards or backwards, up to 3 analyses, a live table of 2, C2 history of 4. The limits of the detectors are scaled down until three packets reach them: every factor of every rule is met and missed. |
| MCPipeline, `MCPipeline.cfg` | Where does an alert end, and what is its score? | 3 flows of which two share an id, 2 endpoints, windows of two flows, 2 calls with 2 windows between them, one load of 5 combinations of model files, a rule score that exceeds the full score together with the contribution of CTI: repeats inside and outside the deduplication window, failures before, between and after windows. |
| MCPipeline, `MCPipelineEvidence.cfg` | Does what a model says count in the score? | The constants of `MCPipeline.cfg`: **violated** (`ModelEvidenceCounts`): the probability does not reach the alert. |
| MCPipeline, `MCPipelineEscalation.cfg` | Does a stronger repeat get through? | A second rule score: **violated** (`EscalationSurfaces`). |

The constants `Max...` bound the models rather than the program: flows,
detections, alerts, packets, calls, faults and the clocks. Deadlock checking is off
because these bounds, or the end of the call, stop the model.

Properties worth pointing at:

* `WindowsNearlyExact` says how inexact windows are: up to `MaxGap - 1`
  milliseconds at either end. The module documentation, which says that a flow is
  assigned to a window by its timestamp, describes the case `MaxGap = 1`: after a
  silence `add` appends the new flow before it emits the windows due before it
  (`windowing.py:119,161`), so they hold a flow newer than their end.
* `RepeatsOnlyEscalate` is stated for two alerts between which the history was
  neither trimmed nor cleared (`epoch`). Without that condition it does not
  hold: the trim re-sorts a list so that its last element is the oldest alert.
* `ChainVouches` relates three copies of an alert: the object a call returned,
  the row and the hash. It names the ways in which they differ: process_live
  marks a degraded capture after hashing, a row keeps neither the zone of the
  time stamp nor `ml_ran`, the status is updated. `src/docs/THREAT-MODELS.md` says
  that the hash chain shows whether an alert was altered; that holds for the
  object, while an alert read back from the database never validates.
* `ExtractionAgrees` compares the live table, which counts packet by packet, with
  the file readers, which count whole flows. Its conditions are where they do
  differ: malformed DNS, other protocols, packets out of order (Scapy), one
  address at both ends (Scapy), and the SYNs with ACK that the standard-library
  reader never counts (`nfstream_wrapper.py:463`), metadata and the mean gap.
* `HandshakeClears` is about steps: one more ACK on a known connection never
  makes the SYN flood detector accuse a host it did not accuse before.
* `FlaggedIsCovered` holds for flows whose id is unique in the window. Ids repeat
  between the snapshots of a live capture, and then it does not hold.
* `ModelEvidenceCounts` is what section 6 of
  `src/docs/Cyber_Detecter_Complete_Audit_REPAIRED.md` says: "ML probability is one
  evidence contribution". The probability is attached to the detection, and
  `calculate_risk` would count it, but `_detection_to_alert`, which first reads it
  from the details (`alert_engine.py:157`), then replaces it by a key that no
  detection has (`alert_engine.py:178`). It would hold if that line read the
  details too.
* `SaveCatchesUp` says what `append_alert` leaves behind when it cannot save. Its
  check for an append that is "not durably persisted" (`hash_chain.py:187`) never
  fires, since `_save_chain` only logs a failure, so an append may return and a
  crash lose it. The damage is bounded: the file of a running process is behind,
  or unreadable, only while the save of the newest entry is one that failed.
* `EveryAlertAccounted` follows an alert over failed commits and failed calls.
* `SavedStays` is what a single writer would have (`src/docs/THREAT-MODELS.md:169`
  calls the chain "purely local, single-writer"). With two, the later save erases
  the entries of the other, and no validation shows it: `EveryChainValid` is
  proved. The loss is visible only when the file becomes unreadable, and then
  every later pipeline fails to start.
* `TrailsAgree` names each way the trails may differ: a failed commit, a crash,
  a deletion. There is no other.
* `ReportFinal`: `process_live` ignores what `wait(timeout=5)` returned, and
  `stop_capture` alone would not end a thread that sees no packet. The report is
  final all the same, because the loop is not left before `is_capturing` is
  cleared, which the thread does last. One consequence is that the stop event
  never ends a capture of `process_live`: it is set too late.
* `LossIsVisible`: with it, a status of `OK` means that each packet of TCP, UDP
  or ICMP over IP reached the windows.

**Fairness.** Only LiveLoop has liveness. `WF(Main)`: the thread of
`process_live` has no blocking operation except `wait(timeout=5)`, whose end is
a step, and `sleep`. `WF(CaptureStep)`: the callback blocks nowhere
(`put_nowait`). `SF(SniffTimeout)`: `sniff(timeout=duration)` returns although
packets keep arriving, so weak fairness, which an arriving packet disables,
would say too little. `WF(Elapse)`: the duration passes. No fairness makes
packets arrive, a detector raise or sniff fail.

## 4. What is proved

Every theorem holds for all values of the constants under the assumption that
the module which declares them names (`WindowAssumption`, `CtiAssumption`,
`PipelineAssumption` and so on: lengths and limits are natural numbers or
positive, sets are sets of what the code accepts). TLC evaluates these on every
run. Each invariance proof has the same shape: an inductive invariant, a lemma
per action that the action preserves it, a lemma that it implies the property.
The inductive invariants were checked by TLC on the instances of the runs before
they were proved.

**SlidingWindowProofs**

* `TypeCorrect`: the type invariant. `Typing` adds nothing but the non-emptiness
  that `Flush` and `NewestMs` need.
* `ExpireEarlierIsNoOp`: the model cuts all windows of one add from the flows
  that survive the first expiry, whereas the code expires again before each
  snapshot. The theorem justifies that.
* `DenseStreamsLoseNothing`: `NoFlowLost` under `Dense` (event order, and no
  silence above `WindowMs - SlideMs + 1`). `NoFlowLost` is not inductive. The
  strengthening says that the flows not yet delivered form a suffix of the
  deque whose timestamps lie after the last emission, and that the last
  emission lies less than a slide before the newest flow; a flow that expires
  is then at most as old as the last emission, hence delivered.
* `ExpiryIsExact`: `ExpiryAccounted`, for any stream, late flows included. A new
  flow is none of the earlier ones, since their sequence numbers are smaller,
  which makes the sum inductive (`AccountInv`).
* `HorizonBoundsMemory`, `WindowsHoldTheirInterval`, `WindowsTileTime`:
  `HorizonBounded`, `WindowsNearlyExact` and `WindowsTile` for streams in event
  order with silences of any length, from one invariant, `OrderInv`: the deque is
  sorted, spans at most a window, misses no flow of it, and the newest flow lies
  less than a slide after the last window end. The first three are what makes the
  flows of a window those between two times; the last fixes which ends are due.

**AlertEngineProofs**, from `Filed`, `SinceTrim` and `Bounded`

* `EngineTyped`, `HistoryBounded` (`HistorySound`), `NothingLostToDedup`
  (`SuppressionJustified`), `OnlyEscalationsRepeat` (`RepeatsOnlyEscalate`) and
  `EscalationsComeInPairs` (`EscalationPaired`).
* `Filed` says that an entry of the history was returned, and that ids tell
  alerts and their order apart. `SinceTrim` is the heart of it: an alert that was
  returned in this epoch and is within the window is still in the history, after
  `ranked`. So a later detection of its key finds it, or a newer one of this epoch,
  as the last of the list; the newer one was more severe, by the property itself
  for the earlier pair, and the detection is more severe than that. Across a trim
  this fails, in the model as in the code.

**AuditTrailProofs**, from `Shape`, `Chains`, `Written`, `Accounted`, `Rowed` and
`Handed`

* `FaultsNeverBreakChain` (`ChainValid`), `FileNeverAhead` (`FileBehindMemory`),
  `SavedNeverLost` (`SavedSurvives`), `FaultsAreCaughtUp` (`SaveCatchesUp`),
  `TrailsReconcile` (`TrailsAgree`), `ChainVouchesForAlerts` (`ChainVouches`).
* `TrailIsLog`: every step is a step of AppendOnlyLog or a stutter, with the ids
  of the chain as the log (of the chain in the file while no process is up) and
  the saved ones as its durable part.
* `Shape` ties the alerts in work to the ids issued and the step of the save;
  `Chains` says that the chain of the file, when it can be read, is a prefix of
  the one in memory, ordered by id; `Written`, that what was saved is what the file has;
  `Accounted`, that an alert that is done is in the chain or was interrupted, and
  none is in the chain that did not pass the database; `Rowed` and `Handed` compare
  row, hash and returned object by id.
* About a chain of any length as a value: `AlterationDetected`: `validate_chain`
  notices every replacement of one entry, unless it is the last with its hash
  recomputed; `RemovalDetected`: every removal of an entry that is not the last.
  The exceptions are what a chain without an anchor cannot see. `AppendSound`: an
  append to a valid chain leaves it valid and adds one id.

**SharedTrailProofs**, for any number of pipelines, alerts, failed commits and
deletions

* `ValidationHidesLoss` (`EveryChainValid`) and `TurnsLoseNothing`
  (`OneWriterKeepsAll`): the chains in memory and in the file are always valid;
  without two pipelines at one time the file keeps every alert whose append
  returned. `AppendSound`, about one entry, makes `Chains` inductive; `InWork` says
  that the alert being saved is in the chain in memory; `Alone` that a pipeline
  that is alone has everything in memory and finds the file as it left it,
  truncated only by itself.
* `RowsAreReconciled` (`RowsReconciled`): the file may lose entries to another
  pipeline, but what the two trails say together stays exact. An alert that came
  to any chain has a row unless its commit failed (`add_alerts` rolls back,
  `database.py:425`, and the append goes on) or the row was deleted, and then it has
  none; and every row is of an alert that was appended or that a pipeline still has
  in hand. Neither half follows from one step: a row stays right only if no
  pipeline commits an id that was settled before. `Reconciled` is the strengthening:
  ids in hand are of one pipeline each and were issued, not settled before the
  commit, settled from then on, and settled once. The property has no run of its
  own; TLC checked it, with the strengthening, for 2 pipelines, 4 alerts and 2 failed
  commits.

**CtiEnrichmentProofs**

* `LimitHolds` (`RateLimitHolds`) and `RefusesOnlyWhenFull`
  (`RejectsOnlyWhenFull`): together the limiter is exact. The deque forgets, the
  property ranges over all windows of the past; `Limiter` therefore speaks of
  `calls`, the history: the deque is its recent end, and any `MaxRequests + 1` calls
  in a row span a window. A window with more calls than that would contain such a
  row (calls are sorted, so those in an interval are consecutive).
* `CtiTyped`, `SkipsAreVisible` (`SkipIsVisible`), `ContributionsExact`
  (`ContributionExact`): `Ledger` accounts for the alert in hand role by role, what
  was met, what was gained, which statuses were collected; roles still to come have
  met nothing. `VerdictsHaveFeeds` (`VerdictsGrounded`): `Caching`, with the
  providers that can answer.

**LiveLoopProofs**, in every interleaving of the two threads

* `DropsAccounted`: `PacketsConserved`. The invariant `WellFormed` ties the list
  being built by a drain to the position of the loop.
* `NoSilentLoss` and `ReportIsFinal`: the invariant `Accounted` says
  where each packet with a flow is - in the queue, in a hand, in a list, in the
  flow table, handed over - or that a drop or an eviction was counted
  (`NothingForgotten`), and that a report exists only at the end (`ReportSound`);
  `Control` says that the thread has ended wherever the loop is over.
* `PacketsCountOnce` (`FlowsDisjoint`) and `LoopTyped`: `LineInv`. That a packet is
  in one flow of one snapshot follows from order: packets are numbered as they
  come, each place they pass keeps that order, and all that a place holds is
  newer than what the next one has seen.

**PipelineProofs**, for any flows, findings, models, contributions and failures

* `BreakdownReconciles`: what `calculate_risk` shows adds up to its score for any
  contributions. `ScoresAreExplained`: `RiskExplained`. `ModelsNeverScore` is the
  extent of what the run with `MCPipelineEvidence.cfg` finds: no score of any alert
  has a part from a model (`RiskWithoutModels`). `PipelineInv` says which alerts a window has in hand at
  each phase, that none of them carries evidence of a model, and that every one
  that left the risk step carries an assessment of its own sources.
* `AlertsAreAccounted`: `EveryAlertAccounted`. `Placed` says that the alerts that
  passed deduplication are in hand, stored, lost or shown, and in one place;
  `Counted`, that the statistics of a call agree with these places between its
  windows, so that they do when it ends.
* `FlaggedFlowsAlerted`: `FlaggedIsCovered`. `Remembered` says that an entry of
  the history stems from a returned alert; `Covering` follows the window: no time
  passes within it, each unique flagged flow has a detection that names it once
  the predictions are in, and each detection that is no longer pending has been
  answered by an alert within the deduplication window.

**DetectionProofs**, for any packets in any order, any windowing, any limits

* The rules are sums over lists of flows and choices among them, so each proof
  needs what `Pick` and `SumOf` compute for lists of any length. That is induction
  over data, done here without an induction principle that takes an operator: the
  set of lengths at which a statement fails, if not empty, has a least element
  (`LeastElement`), and `UpTo` and `Recursion` say so once for sets and for
  recursive functions. What follows from them are lemmas such as `PickByPlaces`
  (the i-th element picked is the element at the i-th place), `PickAppend` and
  `SumAppend` (what one more element changes).
* `CountersAgree` (`CountersAddUp`), inductive as it stands with `Typing`: each
  packet counts in one direction and each SYN with or without ACK, for each of
  the eight combinations of flags that the counters tell apart.
* `ReadersAgree` (`ExtractionAgrees`): a table updated packet by packet, with
  flows found by either direction, is the list of records made from all packets of
  each conversation. `Extracted` is the invariant: the k-th state of the table is
  opened by the k-th first packet and `Sums` the packets of that conversation. A
  packet of a known conversation appends to one group and counts in one state; a
  new one opens the last of both (`SummedAppend`). `StdlibAlike` and `ScapyAlike`
  then compare a record made from such a state with the one made from the packets.
* `TargetsNotMasked` (`NoTargetMasked`) and `VolumeIsNeeded` (`VolumeNeeded`) are
  about the verdicts of one window, from `Judged`: the verdicts are a report of the
  detectors about the window, given the history that holds it. The second rests on
  the scores: without the factor for volume the weights of the others stay below
  the least score the rule reports, which is where the ranges of `min_score` in
  `SessionAssumption` come from.
* `BeaconsAreReal` (`BeaconsReal`) and `BeaconsAreSeen` (`BeaconsSeen`):
  `Remembered` says that the deque of a session holds times at which it was seen,
  in any of the windows so far, and all of them as long as not more records were
  handed over than a deque holds. The times are then compared in ascending order,
  each once (`AscendingFacts`): for the first theorem, the intervals add up to the
  span of the session, and their mean is at least `min_interval`; for the second,
  all intervals of an even session are the same, so they have no spread and pass
  every condition of the rule.
* `AckClears` (`HandshakeClears`) compares the reports before and after a step.
  `Framed` says that a live flow spans the times of two packets, so that in a
  capture in order one more ACK only makes it longer. `Older` relates the records
  before and after: the same flows with the same SYNs, no shorter, with no fewer
  ACKs or packets. Every factor of the SYN flood rule falls, or stays, from one to
  the other, for any subset of the flows, hence also where the rule looks at one
  target or breaks a tie.

Two attempts failed for good reasons and corrected the model. `BeaconsSeen` was
stated for sessions "the same interval apart" with an interval that could be 0
where `min_interval` is 0: every set of times is even then. `Even` asks for a
positive one. And with `min_repeats` of 1 the C2 rule would take the mean of no
intervals, which in the code raises (`detectors/c2_beacon.py`); `SessionAssumption`
asks for at least 2.

Model-checked only: `Terminates`, as liveness under fairness is out of the reach
of the proof system. Every other property of the passing runs is stated by a
theorem.

## 5. What is not modelled, and why

* `slide_seconds` below half a millisecond rounds to 0, and the loop of
  `_advance` would not end (`windowing.py:81,167`). `WindowAssumption` excludes
  it.
* The clock of AlertEngine and CtiEnrichment does not step back; where the
  system's does, dedup entries drop out of the window early.
* One LivePacketCapture object is started once, without `packet_limit`,
  retention or blocking puts, as `process_live` uses it. In a standalone use the
  callback returns on a drop before it tests `packet_limit`
  (`live_capture.py:103`), and an object that is started again while its old
  thread runs would have two (`live_capture.py:128`); no caller does either.
* AuditTrail, whose saves fail and whose process crashes, has one pipeline;
  SharedTrail, which has several, only failing commits and deletions. The text of a chain is written in one piece when the file
  is closed, as buffered writes of a short chain are. `_load_chain` reads the file
  at one instant.
* Numbers in floating point are integers of a fixed scale. Entropies
  (`features/entropy.py`) and feature vectors (`features/network_features.py`)
  are not modelled: no rule tests the former, and training and inference are
  scikit-learn's. A model flags any set of flows.
* `features/rate.py` and `features/spoofing_likelihood.py` where their results
  are only shown as evidence; `detectors/dga.py`, which the factory does not
  construct; `scoring/risk_score.py`, which the pipeline does not call.
* The bytes of packets and capture files, DNS over TCP and mDNS, FIN and ICMP
  counters, `flow_analyzer.py`, `ingest/pcap_reader.py`.
* `clear_chain`, `cross_validate` and `evaluate`, which only tests call, the
  statistics of all components, and the queries of the database.
* In Pipeline the detections of one window are taken in one fixed order and time
  passes only between windows; `process_flow_stream` never persists, as none of
  its callers asks for it.
* Configuration and logging, and what the scripts and the dashboard show. One
  remark on the latter: a comment of `handle_pcap_upload`
  (`src/dashboard/app.py:523`) says that a failed analysis is shown to the user,
  but `process_pcap` returns failures as a status, which the function does not
  test, and reports success with 0 flows. `src/build/lib` is an older copy of the package.

## 6. Plan

Done: SlidingWindow, AlertEngine, AuditTrail with AppendOnlyLog, CtiEnrichment,
Packets, FlowBuilder, LiveCapture, LiveLoop, Traffic, RateDetectors,
SessionDetectors, FlowExtraction, Detection, Risk, ModelArtifacts, Pipeline,
HashChain, SharedTrail, and eight proof modules. Next, in this order:

1. **Wider inputs** - failing saves and crashes in SharedTrail, a capture that is restarted or
   has a packet limit, late flows that outlive the horizon (`windowing.py:180`).
2. **More of the stores** - the queries of the database and `clear_chain`.
