-------------------------------- MODULE Risk --------------------------------
(***************************************************************************)
(* The risk of an alert: calculate_risk of risk/authoritative_risk.py and  *)
(* _apply_authoritative_risk of streaming/pipeline.py, which collects the  *)
(* evidence for it.                                                        *)
(*                                                                         *)
(* Points are counted in hundredths, so that 10000 is the full score, and  *)
(* the inputs (rule score, probability, anomaly score) are in hundredths.  *)
(* The floats of the code divide exactly where these integers round down;  *)
(* in both, the last item of the breakdown takes up the difference.        *)
(***************************************************************************)
EXTENDS Integers

FullScore == 10000

Bounded(n, low, high) == IF n < low THEN low ELSE IF n > high THEN high ELSE n

-----------------------------------------------------------------------------
(* Evidence: the contribution of each source.  `present` are the sources    *)
(* that gave any; the others contribute 0.                                 *)

EvidenceSources == {"rule", "probability", "anomaly", "cti"}

None == -1                  \* a value that an alert does not have
ValueOr0(v) == IF v = None THEN 0 ELSE v

\* Every alert has an attack type, so the rule always counts as evidence.
PresentEvidence(alert) ==
    {"rule"} \cup {s \in {"probability", "anomaly", "cti"} : alert[s] # None}

EvidenceOf(alert) ==
    [ rule        |-> Bounded(100 * alert.rule, 0, FullScore),
      probability |-> 20 * Bounded(ValueOr0(alert.probability), 0, 100),
      anomaly     |-> 15 * Bounded(ValueOr0(alert.anomaly), 0, 100),
      cti         |-> 100 * ValueOr0(alert.cti) ]

-----------------------------------------------------------------------------
(* calculate_risk                                                          *)

SumOfAll(c) == c["rule"] + c["probability"] + c["anomaly"] + c["cti"]

RawTotal(c) == IF SumOfAll(c) < 0 THEN 0 ELSE SumOfAll(c)

ScoreOf(c) == Bounded(RawTotal(c), 0, FullScore)

\* A contribution as it is displayed: scaled down when the total is too high.
Displayed(c) ==
    [s \in EvidenceSources |->
        IF RawTotal(c) > FullScore THEN (c[s] * FullScore) \div RawTotal(c) ELSE c[s]]

\* The evidence is listed in this order.
LastSource(present) ==
    IF "cti" \in present THEN "cti"
    ELSE IF "anomaly" \in present THEN "anomaly"
    ELSE IF "probability" \in present THEN "probability"
    ELSE "rule"

\* Mutant: the difference is left out.
BreakdownUncorrected(c, present) == Displayed(c)

\* Only the last item is corrected.
Breakdown(c, present) ==
    [s \in EvidenceSources |->
        IF s = LastSource(present)
        THEN Displayed(c)[s] + ScoreOf(c) - SumOfAll(Displayed(c))
        ELSE Displayed(c)[s]]

-----------------------------------------------------------------------------
(* Severity, as the priority of AlertSeverity: LOW 0 to CRITICAL 3.         *)

SeverityOf(score) ==
    IF score >= 8100 THEN 3
    ELSE IF score >= 6100 THEN 2
    ELSE IF score >= 3100 THEN 1
    ELSE 0

=============================================================================
