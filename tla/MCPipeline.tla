----------------------------- MODULE MCPipeline -----------------------------
(***************************************************************************)
(* Pipeline for TLC.  f1 and f3 have one id, as flows of two snapshots of  *)
(* a live capture; f1 and f2 are of one endpoint, so that a detection of   *)
(* it names one flow in some windows and two in another.  The rule score   *)
(* of 90 exceeds the full score together with the contribution of 15.      *)
(***************************************************************************)
EXTENDS Pipeline

MCFlowId      == [f \in Flows |-> IF f = "f2" THEN 1 ELSE 0]
MCEndpoint    == [f \in Flows |-> IF f = "f3" THEN "e2" ELSE "e1"]
MCWindows     == {{"f1", "f2"}, {"f1", "f3"}, {"f2", "f3"}}
MCCtiOutcomes == {[gain |-> None, partial |-> TRUE], [gain |-> 15, partial |-> FALSE]}

Files(iso, rf) ==
    [f \in Models |-> IF f = "isolation_forest" THEN iso ELSE rf]

\* Too few flows to train a random forest, a file that is not listed, one
\* without n_estimators, and one of other features without a schema version.
MCArtifacts ==
    { Files(Saved, AfterTraining(NoFile, 9)),
      Files(NoFile, AfterTraining(NoFile, 10)),
      Files([Saved EXCEPT !.hash = "other"], Saved),
      Files([Saved EXCEPT !.keys = "late"], Saved),
      Files(Saved, [Saved EXCEPT !.schema = "none", !.columns = "other"]) }

=============================================================================
