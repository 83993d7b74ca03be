--------------------------- MODULE ModelArtifacts ---------------------------
(***************************************************************************)
(* The file of a model between fit and predict: what save_model of         *)
(* models/isolation_forest.py and models/random_forest.py writes, what     *)
(* verify_model_artifact of models/artifact_security.py accepts, and what  *)
(* load_model makes of a file that was accepted.                           *)
(*                                                                         *)
(* load_model assigns one attribute after the other, and is_trained is not *)
(* the last of them: a file that lacks a later key makes it fail, but the  *)
(* model object is trained by then and the pipeline has it already.        *)
(***************************************************************************)
EXTENDS Naturals

CONSTANT RequireHash    \* ml.model_integrity.require_hash

ASSUME RequireHashAssumption == RequireHash \in BOOLEAN

Models == {"isolation_forest", "random_forest"}

\* What may be at the path of a model.
FileStates ==
    [ kind     : {"absent", "special", "regular"},
      hash     : {"unlisted", "listed", "other"},   \* against the allow-list
      readable : BOOLEAN,                           \* joblib can load it
      schema   : {"none", "current", "other"},      \* feature_schema_version
      keys     : {"all", "early", "late"},          \* "early": one is missing that is
                                                    \* read up to is_trained
      trained  : BOOLEAN,
      columns  : {"none", "current", "other"} ]     \* feature_columns

\* A fitted model, saved, whose hash was listed.
Saved ==
    [ kind |-> "regular", hash |-> "listed", readable |-> TRUE, schema |-> "current",
      keys |-> "all", trained |-> TRUE, columns |-> "current" ]

NoFile == [Saved EXCEPT !.kind = "absent", !.hash = "unlisted"]

\* fit with fewer than ten flows leaves the model untrained, and save_model
\* then writes nothing: the file of an earlier training stays.
AfterTraining(before, flows) == IF flows < 10 THEN before ELSE Saved

\* verify_model_artifact returns, and does not raise.
Verified(file) ==
    /\ file.kind = "regular"
    /\ file.hash = "listed" \/ (file.hash = "unlisted" /\ ~ RequireHash)

\* load_model returns True.
LoadReturns(file) ==
    file.readable /\ file.schema # "other" /\ file.keys = "all"

\* The model object after load_model, whatever it returned.
Loaded(file) ==
    IF file.readable /\ file.schema # "other" /\ file.keys # "early" /\ file.trained
    THEN IF file.columns = "other" THEN "mismatched" ELSE "trained"
    ELSE "untrained"

\* load_models raises over this file.
Raises(file) ==
    file.kind # "absent" /\ ~ (Verified(file) /\ LoadReturns(file))

\* A file that is absent is passed over, one that is not accepted is never
\* read; otherwise a new model takes the place of the one before.
AfterLoad(before, file) ==
    IF file.kind # "absent" /\ Verified(file) THEN Loaded(file) ELSE before

=============================================================================
