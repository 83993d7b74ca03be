---------------------------- MODULE MCAuditTrail ----------------------------
(***************************************************************************)
(* AuditTrail for TLC: windows of one or two alerts, so that a batch can   *)
(* be cut in the middle, two storage faults and two crashes, so that a     *)
(* fault is followed by a crash and a restart by another crash.            *)
(***************************************************************************)
EXTENDS AuditTrail

MCAssessments ==
    { [ran |-> FALSE, reasons |-> {}],
      [ran |-> FALSE, reasons |-> {"flow_eviction_or_window_expiry"}],
      [ran |-> TRUE, reasons |-> {"flow_eviction_or_window_expiry", "cti_partial"}] }

=============================================================================
