---------------------------- MODULE AlertEngine ----------------------------
(***************************************************************************)
(* Deduplication and escalation of alerts: the AlertEngine class of        *)
(* src/src/alerts/alert_engine.py.  It is called sequentially by the       *)
(* pipeline; what makes it hard is the state that a call finds: a history  *)
(* per alert key that ages by processing time, is trimmed by event time    *)
(* when it is full, and is re-sorted by that trim.                         *)
(*                                                                         *)
(* The list of a key is kept as the set of its alerts: the order in it is  *)
(* that of the last trim, followed by what was appended since (Precedes).  *)
(*                                                                         *)
(* A detection is its key (_get_alert_key), its severity (the priority of  *)
(* AlertSeverity) and its event time.  `accepted`, `suppressed` and        *)
(* `epoch` are history variables: what the calls returned, and how often   *)
(* the history was trimmed or cleared.                                     *)
(***************************************************************************)
EXTENDS Integers, FiniteSets

CONSTANTS
    Keys,               \* alert identities
    Severities,         \* priorities of AlertSeverity.get_priority
    EventTimes,         \* the `timestamp` of an alert, from its traffic
    DedupWindow,        \* deduplication_window, in clock ticks
    MaxHistory,         \* max_history_entries
    MaxDetections,      \* bound: number of detections processed
    MaxClock            \* bound: processing time

ASSUME AlertAssumption ==
    /\ Severities \subseteq 0..3
    /\ EventTimes \subseteq Int
    /\ DedupWindow \in Nat
    /\ MaxHistory \in Nat \ {0}

VARIABLES
    history,            \* alert_history: key -> its alerts
    ranked,             \* the newest id that the last trim saw
    counter,            \* alert_counter
    escalated,          \* ids of the alerts whose status is ESCALATED
    clock,              \* datetime.now()
    seen,               \* number of detections processed, the next alert id
    accepted, suppressed, epoch

vars == << history, ranked, counter, escalated, clock, seen,
           accepted, suppressed, epoch >>

-----------------------------------------------------------------------------
Alert == [id : Nat, key : Keys, sev : Severities, event : EventTimes, proc : Nat]

NewAlert(key, sev, event) ==
    [id |-> seen + 1, key |-> key, sev |-> sev, event |-> event, proc |-> clock]

\* Mutants: the end of the window excluded; no window at all.
IsWithinWindowExclusive(alert) ==
    clock - alert.proc >= 0 /\ clock - alert.proc < DedupWindow
IsWithinWindowAlways(alert) == TRUE

\* _is_within_window: by processing time, and not from the future.
IsWithinWindow(alert) == clock - alert.proc \in 0..DedupWindow

\* The part of a key's list that _find_duplicate keeps; it stores it back.
Recent(key) == {alert \in history[key] : IsWithinWindow(alert)}

\* The order of a list.  A trim sorts it, newest event first and equal events
\* in the order they had; new alerts are appended.
Precedes(a, b) ==
    IF b.id > ranked THEN a.id < b.id
    ELSE /\ a.id <= ranked
         /\ a.event > b.event \/ (a.event = b.event /\ a.id < b.id)

\* _find_duplicate returns the last of them.
Duplicates(key) ==
    {d \in Recent(key) : \A a \in Recent(key) \ {d} : Precedes(a, d)}

Entries(h) == UNION {h[k] : k \in Keys}

\* What a trim may drop: an alert with the oldest event.  Between keys the
\* order of the dictionary decides, which is left open.
Victims(h) ==
    {v \in Entries(h) : \A a \in Entries(h) :
        /\ a.event >= v.event
        /\ a.key = v.key /\ a.event = v.event => a.id <= v.id}

\* Mutant: the history is trimmed only when it is one above its bound.
AddToHistoryLate(h) ==
    IF Cardinality(Entries(h)) <= MaxHistory + 1
    THEN history' = h /\ UNCHANGED << ranked, epoch >>
    ELSE \E v \in Victims(h) :
            /\ history' = [k \in Keys |-> h[k] \ {v}]
            /\ ranked' = seen + 1
            /\ epoch' = epoch + 1

\* _add_to_history, on the history that already holds the new alert.  One
\* alert was added to a history within its bound, so one is dropped, which
\* may be the new one.
AddToHistory(h) ==
    IF Cardinality(Entries(h)) <= MaxHistory
    THEN history' = h /\ UNCHANGED << ranked, epoch >>
    ELSE \E v \in Victims(h) :
            /\ history' = [k \in Keys |-> h[k] \ {v}]
            /\ ranked' = seen + 1
            /\ epoch' = epoch + 1

\* Mutants: only the later alert is marked as escalated; the earlier one is
\* marked under the id that comes next.
AcceptMarksOne(alert, dup) ==
    /\ AddToHistory([history EXCEPT ![alert.key] = Recent(alert.key) \cup {alert}])
    /\ counter' = counter + 1
    /\ accepted' = accepted \cup {[alert |-> alert, epoch |-> epoch]}
    /\ escalated' = escalated \cup (dup \cap {alert.id})
    /\ UNCHANGED suppressed
AcceptMarksNext(alert, dup) ==
    /\ AddToHistory([history EXCEPT ![alert.key] = Recent(alert.key) \cup {alert}])
    /\ counter' = counter + 1
    /\ accepted' = accepted \cup {[alert |-> alert, epoch |-> epoch]}
    /\ escalated' = escalated \cup {id + 1 : id \in dup}
    /\ UNCHANGED suppressed

\* A new alert is returned to the caller.
Accept(alert, dup) ==
    /\ AddToHistory([history EXCEPT ![alert.key] = Recent(alert.key) \cup {alert}])
    /\ counter' = counter + 1
    /\ accepted' = accepted \cup {[alert |-> alert, epoch |-> epoch]}
    /\ escalated' = escalated \cup dup
    /\ UNCHANGED suppressed

\* A duplicate is dropped; only the aging of its list remains.
Suppress(alert, path) ==
    /\ history' = [history EXCEPT ![alert.key] = Recent(alert.key)]
    /\ suppressed' = suppressed \cup
         {[key |-> alert.key, sev |-> alert.sev, proc |-> clock, path |-> path]}
    /\ UNCHANGED << ranked, counter, accepted, escalated, epoch >>

-----------------------------------------------------------------------------
Init ==
    /\ history = [k \in Keys |-> {}]
    /\ ranked = 0
    /\ counter = 0
    /\ escalated = {}
    /\ clock = 0
    /\ seen = 0
    /\ accepted = {}
    /\ suppressed = {}
    /\ epoch = 0

\* process_detection: a duplicate passes only when it is more severe than the
\* alert found, and then both are marked.
ProcessDetection(key, sev, event) ==
    LET alert == NewAlert(key, sev, event)
    IN  /\ seen < MaxDetections
        /\ seen' = seen + 1
        /\ \/ /\ Recent(key) = {}
              /\ Accept(alert, {})
           \/ \E dup \in Duplicates(key) :
              \/ sev > dup.sev /\ Accept(alert, {alert.id, dup.id})
              \/ sev <= dup.sev /\ Suppress(alert, "detection")
        /\ UNCHANGED clock

\* process_detection_dict: any duplicate is dropped, whatever its severity.
ProcessDetectionDict(key, sev, event) ==
    LET alert == NewAlert(key, sev, event)
    IN  /\ seen < MaxDetections
        /\ seen' = seen + 1
        /\ IF Recent(key) = {}
           THEN Accept(alert, {})
           ELSE Suppress(alert, "dict")
        /\ UNCHANGED clock

\* clear_history.
ClearHistory ==
    /\ \E k \in Keys : history[k] # {}
    /\ history' = [k \in Keys |-> {}]
    /\ counter' = 0
    /\ epoch' = epoch + 1
    /\ UNCHANGED << ranked, escalated, clock, seen, accepted, suppressed >>

\* Processing time passes.
Tick ==
    /\ clock < MaxClock
    /\ clock' = clock + 1
    /\ UNCHANGED << history, ranked, counter, escalated, seen,
                    accepted, suppressed, epoch >>

Next ==
    \/ \E key \in Keys, sev \in Severities, event \in EventTimes :
         \/ ProcessDetection(key, sev, event)
         \/ ProcessDetectionDict(key, sev, event)
    \/ ClearHistory
    \/ Tick

Spec == Init /\ [][Next]_vars

-----------------------------------------------------------------------------
TypeOK ==
    /\ history \in [Keys -> SUBSET Alert]
    /\ ranked \in 0..seen
    /\ counter \in Nat
    /\ escalated \subseteq 1..seen
    /\ clock \in Nat
    /\ seen \in Nat
    /\ epoch \in Nat
    /\ \A r \in accepted : r.alert \in Alert /\ r.epoch \in 0..epoch
    /\ suppressed \subseteq [key : Keys, sev : Severities, proc : Nat,
                             path : {"detection", "dict"}]

\* A history entry was accepted and is filed under its own key, and the
\* history never outgrows its bound.
HistorySound ==
    /\ Entries(history) \subseteq {r.alert : r \in accepted}
    /\ \A k \in Keys : \A a \in history[k] : a.key = k
    /\ Cardinality(Entries(history)) <= MaxHistory

\* Two alerts of one key within the deduplication window are both returned
\* only when the later is strictly more severe: the comment on escalation in
\* process_detection.  It can be said only of two alerts between which the
\* history was neither trimmed nor cleared, since the trim may drop the
\* earlier one and re-sorts the list whose last element is compared.
RepeatsOnlyEscalate ==
    \A r, s \in accepted :
        /\ r.alert.key = s.alert.key
        /\ r.alert.id < s.alert.id
        /\ r.epoch = s.epoch
        /\ s.alert.proc - r.alert.proc <= DedupWindow
        => r.alert.sev < s.alert.sev

\* Nothing is swallowed unreported: a detection that process_detection drops
\* has a returned alert of its key, no older than the window and at least as
\* severe.  process_detection_dict promises less: the severity may be lower.
SuppressionJustified ==
    \A s \in suppressed : \E r \in accepted :
        /\ r.alert.key = s.key
        /\ s.proc - r.alert.proc \in 0..DedupWindow
        /\ s.path = "detection" => r.alert.sev >= s.sev

\* An alert is marked ESCALATED with the one that it raises or that raises it.
EscalationPaired ==
    \A id \in escalated : \E r, s \in accepted :
        /\ r.alert.id \in escalated /\ s.alert.id \in escalated
        /\ id \in {r.alert.id, s.alert.id}
        /\ r.alert.key = s.alert.key
        /\ r.alert.sev < s.alert.sev
        /\ r.alert.id < s.alert.id

=============================================================================
