------------------------- MODULE AlertEngineProofs -------------------------
(***************************************************************************)
(* Proofs about AlertEngine, for any history bound, any deduplication      *)
(* window and any event times: what is deduplicated, what escalates, and   *)
(* what a trim of the history may undo.                                    *)
(***************************************************************************)
EXTENDS AlertEngine, FiniteSetTheorems, TLAPS

-----------------------------------------------------------------------------
(***************************************************************************)
(* The steps, by what becomes of the detection.                            *)
(***************************************************************************)
Accepts(key, sev, event) ==
    /\ seen' = seen + 1 /\ clock' = clock
    /\ \/ Recent(key) = {} /\ Accept(NewAlert(key, sev, event), {})
       \/ \E dup \in Duplicates(key) :
            sev > dup.sev /\ Accept(NewAlert(key, sev, event), {seen + 1, dup.id})

Suppresses(key, sev, event) ==
    /\ seen' = seen + 1 /\ clock' = clock
    /\ \/ \E dup \in Duplicates(key) :
            sev <= dup.sev /\ Suppress(NewAlert(key, sev, event), "detection")
       \/ Recent(key) # {} /\ Suppress(NewAlert(key, sev, event), "dict")

LEMMA NextCases ==
    ASSUME Next
    PROVE  \/ \E key \in Keys, sev \in Severities, event \in EventTimes :
                Accepts(key, sev, event) \/ Suppresses(key, sev, event)
           \/ ClearHistory
           \/ Tick
<1>1. ASSUME NEW key \in Keys, NEW sev \in Severities, NEW event \in EventTimes,
             ProcessDetection(key, sev, event) \/ ProcessDetectionDict(key, sev, event)
      PROVE  Accepts(key, sev, event) \/ Suppresses(key, sev, event)
  <2> DEFINE alert == NewAlert(key, sev, event)
  <2>1. alert.id = seen + 1
    BY DEF NewAlert
  <2> HIDE DEF alert
  <2>2. CASE ProcessDetection(key, sev, event)
    BY <2>1, <2>2 DEF ProcessDetection, Accepts, Suppresses, alert
  <2>3. CASE ProcessDetectionDict(key, sev, event)
    BY <2>3 DEF ProcessDetectionDict, Accepts, Suppresses
  <2> QED BY <1>1, <2>2, <2>3
<1> QED BY <1>1 DEF Next

-----------------------------------------------------------------------------
(***************************************************************************)
(* The inductive invariant.                                                *)
(***************************************************************************)
\* The history holds returned alerts only, each under its key, and the id of
\* an alert tells when it came.
Filed ==
    /\ TypeOK
    /\ \A k \in Keys : \A a \in history[k] :
         a.key = k /\ \E r \in accepted : r.alert = a
    /\ \A r \in accepted : r.alert.id \in 1..seen /\ r.alert.proc <= clock
    /\ \A r, s \in accepted :
         r.alert.id = s.alert.id => r.alert = s.alert /\ r.epoch = s.epoch

\* What was returned since the last trim is what stands behind it in a list,
\* and is still there as long as it is within the window.
SinceTrim ==
    \A r \in accepted :
        /\ r.epoch = epoch => r.alert.id > ranked
        /\ r.epoch = epoch /\ clock - r.alert.proc <= DedupWindow
              => r.alert \in history[r.alert.key]
        /\ r.alert \in history[r.alert.key] /\ r.alert.id > ranked
              => r.epoch = epoch

\* The history is finite and within its bound.
Bounded == IsFiniteSet(Entries(history)) /\ Cardinality(Entries(history)) <= MaxHistory

\* The record of a new alert.
LEMMA NewAlertFacts ==
    ASSUME TypeOK, NEW key \in Keys, NEW sev \in Severities, NEW event \in EventTimes
    PROVE  LET a == NewAlert(key, sev, event)
           IN  /\ a \in Alert /\ a.id = seen + 1 /\ a.key = key /\ a.sev = sev
               /\ a.proc = clock
BY DEF TypeOK, NewAlert, Alert

\* An alert that is in the deduplication window.
LEMMA RecentFacts ==
    ASSUME Filed, NEW key \in Keys, NEW a \in Recent(key)
    PROVE  /\ a \in history[key] /\ a \in Alert /\ a.key = key /\ a.id \in 1..seen
           /\ a.proc <= clock /\ clock - a.proc \in 0..DedupWindow
           /\ \E r \in accepted : r.alert = a
<1>1. a \in history[key] /\ clock - a.proc \in 0..DedupWindow
  BY DEF Recent, IsWithinWindow
<1>2. PICK r \in accepted : r.alert = a
  BY <1>1 DEF Filed
<1>3. r.alert \in Alert /\ r.alert.id \in 1..seen /\ r.alert.proc <= clock
  BY DEF Filed, TypeOK
<1> QED BY <1>1, <1>2, <1>3 DEF Filed

\* What _add_to_history leaves, with and without a trim.
LEMMA AcceptEffects ==
    ASSUME Filed, NEW key \in Keys, NEW a \in Alert, a.key = key, NEW dup, Accept(a, dup)
    PROVE  LET h == [history EXCEPT ![key] = Recent(key) \cup {a}]
           IN  /\ h \in [Keys -> SUBSET Alert]
               /\ \/ /\ Cardinality(Entries(h)) <= MaxHistory
                     /\ history' = h /\ ranked' = ranked /\ epoch' = epoch
                  \/ \E v \in Entries(h) :
                       /\ ~ Cardinality(Entries(h)) <= MaxHistory
                       /\ history' = [k \in Keys |-> h[k] \ {v}]
                       /\ ranked' = seen + 1 /\ epoch' = epoch + 1
               /\ history' \in [Keys -> SUBSET Alert]
               /\ \A k \in Keys : \A b \in history'[k] : b \in history[k] \/ (b = a /\ k = key)
<1> DEFINE h == [history EXCEPT ![key] = Recent(key) \cup {a}]
<1>1. history \in [Keys -> SUBSET Alert] /\ Recent(key) \subseteq history[key]
  BY DEF Filed, TypeOK, Recent
<1>2. /\ h \in [Keys -> SUBSET Alert]
      /\ \A k \in Keys : \A b \in h[k] : b \in history[k] \/ (b = a /\ k = key)
  BY <1>1
<1>3. AddToHistory(h)
  BY DEF Accept
<1> HIDE DEF h
<1>4. CASE Cardinality(Entries(h)) <= MaxHistory
  BY <1>2, <1>3, <1>4 DEF AddToHistory, h
<1>5. CASE ~ Cardinality(Entries(h)) <= MaxHistory
  <2>1. PICK v \in Victims(h) : /\ history' = [k \in Keys |-> h[k] \ {v}]
                                /\ ranked' = seen + 1 /\ epoch' = epoch + 1
    BY <1>3, <1>5 DEF AddToHistory
  <2>2. v \in Entries(h)
    BY DEF Victims
  <2>3. history' \in [Keys -> SUBSET Alert]
        /\ \A k \in Keys : history'[k] \subseteq h[k]
    BY <1>2, <2>1
  <2> QED BY <1>2, <1>5, <2>1, <2>2, <2>3 DEF h
<1> QED BY <1>4, <1>5

\* A step that suppresses only ages the list of its key.
LEMMA SuppressEffects ==
    ASSUME Filed, NEW key \in Keys, NEW sev \in Severities, NEW event \in EventTimes,
           Suppresses(key, sev, event)
    PROVE  /\ history' = [history EXCEPT ![key] = Recent(key)]
           /\ history' \in [Keys -> SUBSET Alert]
           /\ \A k \in Keys : history'[k] \subseteq history[k]
           /\ seen' = seen + 1
           /\ UNCHANGED << ranked, counter, escalated, accepted, clock, epoch >>
           /\ \E dup \in Recent(key), path \in {"detection", "dict"} :
                /\ path = "detection" => sev <= dup.sev
                /\ suppressed' = suppressed \cup
                     {[key |-> key, sev |-> sev, proc |-> clock, path |-> path]}
<1> DEFINE a == NewAlert(key, sev, event)
<1>1. a.key = key /\ a.sev = sev
  BY DEF NewAlert
<1>2. history \in [Keys -> SUBSET Alert] /\ Recent(key) \subseteq history[key]
      /\ Duplicates(key) \subseteq Recent(key)
  BY DEF Filed, TypeOK, Recent, Duplicates
<1> HIDE DEF a
<1>3. ASSUME NEW path, Suppress(a, path)
      PROVE  /\ history' = [history EXCEPT ![key] = Recent(key)]
             /\ UNCHANGED << ranked, counter, escalated, accepted, epoch >>
             /\ suppressed' = suppressed \cup
                  {[key |-> key, sev |-> sev, proc |-> clock, path |-> path]}
  BY <1>1, <1>3 DEF Suppress
<1>4. PICK dup \in Recent(key), path \in {"detection", "dict"} :
         (path = "detection" => sev <= dup.sev) /\ Suppress(a, path)
  BY <1>2 DEF Suppresses, a
<1>5. history' = [history EXCEPT ![key] = Recent(key)]
  BY <1>3, <1>4
<1>6. history' \in [Keys -> SUBSET Alert] /\ \A k \in Keys : history'[k] \subseteq history[k]
  BY <1>2, <1>5
<1>7. seen' = seen + 1 /\ clock' = clock
  BY DEF Suppresses
<1> QED BY <1>3, <1>4, <1>5, <1>6, <1>7

\* What a step that returns an alert does besides filing it.
LEMMA AcceptsEffects ==
    ASSUME Filed, NEW key \in Keys, NEW sev \in Severities, NEW event \in EventTimes,
           Accepts(key, sev, event)
    PROVE  \E a \in Alert :
             /\ a = NewAlert(key, sev, event)
             /\ a.id = seen + 1 /\ a.key = key /\ a.sev = sev /\ a.proc = clock
             /\ seen' = seen + 1 /\ clock' = clock /\ suppressed' = suppressed
             /\ counter' = counter + 1
             /\ accepted' = accepted \cup {[alert |-> a, epoch |-> epoch]}
             /\ \/ Recent(key) = {} /\ Accept(a, {}) /\ escalated' = escalated
                \/ \E dup \in Duplicates(key) :
                     /\ sev > dup.sev /\ Accept(a, {a.id, dup.id})
                     /\ escalated' = escalated \cup {a.id, dup.id}
<1> DEFINE a == NewAlert(key, sev, event)
<1>1. a \in Alert /\ a.id = seen + 1 /\ a.key = key /\ a.sev = sev /\ a.proc = clock
  BY NewAlertFacts DEF Filed
<1>2. a = NewAlert(key, sev, event)
  OBVIOUS
<1> HIDE DEF a
<1>3. seen' = seen + 1 /\ clock' = clock
  BY DEF Accepts
<1>4. \/ Recent(key) = {} /\ Accept(a, {})
      \/ \E dup \in Duplicates(key) : sev > dup.sev /\ Accept(a, {a.id, dup.id})
  BY <1>1, <1>2 DEF Accepts
<1>5. ASSUME NEW dup, Accept(a, dup)
      PROVE  /\ suppressed' = suppressed /\ counter' = counter + 1
             /\ accepted' = accepted \cup {[alert |-> a, epoch |-> epoch]}
             /\ escalated' = escalated \cup dup
  BY <1>5 DEF Accept
<1>6. CASE Recent(key) = {} /\ Accept(a, {})
  <2>1. /\ suppressed' = suppressed /\ counter' = counter + 1
        /\ accepted' = accepted \cup {[alert |-> a, epoch |-> epoch]}
        /\ escalated' = escalated
    BY <1>5, <1>6
  <2> QED BY <1>1, <1>2, <1>3, <1>6, <2>1
<1>7. ASSUME NEW dup \in Duplicates(key), sev > dup.sev, Accept(a, {a.id, dup.id})
      PROVE  /\ suppressed' = suppressed /\ counter' = counter + 1
             /\ accepted' = accepted \cup {[alert |-> a, epoch |-> epoch]}
             /\ escalated' = escalated \cup {a.id, dup.id}
  BY <1>5, <1>7
<1> QED BY <1>1, <1>2, <1>3, <1>4, <1>6, <1>7

LEMMA FiledInductive ==
    /\ Init => Filed
    /\ Filed /\ [Next]_vars => Filed'
<1>1. ASSUME Init PROVE Filed
  BY <1>1 DEF Init, Filed, TypeOK
<1>2. ASSUME Filed, [Next]_vars PROVE Filed'
  <2>0. TypeOK
    BY <1>2 DEF Filed
  <2>1. CASE UNCHANGED vars
    BY <1>2, <2>1 DEF vars, Filed, TypeOK
  <2>2. ASSUME NEW key \in Keys, NEW sev \in Severities, NEW event \in EventTimes,
               Accepts(key, sev, event)
        PROVE  Filed'
    <3>1. PICK a \in Alert :
             /\ a.id = seen + 1 /\ a.key = key /\ a.proc = clock
             /\ seen' = seen + 1 /\ clock' = clock /\ suppressed' = suppressed
             /\ counter' = counter + 1
             /\ accepted' = accepted \cup {[alert |-> a, epoch |-> epoch]}
             /\ \/ Accept(a, {}) /\ escalated' = escalated
                \/ \E dup \in Duplicates(key) :
                     Accept(a, {a.id, dup.id}) /\ escalated' = escalated \cup {a.id, dup.id}
      BY <1>2, <2>2, AcceptsEffects
    <3>2. PICK d : Accept(a, d)
      BY <3>1
    <3>3. /\ history' \in [Keys -> SUBSET Alert]
          /\ \A k \in Keys : \A b \in history'[k] : b \in history[k] \/ (b = a /\ k = key)
      BY <1>2, <3>1, <3>2, AcceptEffects
    <3>4. \/ ranked' = ranked /\ epoch' = epoch
          \/ ranked' = seen + 1 /\ epoch' = epoch + 1
      BY <1>2, <3>1, <3>2, AcceptEffects
    <3>5. escalated' \subseteq 1..(seen + 1)
      <4>1. \A dup \in Duplicates(key) : dup.id \in 1..seen
        BY <1>2, RecentFacts DEF Duplicates
      <4>2. escalated \subseteq 1..seen /\ seen \in Nat
        BY <2>0 DEF TypeOK
      <4>3. CASE escalated' = escalated
        BY <4>2, <4>3
      <4>4. ASSUME NEW dup \in Duplicates(key), escalated' = escalated \cup {a.id, dup.id}
            PROVE  escalated' \subseteq 1..(seen + 1)
        <5>1. dup.id \in 1..seen /\ a.id = seen + 1
          BY <3>1, <4>1
        <5>2. dup.id \in 1..(seen + 1) /\ a.id \in 1..(seen + 1)
          BY <4>2, <5>1
        <5>3. escalated \subseteq 1..(seen + 1)
          BY <4>2
        <5> QED BY <4>4, <5>2, <5>3
      <4> QED BY <3>1, <4>3, <4>4
    <3>6. \A r \in accepted' : r \in accepted \/ (r.alert = a /\ r.epoch = epoch)
      BY <3>1
    <3>7. \A r \in accepted' : r.alert \in Alert /\ r.epoch \in 0..epoch'
      <4>1. \A r \in accepted : r.alert \in Alert /\ r.epoch \in 0..epoch
        BY <2>0 DEF TypeOK
      <4>2. epoch \in Nat /\ epoch' \in Nat /\ epoch <= epoch'
        BY <2>0, <3>4 DEF TypeOK
      <4> QED BY <3>6, <4>1, <4>2
    <3>8. TypeOK'
      <4>1. ranked' \in 0..seen' /\ seen' \in Nat /\ counter' \in Nat /\ clock' \in Nat /\ epoch' \in Nat
        BY <2>0, <3>1, <3>4 DEF TypeOK
      <4>2. suppressed' = suppressed
        BY <3>1
      <4> QED BY <2>0, <3>1, <3>3, <3>5, <3>7, <4>1, <4>2 DEF TypeOK
    <3>9. [alert |-> a, epoch |-> epoch] \in accepted' /\ accepted \subseteq accepted'
      BY <3>1
    <3>10. \A k \in Keys : \A b \in history'[k] : b.key = k /\ \E r \in accepted' : r.alert = b
      <4> SUFFICES ASSUME NEW k \in Keys, NEW b \in history'[k]
                   PROVE  b.key = k /\ \E r \in accepted' : r.alert = b
        OBVIOUS
      <4>1. CASE b \in history[k]
        BY <1>2, <3>9, <4>1 DEF Filed
      <4>2. CASE b = a /\ k = key
        BY <3>1, <3>9, <4>2
      <4> QED BY <3>3, <4>1, <4>2
    <3>11. \A r \in accepted : r.alert.id \in 1..seen /\ r.alert.proc <= clock
      BY <1>2 DEF Filed
    <3>12. seen \in Nat /\ clock \in Nat
      BY <2>0 DEF TypeOK
    <3>13. \A r \in accepted' : r.alert.id \in 1..seen' /\ r.alert.proc <= clock'
      BY <3>1, <3>6, <3>11, <3>12
    <3>14. ASSUME NEW r \in accepted', NEW s \in accepted', r.alert.id = s.alert.id
           PROVE  r.alert = s.alert /\ r.epoch = s.epoch
      <4>1. CASE r \in accepted /\ s \in accepted
        BY <1>2, <3>14, <4>1 DEF Filed
      <4>2. CASE r \notin accepted /\ s \notin accepted
        BY <3>6, <4>2
      <4>3. ~ (r \in accepted /\ s \notin accepted) /\ ~ (r \notin accepted /\ s \in accepted)
        BY <3>1, <3>6, <3>11, <3>12, <3>14
      <4> QED BY <4>1, <4>2, <4>3
    <3> QED BY <3>8, <3>10, <3>13, <3>14 DEF Filed
  <2>3. ASSUME NEW key \in Keys, NEW sev \in Severities, NEW event \in EventTimes,
               Suppresses(key, sev, event)
        PROVE  Filed'
    <3>1. /\ history' \in [Keys -> SUBSET Alert]
          /\ \A k \in Keys : history'[k] \subseteq history[k]
          /\ seen' = seen + 1
          /\ UNCHANGED << ranked, counter, escalated, accepted, clock, epoch >>
      BY <1>2, <2>3, SuppressEffects
    <3>2. PICK path \in {"detection", "dict"} :
             suppressed' = suppressed \cup
                {[key |-> key, sev |-> sev, proc |-> clock, path |-> path]}
      BY <1>2, <2>3, SuppressEffects
    <3>3. suppressed' \subseteq [key : Keys, sev : Severities, proc : Nat, path : {"detection", "dict"}]
      BY <2>0, <3>2 DEF TypeOK
    <3>4. seen \in Nat /\ seen' \in Nat /\ 1..seen \subseteq 1..seen' /\ 0..seen \subseteq 0..seen'
      BY <2>0, <3>1 DEF TypeOK
    <3>5. TypeOK'
      BY <2>0, <3>1, <3>3, <3>4 DEF TypeOK
    <3>6. \A r \in accepted : r.alert.id \in 1..seen' /\ r.alert.proc <= clock
      BY <1>2, <3>4 DEF Filed
    <3> QED BY <1>2, <3>1, <3>5, <3>6 DEF Filed
  <2>4. CASE ClearHistory
    <3>1. /\ history' = [k \in Keys |-> {}] /\ counter' = 0 /\ epoch' = epoch + 1
          /\ UNCHANGED << ranked, escalated, clock, seen, accepted, suppressed >>
      BY <2>4 DEF ClearHistory
    <3>2. \A r \in accepted : r.epoch \in 0..epoch'
      BY <2>0, <3>1 DEF TypeOK
    <3>3. TypeOK'
      BY <2>0, <3>1, <3>2 DEF TypeOK
    <3> QED BY <1>2, <3>1, <3>3 DEF Filed
  <2>5. CASE Tick
    <3>1. clock' = clock + 1
          /\ UNCHANGED << history, ranked, counter, escalated, seen, accepted, suppressed, epoch >>
      BY <2>5 DEF Tick
    <3>2. \A r \in accepted : r.alert.proc <= clock'
      <4>1. \A r \in accepted : r.alert.proc <= clock /\ r.alert.proc \in Nat
        BY <1>2, <2>0 DEF Filed, TypeOK, Alert
      <4>2. clock \in Nat
        BY <2>0 DEF TypeOK
      <4> QED BY <3>1, <4>1, <4>2
    <3>3. TypeOK'
      BY <2>0, <3>1 DEF TypeOK
    <3> QED BY <1>2, <3>1, <3>2, <3>3 DEF Filed
  <2> QED BY <1>2, <2>1, <2>2, <2>3, <2>4, <2>5, NextCases
<1> QED BY <1>1, <1>2

-----------------------------------------------------------------------------
(***************************************************************************)
(* What was returned since the last trim.                                  *)
(***************************************************************************)
LEMMA SinceTrimInductive ==
    /\ Init => SinceTrim
    /\ Filed /\ SinceTrim /\ [Next]_vars => SinceTrim'
<1>1. Init => SinceTrim
  BY DEF Init, SinceTrim
<1>2. ASSUME Filed, SinceTrim, [Next]_vars PROVE SinceTrim'
  <2>0. TypeOK
    BY <1>2 DEF Filed
  <2>1. /\ epoch \in Nat /\ seen \in Nat /\ clock \in Nat /\ ranked \in 0..seen
        /\ DedupWindow \in Nat /\ history \in [Keys -> SUBSET Alert]
        /\ \A r \in accepted : r.alert \in Alert /\ r.epoch \in 0..epoch
        /\ \A r \in accepted : r.alert.id \in 1..seen /\ r.alert.proc <= clock
    BY <1>2, <2>0, AlertAssumption DEF TypeOK, Filed
  <2>2. \A r \in accepted : r.alert.key \in Keys /\ r.alert.proc \in Nat
    BY <2>1 DEF Alert
  <2>3. CASE UNCHANGED vars
    BY <1>2, <2>3 DEF vars, SinceTrim
  <2>4. ASSUME NEW key \in Keys, NEW sev \in Severities, NEW event \in EventTimes,
               Accepts(key, sev, event)
        PROVE  SinceTrim'
    <3> DEFINE h(a) == [history EXCEPT ![key] = Recent(key) \cup {a}]
    <3>1. PICK a \in Alert :
             /\ a.id = seen + 1 /\ a.key = key /\ a.proc = clock
             /\ seen' = seen + 1 /\ clock' = clock
             /\ accepted' = accepted \cup {[alert |-> a, epoch |-> epoch]}
             /\ \E d : Accept(a, d)
      BY <1>2, <2>4, AcceptsEffects
    <3>2. PICK d : Accept(a, d)
      BY <3>1
    <3>3. \A r \in accepted' : r \in accepted \/ (r.alert = a /\ r.epoch = epoch)
      BY <3>1
    <3>4. CASE history' = h(a) /\ ranked' = ranked /\ epoch' = epoch
      <4>1. ASSUME NEW r \in accepted
            PROVE  /\ r.epoch = epoch => r.alert.id > ranked
                   /\ r.epoch = epoch /\ clock - r.alert.proc <= DedupWindow
                         => r.alert \in h(a)[r.alert.key]
                   /\ r.alert \in h(a)[r.alert.key] /\ r.alert.id > ranked
                         => r.epoch = epoch
        <5> DEFINE b == r.alert
        <5>1. /\ r.epoch = epoch => b.id > ranked
              /\ r.epoch = epoch /\ clock - b.proc <= DedupWindow => b \in history[b.key]
              /\ b \in history[b.key] /\ b.id > ranked => r.epoch = epoch
              /\ b \in Alert /\ b.key \in Keys /\ b.proc \in Nat /\ b.proc <= clock
              /\ b.id \in 1..seen
          BY <1>2, <2>1, <2>2 DEF SinceTrim
        <5> HIDE DEF b
        <5>2. ASSUME b \in history[b.key], clock - b.proc <= DedupWindow
              PROVE  b \in h(a)[b.key]
          <6>1. clock - b.proc \in 0..DedupWindow
            BY <2>1, <5>1, <5>2
          <6> QED BY <2>1, <5>1, <5>2, <6>1 DEF Recent, IsWithinWindow
        <5>3. b # a
          BY <2>1, <3>1, <5>1
        <5>4. b \in h(a)[b.key] => b \in history[b.key]
          BY <2>1, <5>1, <5>3 DEF Recent
        <5> QED BY <5>1, <5>2, <5>4 DEF b
      <4>2. a.id > ranked /\ a \in h(a)[a.key]
        BY <2>1, <3>1
      <4>3. ASSUME NEW r \in accepted'
            PROVE  /\ r.epoch = epoch => r.alert.id > ranked
                   /\ r.epoch = epoch /\ clock - r.alert.proc <= DedupWindow
                         => r.alert \in h(a)[r.alert.key]
                   /\ r.alert \in h(a)[r.alert.key] /\ r.alert.id > ranked
                         => r.epoch = epoch
        <5> HIDE DEF h
        <5> QED BY <3>3, <4>1, <4>2
      <4> HIDE DEF h
      <4> QED BY <3>1, <3>4, <4>3 DEF SinceTrim
    <3>5. CASE ranked' = seen + 1 /\ epoch' = epoch + 1
      <4>1. \A r \in accepted' : r.epoch # epoch' /\ ~ r.alert.id > ranked'
        BY <2>1, <3>1, <3>3, <3>5
      <4> QED BY <4>1 DEF SinceTrim
    <3>6. \/ history' = h(a) /\ ranked' = ranked /\ epoch' = epoch
          \/ ranked' = seen + 1 /\ epoch' = epoch + 1
      BY <1>2, <3>1, <3>2, AcceptEffects
    <3> QED BY <3>4, <3>5, <3>6
  <2>5. ASSUME NEW key \in Keys, NEW sev \in Severities, NEW event \in EventTimes,
               Suppresses(key, sev, event)
        PROVE  SinceTrim'
    <3>1. /\ history' = [history EXCEPT ![key] = Recent(key)]
          /\ UNCHANGED << ranked, accepted, clock, epoch >>
      BY <1>2, <2>5, SuppressEffects
    <3>2. ASSUME NEW r \in accepted, clock - r.alert.proc <= DedupWindow,
                 r.alert \in history[r.alert.key]
          PROVE  r.alert \in history'[r.alert.key]
      <4>1. clock - r.alert.proc \in 0..DedupWindow
        BY <2>1, <2>2, <3>2
      <4> QED BY <2>1, <2>2, <3>1, <3>2, <4>1 DEF Recent, IsWithinWindow
    <3>3. \A r \in accepted : history'[r.alert.key] \subseteq history[r.alert.key]
      BY <2>1, <2>2, <3>1 DEF Recent
    <3> QED BY <1>2, <3>1, <3>2, <3>3 DEF SinceTrim
  <2>6. CASE ClearHistory
    <3>1. /\ history' = [k \in Keys |-> {}] /\ epoch' = epoch + 1
          /\ UNCHANGED << ranked, clock, accepted >>
      BY <2>6 DEF ClearHistory
    <3>2. \A r \in accepted : r.epoch # epoch' /\ r.alert \notin history'[r.alert.key]
      BY <2>1, <2>2, <3>1
    <3> QED BY <3>1, <3>2 DEF SinceTrim
  <2>7. CASE Tick
    <3>1. clock' = clock + 1 /\ UNCHANGED << history, ranked, accepted, epoch >>
      BY <2>7 DEF Tick
    <3>2. \A r \in accepted :
             clock' - r.alert.proc <= DedupWindow => clock - r.alert.proc <= DedupWindow
      BY <2>1, <2>2, <3>1
    <3> QED BY <1>2, <3>1, <3>2 DEF SinceTrim
  <2> QED BY <1>2, <2>3, <2>4, <2>5, <2>6, <2>7, NextCases
<1> QED BY <1>1, <1>2

-----------------------------------------------------------------------------
(***************************************************************************)
(* The bound of the history: a trim that drops one alert is enough, since  *)
(* a step adds one.                                                        *)
(***************************************************************************)
LEMMA BoundedInductive ==
    /\ Init => Bounded
    /\ Filed /\ Bounded /\ [Next]_vars => Bounded'
<1>1. ASSUME NEW S \in SUBSET Entries(history), Bounded
      PROVE  IsFiniteSet(S) /\ Cardinality(S) \in Nat /\ Cardinality(S) <= MaxHistory
  <2>1. Cardinality(Entries(history)) \in Nat /\ Cardinality(Entries(history)) <= MaxHistory
    BY <1>1, FS_CardinalityType DEF Bounded
  <2>2. IsFiniteSet(S) /\ Cardinality(S) <= Cardinality(Entries(history))
    BY <1>1, FS_Subset DEF Bounded
  <2>3. Cardinality(S) \in Nat
    BY <2>2, FS_CardinalityType
  <2> QED BY <2>1, <2>2, <2>3, AlertAssumption
<1>2. ASSUME Init PROVE Bounded
  <2>1. Entries(history) = {}
    BY <1>2 DEF Init, Entries
  <2> QED BY <2>1, FS_EmptySet, AlertAssumption DEF Bounded
<1>3. ASSUME Filed, Bounded, [Next]_vars PROVE Bounded'
  <2>1. ASSUME NEW S \in SUBSET Entries(history), Entries(history)' = S
        PROVE  Bounded'
    BY <1>1, <1>3, <2>1 DEF Bounded
  <2>2. CASE UNCHANGED vars
    <3>1. Entries(history)' = Entries(history)
      BY <2>2 DEF vars, Entries
    <3> QED BY <2>1, <3>1
  <2>3. ASSUME NEW key \in Keys, NEW sev \in Severities, NEW event \in EventTimes,
               Accepts(key, sev, event)
        PROVE  Bounded'
    <3>1. PICK a \in Alert : a.key = key /\ \E d : Accept(a, d)
      BY <1>3, <2>3, AcceptsEffects
    <3>2. PICK d : Accept(a, d)
      BY <3>1
    <3> DEFINE h == [history EXCEPT ![key] = Recent(key) \cup {a}]
               Aged == Entries([history EXCEPT ![key] = Recent(key)])
    <3>3. Recent(key) \subseteq history[key] /\ history \in [Keys -> SUBSET Alert]
      BY <1>3 DEF Recent, Filed, TypeOK
    <3>4. Entries(h) = Aged \cup {a} /\ Aged \subseteq Entries(history)
      BY <3>3 DEF Entries
    <3>5. \/ /\ Cardinality(Entries(h)) <= MaxHistory
             /\ history' = h /\ ranked' = ranked /\ epoch' = epoch
          \/ \E v \in Entries(h) :
               /\ ~ Cardinality(Entries(h)) <= MaxHistory
               /\ history' = [k \in Keys |-> h[k] \ {v}]
               /\ ranked' = seen + 1 /\ epoch' = epoch + 1
      BY <1>3, <3>1, <3>2, AcceptEffects
    <3> HIDE DEF h, Aged
    <3>6. IsFiniteSet(Aged) /\ Cardinality(Aged) \in Nat /\ Cardinality(Aged) <= MaxHistory
      BY <1>1, <1>3, <3>4
    <3>7. /\ IsFiniteSet(Entries(h)) /\ Cardinality(Entries(h)) \in Nat
          /\ Cardinality(Entries(h)) <= MaxHistory + 1
      <4>1. /\ IsFiniteSet(Entries(h))
            /\ Cardinality(Entries(h)) = IF a \in Aged THEN Cardinality(Aged) ELSE Cardinality(Aged) + 1
        BY <3>4, <3>6, FS_AddElement
      <4> QED BY <3>6, <4>1, AlertAssumption
    <3>8. CASE Cardinality(Entries(h)) <= MaxHistory /\ history' = h
      <4>1. Entries(history)' = Entries(h)
        BY <3>8 DEF Entries
      <4> QED BY <3>7, <3>8, <4>1 DEF Bounded
    <3>9. ASSUME NEW v \in Entries(h), history' = [k \in Keys |-> h[k] \ {v}]
          PROVE  Bounded'
      <4>1. Entries(history)' = Entries(h) \ {v}
        BY <3>9 DEF Entries
      <4>2. /\ IsFiniteSet(Entries(h) \ {v})
            /\ Cardinality(Entries(h) \ {v}) = Cardinality(Entries(h)) - 1
        BY <3>7, <3>9, FS_RemoveElement
      <4> QED BY <3>7, <4>1, <4>2, AlertAssumption DEF Bounded
    <3> QED BY <3>5, <3>8, <3>9
  <2>4. ASSUME NEW key \in Keys, NEW sev \in Severities, NEW event \in EventTimes,
               Suppresses(key, sev, event)
        PROVE  Bounded'
    <3>1. \A k \in Keys : history'[k] \subseteq history[k]
      BY <1>3, <2>4, SuppressEffects
    <3>2. Entries(history)' \subseteq Entries(history)
      BY <3>1 DEF Entries
    <3> QED BY <2>1, <3>2
  <2>5. CASE ClearHistory
    <3>1. Entries(history)' = {}
      BY <2>5 DEF ClearHistory, Entries
    <3> QED BY <2>1, <3>1
  <2>6. CASE Tick
    <3>1. Entries(history)' = Entries(history)
      BY <2>6 DEF Tick, Entries
    <3> QED BY <2>1, <3>1
  <2> QED BY <1>3, <2>2, <2>3, <2>4, <2>5, <2>6, NextCases
<1> QED BY <1>2, <1>3

-----------------------------------------------------------------------------
(***************************************************************************)
(* Repeats.  When the new alert is compared with the duplicate found, any  *)
(* alert of its key returned since the last trim and still in the window   *)
(* is in the list, and the duplicate, the last of the list, is one of them *)
(* and as severe as any.                                                   *)
(***************************************************************************)
LEMMA RepeatsInductive ==
    /\ Init => RepeatsOnlyEscalate
    /\ Filed /\ SinceTrim /\ RepeatsOnlyEscalate /\ [Next]_vars => RepeatsOnlyEscalate'
<1>1. Init => RepeatsOnlyEscalate
  BY DEF Init, RepeatsOnlyEscalate
<1>2. ASSUME Filed, SinceTrim, RepeatsOnlyEscalate, [Next]_vars
      PROVE  RepeatsOnlyEscalate'
  <2>1. ASSUME accepted' = accepted PROVE RepeatsOnlyEscalate'
    BY <1>2, <2>1 DEF RepeatsOnlyEscalate
  <2>2. ASSUME NEW key \in Keys, NEW sev \in Severities, NEW event \in EventTimes,
               Accepts(key, sev, event)
        PROVE  RepeatsOnlyEscalate'
    <3>0. /\ seen \in Nat /\ ranked \in 0..seen /\ Severities \subseteq 0..3
          /\ clock \in Nat /\ DedupWindow \in Nat
          /\ \A r \in accepted : r.alert \in Alert /\ r.alert.id \in 1..seen
          /\ \A r \in accepted : r.alert.proc <= clock
      BY <1>2, AlertAssumption DEF Filed, TypeOK
    <3>1. PICK a \in Alert :
             /\ a = NewAlert(key, sev, event)
             /\ a.id = seen + 1 /\ a.key = key /\ a.sev = sev /\ a.proc = clock
             /\ seen' = seen + 1 /\ clock' = clock /\ suppressed' = suppressed
             /\ counter' = counter + 1
             /\ accepted' = accepted \cup {[alert |-> a, epoch |-> epoch]}
             /\ \/ Recent(key) = {} /\ Accept(a, {}) /\ escalated' = escalated
                \/ \E dup \in Duplicates(key) :
                     /\ sev > dup.sev /\ Accept(a, {a.id, dup.id})
                     /\ escalated' = escalated \cup {a.id, dup.id}
      BY <1>2, <2>2, AcceptsEffects
    <3>2. \A r \in accepted' : r \in accepted \/ (r.alert = a /\ r.epoch = epoch)
      BY <3>1
    <3>3. ASSUME NEW r \in accepted, r.alert.key = key, r.epoch = epoch,
                 clock - r.alert.proc <= DedupWindow
          PROVE  r.alert.sev < sev
      <4>1. /\ r.alert \in Recent(key) /\ r.alert.id > ranked /\ r.alert.id \in 1..seen
            /\ r.alert.sev \in 0..3 /\ r.alert.proc \in Nat
        <5>1. r.alert \in history[key] /\ r.alert.id > ranked
          BY <1>2, <3>3 DEF SinceTrim
        <5>2. r.alert.sev \in 0..3 /\ r.alert.proc \in Nat /\ r.alert.id \in 1..seen
              /\ r.alert.proc <= clock
          BY <3>0 DEF Alert
        <5>3. clock - r.alert.proc \in 0..DedupWindow
          BY <3>0, <3>3, <5>2
        <5> QED BY <5>1, <5>2, <5>3 DEF Recent, IsWithinWindow
      <4>2. PICK dup \in Duplicates(key) : sev > dup.sev
        BY <3>1, <4>1
      <4>3. /\ dup \in Recent(key)
            /\ \A b \in Recent(key) \ {dup} : Precedes(b, dup)
        BY DEF Duplicates
      <4>4. PICK d \in accepted : d.alert = dup
        BY <1>2, <4>3, RecentFacts
      <4>5. dup \in history[key] /\ dup.key = key /\ dup.id \in 1..seen /\ dup.sev \in 0..3
            /\ dup.proc \in Nat /\ clock - dup.proc \in 0..DedupWindow
        BY <1>2, <3>0, <4>3, RecentFacts DEF Alert
      <4>6. CASE r.alert = dup
        BY <4>2, <4>6
      <4>7. CASE r.alert # dup
        <5>1. r.alert.id < dup.id /\ dup.id > ranked
          BY <3>0, <4>1, <4>3, <4>5, <4>7 DEF Precedes
        <5>2. d.epoch = epoch
          BY <1>2, <4>4, <4>5, <5>1 DEF SinceTrim
        <5>3. dup.proc <= clock /\ dup.proc - r.alert.proc <= DedupWindow
          BY <3>0, <3>3, <4>1, <4>5
        <5>4. r.alert.sev < dup.sev
          BY <1>2, <3>3, <4>4, <4>5, <5>1, <5>2, <5>3 DEF RepeatsOnlyEscalate
        <5>5. sev \in 0..3
          BY <3>0
        <5> QED BY <4>1, <4>2, <4>5, <5>4, <5>5
      <4> QED BY <4>6, <4>7
    <3>4. ASSUME NEW r \in accepted', NEW s \in accepted',
                 r.alert.key = s.alert.key, r.alert.id < s.alert.id, r.epoch = s.epoch,
                 s.alert.proc - r.alert.proc <= DedupWindow
          PROVE  r.alert.sev < s.alert.sev
      <4>1. CASE r \in accepted /\ s \in accepted
        BY <1>2, <3>4, <4>1 DEF RepeatsOnlyEscalate
      <4>2. CASE r \in accepted /\ s.alert = a /\ s.epoch = epoch
        BY <3>1, <3>3, <3>4, <4>2
      <4>3. ~ r.alert = a
        BY <3>0, <3>1, <3>2, <3>4
      <4> QED BY <3>2, <4>1, <4>2, <4>3
    <3> QED BY <3>4 DEF RepeatsOnlyEscalate
  <2>3. ASSUME NEW key \in Keys, NEW sev \in Severities, NEW event \in EventTimes,
               Suppresses(key, sev, event)
        PROVE  accepted' = accepted
    BY <1>2, <2>3, SuppressEffects
  <2>4. CASE ClearHistory
    BY <2>1, <2>4 DEF ClearHistory
  <2>5. CASE Tick
    BY <2>1, <2>5 DEF Tick
  <2>6. CASE UNCHANGED vars
    BY <2>1, <2>6 DEF vars
  <2> QED BY <1>2, <2>1, <2>2, <2>3, <2>4, <2>5, <2>6, NextCases
<1> QED BY <1>1, <1>2

-----------------------------------------------------------------------------
(***************************************************************************)
(* What a suppressed detection and an escalated alert leave behind.        *)
(***************************************************************************)
LEMMA SuppressionInductive ==
    /\ Init => SuppressionJustified
    /\ Filed /\ SuppressionJustified /\ [Next]_vars => SuppressionJustified'
<1>1. Init => SuppressionJustified
  BY DEF Init, SuppressionJustified
<1>2. ASSUME Filed, SuppressionJustified, [Next]_vars
      PROVE  SuppressionJustified'
  <2>1. ASSUME suppressed' = suppressed, accepted \subseteq accepted'
        PROVE  SuppressionJustified'
    BY <1>2, <2>1 DEF SuppressionJustified
  <2>2. ASSUME NEW key \in Keys, NEW sev \in Severities, NEW event \in EventTimes,
               Accepts(key, sev, event)
        PROVE  suppressed' = suppressed /\ accepted \subseteq accepted'
    BY <1>2, <2>2, AcceptsEffects
  <2>3. ASSUME NEW key \in Keys, NEW sev \in Severities, NEW event \in EventTimes,
               Suppresses(key, sev, event)
        PROVE  SuppressionJustified'
    <3>1. accepted' = accepted
      BY <1>2, <2>3, SuppressEffects
    <3>2. PICK dup \in Recent(key), path \in {"detection", "dict"} :
             /\ path = "detection" => sev <= dup.sev
             /\ suppressed' = suppressed \cup
                  {[key |-> key, sev |-> sev, proc |-> clock, path |-> path]}
      BY <1>2, <2>3, SuppressEffects
    <3>3. PICK d \in accepted : d.alert = dup
      BY <1>2, RecentFacts
    <3>4. dup.key = key /\ clock - dup.proc \in 0..DedupWindow
      BY <1>2, RecentFacts
    <3>5. dup.sev \in 0..3 /\ sev \in 0..3
      <4>1. dup \in Alert
        BY <1>2, RecentFacts
      <4> QED BY <4>1, AlertAssumption DEF Alert
    <3>6. ASSUME NEW s \in suppressed'
          PROVE  \E r \in accepted :
                    /\ r.alert.key = s.key
                    /\ s.proc - r.alert.proc \in 0..DedupWindow
                    /\ s.path = "detection" => r.alert.sev >= s.sev
      <4>1. CASE s \in suppressed
        BY <1>2, <4>1 DEF SuppressionJustified
      <4>2. CASE s \notin suppressed
        <5>1. s.key = key /\ s.sev = sev /\ s.proc = clock /\ s.path = path
          BY <3>2, <4>2
        <5> QED BY <3>2, <3>3, <3>4, <3>5, <5>1
      <4> QED BY <4>1, <4>2
    <3> QED BY <3>1, <3>6 DEF SuppressionJustified
  <2>4. CASE ClearHistory
    BY <2>1, <2>4 DEF ClearHistory
  <2>5. CASE Tick
    BY <2>1, <2>5 DEF Tick
  <2>6. CASE UNCHANGED vars
    BY <2>1, <2>6 DEF vars
  <2> QED BY <1>2, <2>1, <2>2, <2>3, <2>4, <2>5, <2>6, NextCases
<1> QED BY <1>1, <1>2

LEMMA EscalationInductive ==
    /\ Init => EscalationPaired
    /\ Filed /\ EscalationPaired /\ [Next]_vars => EscalationPaired'
<1>1. Init => EscalationPaired
  BY DEF Init, EscalationPaired
<1>2. ASSUME Filed, EscalationPaired, [Next]_vars
      PROVE  EscalationPaired'
  <2>1. ASSUME escalated' = escalated, accepted \subseteq accepted'
        PROVE  EscalationPaired'
    BY <1>2, <2>1 DEF EscalationPaired
  <2>2. ASSUME NEW key \in Keys, NEW sev \in Severities, NEW event \in EventTimes,
               Accepts(key, sev, event)
        PROVE  EscalationPaired'
    <3>1. PICK a \in Alert :
             /\ a = NewAlert(key, sev, event)
             /\ a.id = seen + 1 /\ a.key = key /\ a.sev = sev /\ a.proc = clock
             /\ seen' = seen + 1 /\ clock' = clock /\ suppressed' = suppressed
             /\ counter' = counter + 1
             /\ accepted' = accepted \cup {[alert |-> a, epoch |-> epoch]}
             /\ \/ Recent(key) = {} /\ Accept(a, {}) /\ escalated' = escalated
                \/ \E dup \in Duplicates(key) :
                     /\ sev > dup.sev /\ Accept(a, {a.id, dup.id})
                     /\ escalated' = escalated \cup {a.id, dup.id}
      BY <1>2, <2>2, AcceptsEffects
    <3>2. CASE escalated' = escalated
      BY <2>1, <3>1, <3>2
    <3>3. ASSUME NEW dup \in Duplicates(key), sev > dup.sev,
                 escalated' = escalated \cup {a.id, dup.id}
          PROVE  EscalationPaired'
      <4>1. dup \in Recent(key)
        BY DEF Duplicates
      <4>2. PICK d \in accepted : d.alert = dup
        BY <1>2, <4>1, RecentFacts
      <4>3. dup.key = key /\ dup.id < a.id /\ dup.sev < a.sev
        <5>1. dup \in Alert /\ dup.key = key /\ dup.id \in 1..seen
          BY <1>2, <4>1, RecentFacts
        <5>2. seen \in Nat /\ dup.sev \in 0..3 /\ sev \in 0..3
          BY <1>2, <5>1, AlertAssumption DEF Filed, TypeOK, Alert
        <5> QED BY <3>1, <3>3, <5>1, <5>2
      <4> DEFINE n == [alert |-> a, epoch |-> epoch]
      <4>4. n \in accepted' /\ d \in accepted' /\ n.alert = a
        BY <3>1, <4>2
      <4> HIDE DEF n
      <4>5. ASSUME NEW id \in escalated'
            PROVE  \E r, s \in accepted' :
                      /\ r.alert.id \in escalated' /\ s.alert.id \in escalated'
                      /\ id \in {r.alert.id, s.alert.id}
                      /\ r.alert.key = s.alert.key
                      /\ r.alert.sev < s.alert.sev
                      /\ r.alert.id < s.alert.id
        <5>1. CASE id \in escalated
          <6>1. escalated \subseteq escalated' /\ accepted \subseteq accepted'
            BY <3>1, <3>3
          <6> QED BY <1>2, <5>1, <6>1 DEF EscalationPaired
        <5>2. CASE id \in {a.id, dup.id}
          <6>1. d.alert.id \in escalated' /\ n.alert.id \in escalated'
                /\ id \in {d.alert.id, n.alert.id}
            BY <3>3, <4>2, <4>4, <5>2
          <6> QED BY <3>1, <4>2, <4>3, <4>4, <6>1
        <5> QED BY <3>3, <5>1, <5>2
      <4> QED BY <4>5 DEF EscalationPaired
    <3> QED BY <3>1, <3>2, <3>3
  <2>3. ASSUME NEW key \in Keys, NEW sev \in Severities, NEW event \in EventTimes,
               Suppresses(key, sev, event)
        PROVE  escalated' = escalated /\ accepted' = accepted
    BY <1>2, <2>3, SuppressEffects
  <2>4. CASE ClearHistory
    BY <2>1, <2>4 DEF ClearHistory
  <2>5. CASE Tick
    BY <2>1, <2>5 DEF Tick
  <2>6. CASE UNCHANGED vars
    BY <2>1, <2>6 DEF vars
  <2> QED BY <1>2, <2>1, <2>2, <2>3, <2>4, <2>5, <2>6, NextCases
<1> QED BY <1>1, <1>2

-----------------------------------------------------------------------------
LEMMA FiledAlways == Spec => []Filed
<1>1. Init => Filed
  BY FiledInductive
<1>2. Filed /\ [Next]_vars => Filed'
  BY FiledInductive
<1> QED BY <1>1, <1>2, PTL DEF Spec

LEMMA SinceTrimAlways == Spec => []SinceTrim
<1>1. Init => SinceTrim
  BY SinceTrimInductive
<1>2. Filed /\ SinceTrim /\ [Next]_vars => SinceTrim'
  BY SinceTrimInductive
<1> QED BY <1>1, <1>2, FiledAlways, PTL DEF Spec

\* Every variable of the engine keeps its type; only ids of processed
\* detections are marked ESCALATED and ranked.
THEOREM EngineTyped == Spec => []TypeOK
<1>1. Filed => TypeOK
  BY DEF Filed
<1> QED BY <1>1, FiledAlways, PTL

\* _add_to_history keeps the history within max_history_entries, whatever the
\* bound and the event times, and files every alert it holds under its own key.
THEOREM HistoryBounded == Spec => []HistorySound
<1>1. Init => Bounded
  BY BoundedInductive
<1>2. Filed /\ Bounded /\ [Next]_vars => Bounded'
  BY BoundedInductive
<1>3. Filed /\ Bounded => HistorySound
  <2>1. ASSUME Filed, NEW k \in Keys, NEW a \in history[k]
        PROVE  a \in {r.alert : r \in accepted}
    <3>1. PICK r \in accepted : r.alert = a
      BY <2>1 DEF Filed
    <3> QED BY <3>1
  <2>2. Filed => Entries(history) \subseteq {r.alert : r \in accepted}
    BY <2>1 DEF Entries
  <2> QED BY <2>2 DEF Filed, Bounded, HistorySound
<1> QED BY <1>1, <1>2, <1>3, FiledAlways, PTL DEF Spec

\* Two alerts of a key are both returned within the deduplication window only
\* as an escalation, as long as no trim and no clear came between them.
THEOREM OnlyEscalationsRepeat == Spec => []RepeatsOnlyEscalate
<1>1. Init => RepeatsOnlyEscalate
  BY RepeatsInductive
<1>2. Filed /\ SinceTrim /\ RepeatsOnlyEscalate /\ [Next]_vars => RepeatsOnlyEscalate'
  BY RepeatsInductive
<1> QED BY <1>1, <1>2, FiledAlways, SinceTrimAlways, PTL DEF Spec

\* A detection is swallowed only for a returned alert of its key within the
\* window, on the process_detection path one at least as severe: a trim or a
\* clear_history can only make the engine repeat itself, never fall silent.
THEOREM NothingLostToDedup == Spec => []SuppressionJustified
<1>1. Init => SuppressionJustified
  BY SuppressionInductive
<1>2. Filed /\ SuppressionJustified /\ [Next]_vars => SuppressionJustified'
  BY SuppressionInductive
<1> QED BY <1>1, <1>2, FiledAlways, PTL DEF Spec

\* process_detection marks both alerts of an escalation, and nothing else ever
\* marks one.
THEOREM EscalationsComeInPairs == Spec => []EscalationPaired
<1>1. Init => EscalationPaired
  BY EscalationInductive
<1>2. Filed /\ EscalationPaired /\ [Next]_vars => EscalationPaired'
  BY EscalationInductive
<1> QED BY <1>1, <1>2, FiledAlways, PTL DEF Spec

=============================================================================
