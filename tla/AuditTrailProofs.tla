-------------------------- MODULE AuditTrailProofs --------------------------
(***************************************************************************)
(* Proofs about AuditTrail, for any number of alerts, windows, failures    *)
(* and crashes: both trails under every fault, and the refinement of       *)
(* AppendOnlyLog.  Before that, the hash chain as a value: what an append  *)
(* preserves, and what validate_chain detects.                             *)
(***************************************************************************)
EXTENDS AuditTrail, FiniteSetTheorems, TLAPS

Sound(c) == c \in Seq(ToSet(c)) /\ ValidChain(c)

-----------------------------------------------------------------------------
(***************************************************************************)
(* Chains.                                                                 *)
(***************************************************************************)
\* append_alert on a valid chain makes a valid chain, one entry longer, that
\* has the ids of the old one and the new id.
LEMMA AppendSound ==
    ASSUME NEW c, Sound(c), NEW a
    PROVE  /\ Sound(Append(c, Entry(c, a)))
           /\ Len(Append(c, Entry(c, a))) = Len(c) + 1
           /\ IdsOf(Append(c, Entry(c, a))) = IdsOf(c) \cup {a.id}
<1> DEFINE e == Entry(c, a)
           S == ToSet(c) \cup {e}
           d == Append(c, e)
<1>1. c \in Seq(S) /\ e \in S /\ Len(c) \in Nat
  BY DEF Sound
<1>2. e.index = Len(c) /\ e.id = a.id /\ e.data = DataHash(a) /\ e.previous = LastHash(c)
      /\ e.current = HashOf(e.index, e.id, e.data, e.previous)
  BY DEF Entry
<1> HIDE DEF e
<1>3. d \in Seq(S) /\ Len(d) = Len(c) + 1 /\ DOMAIN d = 1..(Len(c) + 1)
      /\ d[Len(c) + 1] = e /\ \A i \in 1..Len(c) : d[i] = c[i]
  BY <1>1
<1>4. DOMAIN c = 1..Len(c)
  BY <1>1
<1> HIDE DEF d, S
<1>5. d \in Seq(ToSet(d))
  BY <1>3 DEF ToSet
<1>6. ValidChain(d)
  <2> SUFFICES ASSUME NEW i \in DOMAIN d
               PROVE  /\ d[i].index = i - 1
                      /\ i > 1 => d[i].previous = d[i - 1].current
                      /\ d[i].current = HashOf(d[i].index, d[i].id, d[i].data, d[i].previous)
    BY DEF ValidChain
  <2>1. CASE i \in 1..Len(c)
    <3>1. d[i] = c[i] /\ (i > 1 => d[i - 1] = c[i - 1])
      BY <1>1, <1>3, <2>1
    <3> QED BY <1>4, <2>1, <3>1 DEF Sound, ValidChain
  <2>2. CASE i = Len(c) + 1
    <3>1. i > 1 => d[i - 1] = c[Len(c)] /\ c # << >>
      BY <1>1, <1>3, <2>2
    <3>2. i > 1 => e.previous = c[Len(c)].current
      BY <1>1, <1>2, <3>1 DEF LastHash, Last
    <3> QED BY <1>1, <1>2, <1>3, <2>2, <3>1, <3>2
  <2> QED BY <1>1, <1>3, <2>1, <2>2
<1>7. IdsOf(d) = IdsOf(c) \cup {a.id}
  <2>1. \A i \in 1..(Len(c) + 1) : i \in 1..Len(c) \/ i = Len(c) + 1
    BY <1>1
  <2>2. 1..Len(c) \subseteq 1..(Len(c) + 1) /\ Len(c) + 1 \in 1..(Len(c) + 1)
    BY <1>1
  <2> QED BY <1>2, <1>3, <1>4, <2>1, <2>2 DEF IdsOf
<1> QED BY <1>3, <1>5, <1>6, <1>7 DEF Sound, d, e

LEMMA EmptySound == Sound(<< >>)
BY DEF Sound, ValidChain, ToSet

LEMMA EmptyTuple == Len(<< >>) = 0
OBVIOUS

\* What is left of a window when its first alert is done.
LEMMA TailOfBatch ==
    ASSUME NEW S, NEW s \in Seq(S), s # << >>
    PROVE  /\ Head(s) \in S /\ 1 \in DOMAIN s /\ Head(s) = s[1]
           /\ Tail(s) \in Seq(S)
           /\ Len(s) # 1 => Tail(s) # << >>
           /\ \A i \in DOMAIN Tail(s) : i + 1 \in DOMAIN s /\ Tail(s)[i] = s[i + 1]
<1>1. Len(s) \in Nat /\ Len(s) # 0 /\ DOMAIN s = 1..Len(s)
  OBVIOUS
<1>2. Tail(s) \in Seq(S) /\ Len(Tail(s)) = Len(s) - 1
  BY <1>1
<1>3. ASSUME Len(s) # 1 PROVE Tail(s) # << >>
  <2>1. Len(Tail(s)) # 0
    BY <1>1, <1>2, <1>3
  <2> QED BY <2>1, EmptyTuple
<1>4. Head(s) \in S /\ 1 \in DOMAIN s /\ Head(s) = s[1]
  BY <1>1
<1>5. \A i \in DOMAIN Tail(s) : i + 1 \in DOMAIN s /\ Tail(s)[i] = s[i + 1]
  BY <1>1, <1>2
<1> QED BY <1>2, <1>3, <1>4, <1>5

\* The entries of a chain after an append, one by one.
LEMMA AppendAt ==
    ASSUME NEW c, Sound(c), NEW a, NEW d, d = Append(c, Entry(c, a))
    PROVE  /\ DOMAIN c = 1..Len(c) /\ DOMAIN d = 1..(Len(c) + 1) /\ Len(c) \in Nat
           /\ \A i \in DOMAIN c : d[i] = c[i]
           /\ d[Len(c) + 1].id = a.id /\ d[Len(c) + 1].data = a
           /\ d # << >> /\ Last(d) = d[Len(c) + 1]
<1> DEFINE e == Entry(c, a)
           S == ToSet(c) \cup {e}
<1>1. c \in Seq(S) /\ e \in S /\ Len(c) \in Nat
  BY DEF Sound
<1>2. e.id = a.id /\ e.data = a
  BY DEF Entry, DataHash
<1>0. d = Append(c, e)
  OBVIOUS
<1> HIDE DEF e
<1>3. d \in Seq(S) /\ Len(d) = Len(c) + 1 /\ DOMAIN d = 1..(Len(c) + 1)
      /\ d[Len(c) + 1] = e /\ \A i \in 1..Len(c) : d[i] = c[i]
  BY <1>0, <1>1
<1>4. DOMAIN c = 1..Len(c)
  BY <1>1
<1>5. d # << >>
  BY <1>1, <1>3, EmptyTuple
<1>6. Last(d) = d[Len(c) + 1]
  BY <1>3 DEF Last
<1> QED BY <1>1, <1>2, <1>3, <1>4, <1>5, <1>6

-----------------------------------------------------------------------------
(***************************************************************************)
(* What src/docs/THREAT-MODELS.md claims of the chain: "tampering with     *)
(* historical alert records after the fact is detectable".  The hash is    *)
(* taken to be perfect, as in the model.                                   *)
(***************************************************************************)
EntriesOver(Ids, Data, Hashes) ==
    [index : Int, id : Ids, data : Data, previous : Hashes, current : Hashes]

LEMMA EqualEntries ==
    ASSUME NEW Ids, NEW Data, NEW Hashes,
           NEW e \in EntriesOver(Ids, Data, Hashes),
           NEW f \in EntriesOver(Ids, Data, Hashes),
           e.index = f.index, e.id = f.id, e.data = f.data,
           e.previous = f.previous, e.current = f.current
    PROVE  e = f
BY DEF EntriesOver

LEMMA Concatenation ==
    ASSUME NEW S, NEW s \in Seq(S), NEW t \in Seq(S)
    PROVE  /\ DOMAIN (s \o t) = 1..(Len(s) + Len(t))
           /\ \A j \in 1..Len(s) : (s \o t)[j] = s[j]
           /\ \A j \in (Len(s) + 1)..(Len(s) + Len(t)) : (s \o t)[j] = t[j - Len(s)]
<1>1. s \o t \in Seq(S) /\ Len(s \o t) = Len(s) + Len(t)
  OBVIOUS
<1>2. DOMAIN (s \o t) = 1..(Len(s) + Len(t))
  BY <1>1
<1>3. \A j \in 1..Len(s) : (s \o t)[j] = s[j]
  OBVIOUS
<1>4. \A j \in (Len(s) + 1)..(Len(s) + Len(t)) : (s \o t)[j] = t[j - Len(s)]
  OBVIOUS
<1> QED BY <1>2, <1>3, <1>4

\* validate_chain detects that one entry was replaced by a different one,
\* wherever it is, unless it is the last and its hash was recomputed.
THEOREM AlterationDetected ==
    ASSUME NEW Ids, NEW Data, NEW Hashes,
           NEW c \in Seq(EntriesOver(Ids, Data, Hashes)), ValidChain(c),
           NEW i \in DOMAIN c, NEW e \in EntriesOver(Ids, Data, Hashes), e # c[i],
           i < Len(c) \/ e.current = c[i].current
    PROVE  ~ ValidChain([c EXCEPT ![i] = e])
<1> DEFINE d == [c EXCEPT ![i] = e]
<1> SUFFICES ASSUME ValidChain(d) PROVE FALSE
  OBVIOUS
<1>1. /\ DOMAIN d = DOMAIN c /\ d[i] = e
      /\ \A j \in DOMAIN c : j # i => d[j] = c[j]
      /\ DOMAIN c = 1..Len(c) /\ Len(c) \in Nat
      /\ c[i] \in EntriesOver(Ids, Data, Hashes)
  OBVIOUS
<1> HIDE DEF d
<1>2. e.current = c[i].current
  <2>1. CASE i < Len(c)
    <3>1. i + 1 \in DOMAIN c /\ i + 1 # i /\ i + 1 > 1 /\ (i + 1) - 1 = i
      BY <1>1, <2>1
    <3>2. c[i + 1].previous = c[i].current
      BY <3>1 DEF ValidChain
    <3>3. d[i + 1].previous = d[i].current
      BY <1>1, <3>1 DEF ValidChain
    <3> QED BY <1>1, <3>1, <3>2, <3>3
  <2> QED BY <2>1
<1>3. HashOf(e.index, e.id, e.data, e.previous)
        = HashOf(c[i].index, c[i].id, c[i].data, c[i].previous)
  BY <1>1, <1>2 DEF ValidChain
<1>4. e.index = c[i].index /\ e.id = c[i].id /\ e.data = c[i].data /\ e.previous = c[i].previous
  BY <1>3 DEF HashOf
<1>5. e = c[i]
  BY <1>1, <1>2, <1>4, EqualEntries
<1> QED BY <1>5

\* It detects that an entry was removed, unless it is the last: cutting the
\* end off leaves a valid chain.
THEOREM RemovalDetected ==
    ASSUME NEW Ids, NEW Data, NEW Hashes,
           NEW c \in Seq(EntriesOver(Ids, Data, Hashes)), ValidChain(c),
           NEW i \in DOMAIN c
    PROVE  /\ i < Len(c) => ~ ValidChain(RemoveAt(c, i))
           /\ i = Len(c) => ValidChain(RemoveAt(c, i))
<1> DEFINE left == SubSeq(c, 1, i - 1)
           right == SubSeq(c, i + 1, Len(c))
           d == left \o right
<1>1. i \in 1..Len(c) /\ Len(c) \in Nat /\ DOMAIN c = 1..Len(c)
  OBVIOUS
<1>2. /\ left \in Seq(EntriesOver(Ids, Data, Hashes)) /\ Len(left) = i - 1
      /\ \A j \in 1..(i - 1) : left[j] = c[j]
  BY <1>1
<1>3. /\ right \in Seq(EntriesOver(Ids, Data, Hashes)) /\ Len(right) = Len(c) - i
      /\ \A j \in 1..(Len(c) - i) : right[j] = c[i + j]
  BY <1>1
<1> HIDE DEF left, right
<1>4. /\ DOMAIN d = 1..(Len(c) - 1)
      /\ \A j \in 1..(i - 1) : d[j] = c[j]
      /\ \A j \in i..(Len(c) - 1) : d[j] = c[j + 1]
  <2>1. /\ DOMAIN d = 1..(Len(left) + Len(right))
        /\ \A j \in 1..Len(left) : d[j] = left[j]
        /\ \A j \in (Len(left) + 1)..(Len(left) + Len(right)) : d[j] = right[j - Len(left)]
    BY <1>2, <1>3, Concatenation
  <2> HIDE DEF d
  <2>2. \A j \in i..(Len(c) - 1) :
          j \in (Len(left) + 1)..(Len(left) + Len(right)) /\ j - Len(left) \in 1..(Len(c) - i)
            /\ i + (j - Len(left)) = j + 1
    BY <1>1, <1>2, <1>3
  <2>3. Len(left) + Len(right) = Len(c) - 1
    BY <1>1, <1>2, <1>3
  <2>4. \A j \in i..(Len(c) - 1) : d[j] = c[j + 1]
    <3> SUFFICES ASSUME NEW j \in i..(Len(c) - 1) PROVE d[j] = c[j + 1]
      OBVIOUS
    <3>1. d[j] = right[j - Len(left)]
      BY <2>1, <2>2
    <3>2. right[j - Len(left)] = c[i + (j - Len(left))]
      BY <1>3, <2>2
    <3> QED BY <2>2, <3>1, <3>2
  <2>5. \A j \in 1..(i - 1) : d[j] = c[j]
    BY <1>2, <2>1
  <2> QED BY <2>1, <2>3, <2>4, <2>5
<1> HIDE DEF d
<1>5. RemoveAt(c, i) = d
  BY DEF RemoveAt, d, left, right
<1>6. ASSUME i < Len(c), ValidChain(d) PROVE FALSE
  <2>1. i \in DOMAIN d /\ d[i] = c[i + 1] /\ i + 1 \in DOMAIN c
    BY <1>1, <1>4, <1>6
  <2>2. d[i].index = i - 1 /\ c[i + 1].index = (i + 1) - 1
    BY <1>6, <2>1 DEF ValidChain
  <2> QED BY <1>1, <2>1, <2>2
<1>7. ASSUME i = Len(c) PROVE ValidChain(d)
  <2>1. \A j \in DOMAIN d : j \in DOMAIN c /\ d[j] = c[j] /\ (j > 1 => j - 1 \in DOMAIN d)
    BY <1>1, <1>4, <1>7
  <2> QED BY <2>1 DEF ValidChain
<1> QED BY <1>5, <1>6, <1>7

-----------------------------------------------------------------------------
Reasons == {"flow_eviction_or_window_expiry", "cti_partial", "capture_queue_drops"}
Statuses == {"NEW", "ACKNOWLEDGED"}
Qualities == {"GOOD", "DEGRADED"}

Alerts == [id : Nat, zoned : {TRUE}, ran : BOOLEAN, status : Statuses,
           reasons : SUBSET Reasons, quality : Qualities]
Rows == [id : Nat, status : Statuses, quality : Qualities, reasons : SUBSET Reasons]

-----------------------------------------------------------------------------
(***************************************************************************)
(* The inductive invariant, in six parts.                                  *)
(***************************************************************************)
\* The alerts in work are the newest ones, in the order of their ids.
Shape ==
    /\ process \in {"up", "down", "refused"}
    /\ pc \in {"idle", "store", "append", "save", "write"}
    /\ issued \in 0..MaxAlerts
    /\ batch \in Seq(Alerts)
    /\ pc = "idle" <=> batch = << >>
    /\ Len(batch) <= issued
    /\ \A i \in DOMAIN batch : batch[i].id = issued - Len(batch) + i
    /\ process # "up" => pc = "idle" /\ chain = << >> /\ held = {}
    /\ process = "refused" => ~ file.readable
    /\ pc = "write" => ~ file.readable
    /\ file \in [readable : BOOLEAN, chain : {file.chain}]
    /\ ~ file.readable => file.chain = << >>

\* The id of the newest alert in the chain, or that should be there.
Reached == issued - Len(batch) + (IF pc \in {"save", "write"} THEN 1 ELSE 0)

\* A chain of alerts in the order of their ids.
Ordered(c) ==
    /\ Sound(c)
    /\ \A i \in DOMAIN c : c[i].data \in Alerts /\ c[i].data.id = c[i].id /\ c[i].id > 0
    /\ \A i, j \in DOMAIN c : i < j => c[i].id < c[j].id

\* What a restart would read is a prefix of what the process has.
Chains ==
    /\ Ordered(chain)
    /\ Ordered(FileChain)
    /\ \A i \in DOMAIN chain : chain[i].id <= Reached
    /\ \A i \in DOMAIN FileChain : FileChain[i].id <= issued
    /\ process = "up" =>
         /\ Len(FileChain) <= Len(chain)
         /\ \A i \in DOMAIN FileChain : FileChain[i] = chain[i]
    /\ pc \in {"save", "write"} => chain # << >> /\ Last(chain).data = Head(batch)

\* The entries that were completely written, as long as the file has them.
Written ==
    /\ process = "up" => saved \subseteq IdsOf(chain)
    /\ Readable => saved = IdsOf(FileChain)

\* The chain of the process, or the one that a restart would read.
Kept == IF process = "up" THEN chain ELSE FileChain

\* The ids that the database has or is excused from having.
Known == RowIds(db) \cup unstored \cup removed

\* Every alert that is done is in the chain or was kept out by a crash, and
\* every alert that came to the chain passed the database.
Accounted ==
    /\ \A id \in 1..(issued - Len(batch)) : id \in IdsOf(Kept) \cup interrupted
    /\ IdsOf(chain) \cup IdsOf(FileChain) \subseteq Known
    /\ pc # "store" => RowIds(ToSet(batch)) \subseteq Known

\* The alert of an id, as its window made it: a chain and the alerts in work
\* have it so, and a row differs from it in its status alone.
MadeFrom(row, a) ==
    row.id = a.id => row.quality = a.quality /\ row.reasons = a.reasons

Rowed ==
    /\ db \subseteq Rows
    /\ \A row \in db : row.id \in 1..issued
    /\ \A row \in db :
         /\ \A i \in DOMAIN chain : MadeFrom(row, chain[i].data)
         /\ \A i \in DOMAIN FileChain : MadeFrom(row, FileChain[i].data)
         /\ \A b \in ToSet(batch) : MadeFrom(row, b)

\* An alert that the call returned is in work or in the chain.
Handed ==
    /\ pc # "idle" => live
    /\ held \subseteq Alerts
    /\ \A a \in held :
         \/ live /\ a \in ToSet(batch)
         \/ \E i \in DOMAIN chain :
              /\ chain[i].id = a.id
              /\ chain[i].data = a \/ (~ live /\ a.quality = "DEGRADED")

-----------------------------------------------------------------------------
(***************************************************************************)
(* Shape.                                                                  *)
(***************************************************************************)
LEMMA NewAlertType ==
    ASSUME NEW id \in Nat, NEW as \in Assessments
    PROVE  NewAlert(id, as) \in Alerts /\ NewAlert(id, as).id = id
<1>1. as.ran \in BOOLEAN /\ as.reasons \in SUBSET {"flow_eviction_or_window_expiry", "cti_partial"}
  BY AuditAssumption
<1>2. as.reasons \in SUBSET Reasons
  BY <1>1 DEF Reasons
<1> QED BY <1>1, <1>2 DEF NewAlert, Alerts, Statuses, Qualities

\* What NextAlert leaves of a window.
LEMMA NextAlertShape ==
    ASSUME Shape, pc # "idle", NextAlert, issued' = issued
    PROVE  /\ pc' \in {"idle", "append"}
           /\ batch' \in Seq(Alerts)
           /\ Len(batch) \in Nat \ {0} /\ Len(batch') = Len(batch) - 1
           /\ pc' = "idle" <=> batch' = << >>
           /\ \A i \in DOMAIN batch' : batch'[i].id = issued - Len(batch') + i
<1>1. batch \in Seq(Alerts) /\ batch # << >> /\ batch' = Tail(batch)
  BY DEF Shape, NextAlert
<1>2. Len(batch) \in Nat \ {0} /\ Len(batch') = Len(batch) - 1 /\ batch' \in Seq(Alerts)
  <2>1. Len(batch) \in Nat /\ Len(batch) # 0
    BY <1>1
  <2> QED BY <1>1, <2>1
<1>3. batch' = << >> <=> Len(batch) = 1
  <2>1. Len(batch) = 1 => batch' = << >>
    BY <1>1, <1>2
  <2>2. Len(batch) # 1 => batch' # << >>
    BY <1>1, TailOfBatch
  <2> QED BY <2>1, <2>2
<1>4. ASSUME NEW i \in DOMAIN batch' PROVE batch'[i].id = issued - Len(batch') + i
  <2>1. i + 1 \in DOMAIN batch /\ batch'[i] = batch[i + 1] /\ i \in Nat
    BY <1>1, <1>2, TailOfBatch
  <2>2. batch[i + 1].id = issued - Len(batch) + (i + 1) /\ issued \in Nat
    BY <2>1 DEF Shape
  <2> QED BY <1>2, <2>1, <2>2
<1> QED BY <1>2, <1>3, <1>4 DEF NextAlert

LEMMA ShapeInductive ==
    /\ Init => Shape
    /\ Shape /\ [Next]_vars => Shape'
<1>1. ASSUME Init PROVE Shape
  BY <1>1, AuditAssumption DEF Init, Shape, Saved
<1>2. ASSUME Shape, [Next]_vars PROVE Shape'
  <2> USE <1>2 DEF Shape
  <2>1. CASE UNCHANGED vars
    BY <2>1 DEF vars
  <2>2. ASSUME NEW n \in 1..MaxBatch, NEW as \in Assessments, StartWindow(n, as) PROVE Shape'
    <3> DEFINE w == [i \in 1..n |-> NewAlert(issued + i, as)]
    <3>1. n \in Nat /\ n # 0 /\ issued \in Nat /\ issued + n \in 0..MaxAlerts
      BY <2>2, AuditAssumption DEF StartWindow
    <3>2. \A i \in 1..n : NewAlert(issued + i, as) \in Alerts /\ NewAlert(issued + i, as).id = issued + i
      <4> SUFFICES ASSUME NEW i \in 1..n
                   PROVE  NewAlert(issued + i, as) \in Alerts /\ NewAlert(issued + i, as).id = issued + i
        OBVIOUS
      <4>1. issued + i \in Nat
        BY <3>1
      <4> QED BY <4>1, NewAlertType
    <3>3. w \in Seq(Alerts) /\ Len(w) = n /\ DOMAIN w = 1..n /\ \A i \in 1..n : w[i].id = issued + i
      <4>1. w \in [1..n -> Alerts]
        BY <3>2
      <4>2. \A i \in 1..n : w[i].id = issued + i
        BY <3>2
      <4> HIDE DEF w
      <4> QED BY <3>1, <4>1, <4>2
    <3>4. /\ batch' = w /\ issued' = issued + n /\ pc' = "store" /\ process = "up"
          /\ UNCHANGED << process, chain, file >>
      BY <2>2 DEF StartWindow, Running
    <3> HIDE DEF w
    <3>5. w # << >>
      BY <3>1, <3>3, EmptyTuple
    <3>6. \A i \in DOMAIN batch' : batch'[i].id = issued' - Len(batch') + i
      BY <3>1, <3>3, <3>4
    <3> QED BY <3>1, <3>3, <3>4, <3>5, <3>6
  <2>3. CASE StoreCommit \/ StoreFail \/ AppendEntry
    BY <2>3 DEF StoreCommit, StoreFail, AppendEntry, Running
  <2>4. CASE SaveOpens
    BY <2>4 DEF SaveOpens, Running, Torn
  <2>5. CASE SaveCannotOpen \/ WriteFails
    <3>1. pc # "idle" /\ NextAlert /\ UNCHANGED << process, held, chain, file, issued >>
      BY <2>5 DEF SaveCannotOpen, WriteFails, Running
    <3> QED BY <3>1, NextAlertShape, <2>5 DEF SaveCannotOpen, WriteFails, Running
  <2>6. CASE WriteCompletes
    <3>1. pc # "idle" /\ NextAlert /\ UNCHANGED << process, held, chain, issued >> /\ file' = Saved(chain)
          /\ process = "up"
      BY <2>6 DEF WriteCompletes, Running
    <3> QED BY <3>1, NextAlertShape DEF Saved
  <2>7. CASE Crash
    BY <2>7, EmptyTuple DEF Crash
  <2>8. CASE Restart
    BY <2>8 DEF Restart, Readable
  <2>9. CASE EndCall \/ (\E reasons \in SUBSET {"capture_queue_drops"} : EndDegraded(reasons))
    BY <2>9 DEF EndCall, EndDegraded, Running
  <2>10. CASE (\E row \in db : UpdateStatus(row, "ACKNOWLEDGED") \/ DeleteAlerts({row})) \/ DeleteAlerts(db)
    BY <2>10 DEF UpdateStatus, DeleteAlerts
  <2> QED BY <2>1, <2>2, <2>3, <2>4, <2>5, <2>6, <2>7, <2>8, <2>9, <2>10 DEF Next, Persist
<1> QED BY <1>1, <1>2

-----------------------------------------------------------------------------
(***************************************************************************)
(* The chains.                                                             *)
(***************************************************************************)
LEMMA OrderedFacts ==
    ASSUME NEW c, Ordered(c)
    PROVE  /\ Sound(c) /\ ValidChain(c) /\ Len(c) \in Nat /\ DOMAIN c = 1..Len(c)
           /\ \A i \in DOMAIN c : c[i].data \in Alerts /\ c[i].data.id = c[i].id
                                   /\ c[i].id \in Nat \ {0}
           /\ \A i, j \in DOMAIN c : i < j => c[i].id < c[j].id
<1>1. Sound(c) /\ ValidChain(c) /\ Len(c) \in Nat /\ DOMAIN c = 1..Len(c)
  BY DEF Ordered, Sound
<1>2. \A i \in DOMAIN c : c[i].data \in Alerts /\ c[i].data.id = c[i].id /\ c[i].id > 0
  BY DEF Ordered
<1>3. \A a \in Alerts : a.id \in Nat
  BY DEF Alerts
<1>4. \A i \in DOMAIN c : c[i].id \in Nat /\ c[i].id # 0
  BY <1>2, <1>3
<1> QED BY <1>1, <1>2, <1>4 DEF Ordered

LEMMA OrderedAppend ==
    ASSUME NEW c, Ordered(c), NEW a \in Alerts, a.id > 0,
           \A i \in DOMAIN c : c[i].id < a.id
    PROVE  Ordered(Append(c, Entry(c, a)))
<1> DEFINE d == Append(c, Entry(c, a))
<1>1. /\ Sound(d) /\ DOMAIN c = 1..Len(c) /\ DOMAIN d = 1..(Len(c) + 1)
      /\ \A i \in DOMAIN c : d[i] = c[i]
      /\ d[Len(c) + 1].id = a.id /\ d[Len(c) + 1].data = a
  <2>1. Sound(c) /\ d = Append(c, Entry(c, a))
    BY OrderedFacts
  <2>2. Sound(d)
    BY <2>1, AppendSound
  <2> HIDE DEF d
  <2> QED BY <2>1, <2>2, AppendAt
<1>2. Len(c) \in Nat
  BY OrderedFacts
<1> HIDE DEF d
<1>3. \A i \in DOMAIN d : i \in DOMAIN c \/ i = Len(c) + 1
  BY <1>1, <1>2
<1>4. \A i \in DOMAIN d : d[i].data \in Alerts /\ d[i].data.id = d[i].id /\ d[i].id > 0
  BY <1>1, <1>3 DEF Ordered
<1>5. ASSUME NEW i \in DOMAIN d, NEW j \in DOMAIN d, i < j PROVE d[i].id < d[j].id
  <2>1. i \in DOMAIN c
    BY <1>1, <1>2, <1>5
  <2>2. CASE j \in DOMAIN c
    BY <1>1, <1>5, <2>1, <2>2 DEF Ordered
  <2>3. CASE j = Len(c) + 1
    BY <1>1, <2>1, <2>3
  <2> QED BY <1>3, <2>2, <2>3
<1> QED BY <1>1, <1>4, <1>5 DEF Ordered, d

LEMMA EmptyOrdered == Ordered(<< >>)
BY EmptySound DEF Ordered

\* The alert in work.
LEMMA HeadOfBatch ==
    ASSUME Shape, pc # "idle"
    PROVE  /\ Head(batch) \in Alerts /\ Head(batch) = batch[1] /\ 1 \in DOMAIN batch
           /\ Head(batch).id = issued - Len(batch) + 1
           /\ Head(batch).id \in 1..issued
<1>1. batch \in Seq(Alerts) /\ batch # << >> /\ issued \in Nat /\ Len(batch) \in Nat
  BY DEF Shape
<1>2. Head(batch) \in Alerts /\ Head(batch) = batch[1] /\ 1 \in DOMAIN batch
  BY <1>1, TailOfBatch
<1>3. batch[1].id = issued - Len(batch) + 1 /\ Len(batch) <= issued
  BY <1>2 DEF Shape
<1>4. Len(batch) # 0
  BY <1>1
<1> QED BY <1>1, <1>2, <1>3, <1>4

\* A step that goes on to the next alert leaves Reached as it is.
LEMMA NextAlertReached ==
    ASSUME Shape, pc \in {"save", "write"}, NextAlert, issued' = issued
    PROVE  Reached' = Reached /\ pc' \notin {"save", "write"}
<1>1. pc' \in {"idle", "append"} /\ Len(batch) \in Nat /\ Len(batch') = Len(batch) - 1
  BY NextAlertShape
<1> QED BY <1>1 DEF Reached, Shape

\* The entries of the chain after AppendEntry, one by one.
LEMMA AppendEntryAt ==
    ASSUME Chains, AppendEntry
    PROVE  /\ DOMAIN chain = 1..Len(chain) /\ Len(chain) \in Nat
           /\ DOMAIN chain' = 1..(Len(chain) + 1) /\ Len(chain') = Len(chain) + 1
           /\ \A i \in DOMAIN chain : chain'[i] = chain[i]
           /\ chain'[Len(chain) + 1].id = Head(batch).id
           /\ chain'[Len(chain) + 1].data = Head(batch)
           /\ chain' # << >> /\ Last(chain') = chain'[Len(chain) + 1]
<1> DEFINE a == Head(batch)
           d == Append(chain, Entry(chain, a))
<1>1. Sound(chain) /\ d = Append(chain, Entry(chain, a))
  BY OrderedFacts DEF Chains
<1>2. Len(d) = Len(chain) + 1
  BY <1>1, AppendSound
<1>3. chain' = d
  BY DEF AppendEntry
<1> HIDE DEF d
<1>4. /\ DOMAIN chain = 1..Len(chain) /\ DOMAIN d = 1..(Len(chain) + 1) /\ Len(chain) \in Nat
      /\ \A i \in DOMAIN chain : d[i] = chain[i]
  BY <1>1, AppendAt
<1>5. d[Len(chain) + 1].id = a.id /\ d[Len(chain) + 1].data = a
  BY <1>1, AppendAt
<1>6. d # << >>
  BY <1>1, AppendAt
<1>7. Last(d) = d[Len(chain) + 1]
  BY <1>1, AppendAt
<1> QED BY <1>2, <1>3, <1>4, <1>5, <1>6, <1>7

LEMMA ChainsInductive ==
    ASSUME Shape, Shape', Chains, [Next]_vars
    PROVE  Chains'
<1>1. ASSUME UNCHANGED << process, chain, file >>, issued' \in Nat, issued <= issued',
             Reached' = Reached,
             pc' \in {"save", "write"} =>
                pc \in {"save", "write"} /\ Head(batch)' = Head(batch)
      PROVE  Chains'
  <2>1. FileChain' = FileChain /\ process' = process /\ chain' = chain
    BY <1>1 DEF FileChain
  <2>2. \A i \in DOMAIN FileChain : FileChain[i].id <= issued'
    <3> SUFFICES ASSUME NEW i \in DOMAIN FileChain PROVE FileChain[i].id <= issued'
      OBVIOUS
    <3>1. FileChain[i].id <= issued /\ FileChain[i].id \in Nat /\ issued \in Nat
      BY OrderedFacts DEF Chains, Shape
    <3> QED BY <1>1, <3>1
  <2> QED BY <1>1, <2>1, <2>2 DEF Chains
<1>2. ASSUME AppendEntry PROVE Chains'
  <2> DEFINE a == Head(batch)
             d == Append(chain, Entry(chain, a))
  <2>1. /\ pc = "append" /\ process = "up" /\ chain' = d /\ pc' = "save"
        /\ UNCHANGED << process, batch, file, issued >>
    BY <1>2 DEF AppendEntry, Running
  <2>2. a \in Alerts /\ a.id = issued - Len(batch) + 1 /\ a.id \in 1..issued
        /\ issued \in Nat /\ Len(batch) \in Nat
    BY <2>1, HeadOfBatch DEF Shape
  <2>3. Reached = a.id - 1 /\ Reached' = a.id
    BY <2>1, <2>2 DEF Reached
  <2>4. \A i \in DOMAIN chain : chain[i].id <= Reached /\ chain[i].id \in Nat
    BY OrderedFacts DEF Chains
  <2>5. \A i \in DOMAIN chain : chain[i].id < a.id
    BY <2>2, <2>3, <2>4
  <2>6. Ordered(d)
    BY <2>2, <2>5, OrderedAppend DEF Chains
  <2>7. /\ DOMAIN chain = 1..Len(chain) /\ DOMAIN d = 1..(Len(chain) + 1)
        /\ Len(d) = Len(chain) + 1
        /\ \A i \in DOMAIN chain : d[i] = chain[i]
        /\ d[Len(chain) + 1].id = a.id /\ d[Len(chain) + 1].data = a
        /\ d # << >> /\ Last(d) = d[Len(chain) + 1]
    BY <1>2, <2>1, AppendEntryAt
  <2>8. Len(chain) \in Nat
    BY OrderedFacts DEF Chains
  <2>9. FileChain' = FileChain /\ Len(FileChain) \in Nat /\ DOMAIN FileChain = 1..Len(FileChain)
    BY <2>1, OrderedFacts DEF FileChain, Chains
  <2> HIDE DEF d
  <2>10. \A i \in DOMAIN d : d[i].id <= a.id
    BY <2>2, <2>5, <2>7, <2>8, <2>4
  <2>11. Len(FileChain) <= Len(chain) /\ \A i \in DOMAIN FileChain : FileChain[i] = chain[i]
    BY <2>1 DEF Chains
  <2>12. Len(FileChain) <= Len(d) /\ \A i \in DOMAIN FileChain : FileChain[i] = d[i]
    BY <2>7, <2>8, <2>9, <2>11
  <2>13. Ordered(FileChain) /\ \A i \in DOMAIN FileChain : FileChain[i].id <= issued
    BY DEF Chains
  <2>14. Last(chain') = Last(d) /\ Last(d).data = Head(batch)
    BY <2>1, <2>7 
  <2> QED BY <2>1, <2>3, <2>6, <2>7, <2>9, <2>10, <2>12, <2>13, <2>14 DEF Chains
<1>3. CASE WriteCompletes
  <2>1. /\ pc = "write" /\ process = "up" /\ FileChain' = chain /\ NextAlert
        /\ UNCHANGED << process, chain, issued >>
    BY <1>3 DEF WriteCompletes, Running, FileChain, Saved
  <2>2. Reached' = Reached /\ pc' \notin {"save", "write"}
    BY <2>1, NextAlertReached
  <2>3. \A i \in DOMAIN chain : chain[i].id <= issued
    <3> SUFFICES ASSUME NEW i \in DOMAIN chain PROVE chain[i].id <= issued
      OBVIOUS
    <3>1. chain[i].id <= Reached /\ chain[i].id \in Nat
      BY OrderedFacts DEF Chains
    <3>2. Reached <= issued /\ Reached \in Int /\ issued \in Nat
      <4>1. Len(batch) \in Nat \ {0} /\ issued \in Nat
        BY <2>1, NextAlertShape DEF Shape
      <4> QED BY <4>1, <2>1 DEF Reached
    <3> QED BY <3>1, <3>2
  <2>4. Len(chain) \in Nat
    BY OrderedFacts DEF Chains
  <2> QED BY <2>1, <2>2, <2>3, <2>4 DEF Chains
<1>4. CASE Crash
  <2>1. process' = "down" /\ chain' = << >> /\ pc' = "idle" /\ UNCHANGED << file, issued >>
    BY <1>4 DEF Crash
  <2>2. FileChain' = FileChain
    BY <2>1 DEF FileChain
  <2> QED BY <2>1, <2>2, EmptyOrdered DEF Chains
<1>5. CASE Restart
  <2>1. process = "down" /\ UNCHANGED << pc, batch, file, issued >> /\ pc = "idle" /\ chain = << >>
    BY <1>5 DEF Restart, Shape
  <2>2. FileChain' = FileChain /\ Len(FileChain) \in Nat
    BY <2>1, OrderedFacts DEF FileChain, Chains
  <2>3. Reached' = issued
    <3>1. batch' = << >> /\ pc' = "idle" /\ issued' = issued /\ issued \in Nat
      BY <2>1 DEF Shape
    <3> QED BY <3>1, EmptyTuple DEF Reached
  <2>4. CASE process' = "up" /\ chain' = FileChain
    BY <2>1, <2>2, <2>3, <2>4 DEF Chains
  <2>5. CASE process' = "refused" /\ chain' = chain
    BY <2>1, <2>2, <2>3, <2>5 DEF Chains
  <2> QED BY <1>5, <2>4, <2>5 DEF Restart
<1>6. ASSUME NEW n \in 1..MaxBatch, NEW as \in Assessments, StartWindow(n, as) PROVE Chains'
  <2>1. /\ pc = "idle" /\ pc' = "store" /\ issued' = issued + n
        /\ batch' = [i \in 1..n |-> NewAlert(issued + i, as)]
        /\ UNCHANGED << process, chain, file >>
    BY <1>6 DEF StartWindow, Running
  <2>2. n \in Nat /\ issued \in Nat /\ Len(batch) = 0
    BY <2>1, AuditAssumption, EmptyTuple DEF Shape
  <2>3. Len(batch') = n
    BY <2>1, <2>2
  <2>4. Reached' = Reached
    BY <2>1, <2>2, <2>3 DEF Reached
  <2>5. issued' \in Nat /\ issued <= issued' /\ pc' \notin {"save", "write"}
    BY <2>1, <2>2
  <2> QED BY <1>1, <2>1, <2>4, <2>5
<1>7. CASE SaveCannotOpen \/ WriteFails
  <2>1. /\ pc \in {"save", "write"} /\ NextAlert /\ UNCHANGED << process, chain, file, issued >>
        /\ issued \in Nat
    BY <1>7 DEF SaveCannotOpen, WriteFails, Running, Shape
  <2> QED BY <1>1, <2>1, NextAlertReached
<1>8. CASE SaveOpens
  <2>1. /\ pc = "save" /\ pc' = "write" /\ file' = Torn /\ UNCHANGED << process, batch, chain, issued >>
    BY <1>8 DEF SaveOpens, Running
  <2>2. FileChain' = << >> /\ Reached' = Reached /\ Head(batch)' = Head(batch)
    BY <2>1 DEF FileChain, Torn, Reached
  <2>3. Len(chain) \in Nat
    BY OrderedFacts DEF Chains
  <2> QED BY <2>1, <2>2, <2>3, EmptyOrdered, EmptyTuple DEF Chains
<1>9. CASE StoreCommit \/ StoreFail
  <2>1. /\ UNCHANGED << process, batch, chain, file, issued >> /\ issued \in Nat
        /\ pc = "store" /\ pc' = "append"
    BY <1>9 DEF StoreCommit, StoreFail, Running, Shape
  <2> QED BY <1>1, <2>1 DEF Reached
<1>10. CASE \/ UNCHANGED vars
            \/ EndCall
            \/ \E reasons \in SUBSET {"capture_queue_drops"} : EndDegraded(reasons)
            \/ \E row \in db : UpdateStatus(row, "ACKNOWLEDGED") \/ DeleteAlerts({row})
            \/ DeleteAlerts(db)
  <2>1. UNCHANGED << process, pc, batch, chain, file, issued >>
    BY <1>10, Zenon DEF vars, EndCall, EndDegraded, UpdateStatus, DeleteAlerts
  <2>2. issued \in Nat
    BY DEF Shape
  <2> QED BY <1>1, <2>1, <2>2 DEF Reached
<1> QED BY <1>2, <1>3, <1>4, <1>5, <1>6, <1>7, <1>8, <1>9, <1>10 DEF Next, Persist

-----------------------------------------------------------------------------
(***************************************************************************)
(* What was completely written.                                            *)
(***************************************************************************)
LEMMA WrittenInductive ==
    ASSUME Shape, Chains, Written, [Next]_vars
    PROVE  Written'
<1>1. ASSUME UNCHANGED << process, chain, file, saved >> PROVE Written'
  BY <1>1 DEF Written, Readable, FileChain
<1>2. CASE AppendEntry
  <2>1. /\ chain' = Append(chain, Entry(chain, Head(batch)))
        /\ UNCHANGED << process, file, saved >>
    BY <1>2 DEF AppendEntry
  <2>2. IdsOf(chain) \subseteq IdsOf(chain')
    BY <2>1, AppendSound, OrderedFacts DEF Chains
  <2> QED BY <2>1, <2>2 DEF Written, Readable, FileChain
<1>3. CASE SaveOpens
  <2>1. ~ Readable' /\ UNCHANGED << process, chain, saved >>
    BY <1>3 DEF SaveOpens, Readable, Torn
  <2> QED BY <2>1 DEF Written
<1>4. CASE WriteCompletes
  <2>1. process = "up" /\ FileChain' = chain /\ saved' = saved \cup IdsOf(chain)
        /\ UNCHANGED << process, chain >>
    BY <1>4 DEF WriteCompletes, Running, FileChain, Saved
  <2>2. saved' = IdsOf(chain)
    BY <2>1 DEF Written
  <2> QED BY <2>1, <2>2 DEF Written
<1>5. CASE Crash
  <2>1. process' = "down" /\ UNCHANGED << file, saved >>
    BY <1>5 DEF Crash
  <2> QED BY <2>1 DEF Written, Readable, FileChain
<1>6. CASE Restart
  <2>1. UNCHANGED << file, saved >> /\ (process' = "up" => Readable /\ chain' = FileChain)
    BY <1>6 DEF Restart
  <2> QED BY <2>1 DEF Written, Readable, FileChain
<1>7. CASE UNCHANGED vars \/ (\E n \in 1..MaxBatch, as \in Assessments : StartWindow(n, as))
  BY <1>1, <1>7 DEF vars, StartWindow
<1>8. CASE StoreCommit \/ StoreFail \/ SaveCannotOpen \/ WriteFails
  BY <1>1, <1>8 DEF StoreCommit, StoreFail, SaveCannotOpen, WriteFails
<1>9. CASE EndCall \/ (\E reasons \in SUBSET {"capture_queue_drops"} : EndDegraded(reasons))
  BY <1>1, <1>9 DEF EndCall, EndDegraded
<1>10. CASE (\E row \in db : UpdateStatus(row, "ACKNOWLEDGED") \/ DeleteAlerts({row})) \/ DeleteAlerts(db)
  BY <1>1, <1>10 DEF UpdateStatus, DeleteAlerts
<1> QED BY <1>2, <1>3, <1>4, <1>5, <1>6, <1>7, <1>8, <1>9, <1>10 DEF Next, Persist

-----------------------------------------------------------------------------
(***************************************************************************)
(* The accounts.                                                           *)
(***************************************************************************)
\* Nothing that the database knew is forgotten.
LEMMA KnownGrows ==
    ASSUME Rowed, [Next]_vars
    PROVE  Known \subseteq Known'
<1>1. CASE StoreCommit
  <2>1. db \subseteq db' /\ UNCHANGED << unstored, removed >>
    BY <1>1 DEF StoreCommit
  <2> QED BY <2>1 DEF Known, RowIds
<1>2. CASE StoreFail
  BY <1>2 DEF StoreFail, Known, RowIds
<1>3. ASSUME NEW rows \in SUBSET db, DeleteAlerts(rows) PROVE Known \subseteq Known'
  <2>1. db' = db \ rows /\ removed' = removed \cup RowIds(rows) /\ unstored' = unstored
    BY <1>3 DEF DeleteAlerts
  <2> QED BY <2>1 DEF Known, RowIds
<1>4. ASSUME NEW row \in db, UpdateStatus(row, "ACKNOWLEDGED") PROVE Known \subseteq Known'
  <2> DEFINE new == [row EXCEPT !.status = "ACKNOWLEDGED"]
  <2>1. db' = (db \ {row}) \cup {new} /\ UNCHANGED << unstored, removed >>
    BY <1>4 DEF UpdateStatus
  <2>2. new.id = row.id
    BY DEF Rowed, Rows
  <2> HIDE DEF new
  <2>3. RowIds(db) \subseteq RowIds(db')
    BY <2>1, <2>2 DEF RowIds
  <2> QED BY <2>1, <2>3 DEF Known
<1>5. ASSUME UNCHANGED << db, unstored, removed >> PROVE Known \subseteq Known'
  BY <1>5 DEF Known, RowIds
<1>6. CASE \E row \in db : UpdateStatus(row, "ACKNOWLEDGED") \/ DeleteAlerts({row})
  BY <1>3, <1>4, <1>6
<1>7. CASE DeleteAlerts(db)
  BY <1>3, <1>7
<1>8. CASE UNCHANGED vars \/ (\E n \in 1..MaxBatch, as \in Assessments : StartWindow(n, as))
  BY <1>5, <1>8 DEF vars, StartWindow
<1>9. CASE EndCall \/ (\E reasons \in SUBSET {"capture_queue_drops"} : EndDegraded(reasons))
  BY <1>5, <1>9 DEF EndCall, EndDegraded
<1>10. CASE AppendEntry \/ SaveOpens \/ SaveCannotOpen \/ WriteCompletes \/ WriteFails
  BY <1>5, <1>10 DEF AppendEntry, SaveOpens, SaveCannotOpen, WriteCompletes, WriteFails
<1>11. CASE Crash \/ Restart
  BY <1>5, <1>11 DEF Crash, Restart
<1> QED BY <1>1, <1>2, <1>6, <1>7, <1>8, <1>9, <1>10, <1>11 DEF Next, Persist

\* The alert in work and the alerts after it.
LEMMA BatchParts ==
    ASSUME Shape, pc # "idle"
    PROVE  /\ Head(batch) \in ToSet(batch)
           /\ ToSet(Tail(batch)) \subseteq ToSet(batch)
           /\ \A b \in ToSet(batch) : b = Head(batch) \/ b \in ToSet(Tail(batch))
           /\ ToSet(batch) \subseteq Alerts
           /\ \A b \in ToSet(batch) : b.id \in 1..issued /\ b.id > issued - Len(batch)
<1>1. batch \in Seq(Alerts) /\ batch # << >> /\ issued \in Nat
  BY DEF Shape
<1>2. /\ Len(batch) \in Nat \ {0} /\ DOMAIN batch = 1..Len(batch) /\ Len(batch) <= issued
      /\ 1 \in DOMAIN batch /\ Head(batch) = batch[1]
      /\ Tail(batch) \in Seq(Alerts) /\ Len(Tail(batch)) = Len(batch) - 1
      /\ \A i \in DOMAIN Tail(batch) : i + 1 \in DOMAIN batch /\ Tail(batch)[i] = batch[i + 1]
  <2>1. Len(batch) \in Nat /\ Len(batch) # 0 /\ DOMAIN batch = 1..Len(batch) /\ Len(batch) <= issued
    BY <1>1 DEF Shape
  <2>2. Tail(batch) \in Seq(Alerts) /\ Len(Tail(batch)) = Len(batch) - 1
    BY <1>1, <2>1
  <2> QED BY <1>1, <2>1, <2>2, TailOfBatch
<1>3. ToSet(Tail(batch)) \subseteq ToSet(batch)
  BY <1>2 DEF ToSet
<1>4. ASSUME NEW i \in DOMAIN batch PROVE batch[i] = Head(batch) \/ batch[i] \in ToSet(Tail(batch))
  <2>1. CASE i = 1
    BY <1>2, <2>1
  <2>2. CASE i # 1
    <3>1. i - 1 \in DOMAIN Tail(batch) /\ (i - 1) + 1 = i
      BY <1>2, <2>2
    <3>2. Tail(batch)[i - 1] = batch[i]
      BY <1>2, <3>1
    <3> QED BY <3>1, <3>2 DEF ToSet
  <2> QED BY <2>1, <2>2
<1>5. \A i \in DOMAIN batch : batch[i] \in Alerts /\ batch[i].id \in 1..issued
                               /\ batch[i].id > issued - Len(batch)
  BY <1>1, <1>2 DEF Shape
<1> QED BY <1>2, <1>3, <1>4, <1>5 DEF ToSet

\* The alert in work is the last in the chain when its entry is to be saved.
LEMMA HeadInChain ==
    ASSUME Shape, Chains, pc \in {"save", "write"}
    PROVE  \E i \in DOMAIN chain : chain[i].data = Head(batch) /\ chain[i].id = Head(batch).id
<1>1. Len(chain) \in Nat /\ DOMAIN chain = 1..Len(chain) /\ chain # << >>
      /\ Last(chain).data = Head(batch) /\ chain \in Seq(ToSet(chain))
  BY OrderedFacts DEF Chains, Sound
<1>2. Len(chain) \in DOMAIN chain /\ Last(chain) = chain[Len(chain)]
  BY <1>1 DEF Last
<1> QED BY <1>1, <1>2, OrderedFacts DEF Chains

LEMMA AccountedInductive ==
    ASSUME Shape, Shape', Chains, Rowed, Accounted, [Next]_vars
    PROVE  Accounted'
<1> USE KnownGrows
<1>0. issued \in Nat /\ Len(batch) \in Nat /\ Len(batch) <= issued
  BY DEF Shape
<1>1. ASSUME UNCHANGED << process, pc, batch, chain, file, issued, interrupted >> PROVE Accounted'
  BY <1>1 DEF Accounted, Kept, FileChain
<1>2. ASSUME NEW n \in 1..MaxBatch, NEW as \in Assessments, StartWindow(n, as) PROVE Accounted'
  <2>1. /\ pc = "idle" /\ pc' = "store" /\ issued' = issued + n
        /\ batch' = [i \in 1..n |-> NewAlert(issued + i, as)]
        /\ UNCHANGED << process, chain, file, interrupted >>
    BY <1>2 DEF StartWindow, Running
  <2>2. n \in Nat /\ Len(batch) = 0
    BY <2>1, AuditAssumption, EmptyTuple DEF Shape
  <2>3. Len(batch') = n
    BY <2>1, <2>2
  <2>4. issued' - Len(batch') = issued - Len(batch)
    BY <1>0, <2>1, <2>2, <2>3
  <2> QED BY <2>1, <2>4 DEF Accounted, Kept, FileChain
<1>3. CASE StoreCommit
  <2>1. /\ db' = db \cup {FromAlert(a) : a \in {b \in ToSet(batch) : b.id \notin RowIds(db)}}
        /\ UNCHANGED << process, batch, chain, file, issued, interrupted >>
    BY <1>3 DEF StoreCommit
  <2>2. ASSUME NEW b \in ToSet(batch) PROVE b.id \in RowIds(db')
    <3>1. CASE b.id \in RowIds(db)
      BY <2>1, <3>1 DEF RowIds
    <3>2. CASE b.id \notin RowIds(db)
      <4>1. FromAlert(b) \in db' /\ FromAlert(b).id = b.id
        BY <2>1, <3>2 DEF FromAlert
      <4> QED BY <4>1 DEF RowIds
    <3> QED BY <3>1, <3>2
  <2>3. RowIds(ToSet(batch')) \subseteq Known'
    BY <2>1, <2>2 DEF RowIds, Known
  <2> QED BY <2>1, <2>3 DEF Accounted, Kept, FileChain
<1>4. CASE StoreFail
  <2>1. /\ unstored' = unstored \cup RowIds(ToSet(batch))
        /\ UNCHANGED << process, batch, chain, file, issued, interrupted >>
    BY <1>4 DEF StoreFail
  <2>2. RowIds(ToSet(batch')) \subseteq Known'
    BY <2>1 DEF Known
  <2> QED BY <2>1, <2>2 DEF Accounted, Kept, FileChain
<1>5. CASE AppendEntry
  <2>1. /\ chain' = Append(chain, Entry(chain, Head(batch))) /\ pc = "append" /\ process = "up"
        /\ UNCHANGED << process, batch, file, issued, interrupted >>
    BY <1>5 DEF AppendEntry, Running
  <2>2. IdsOf(chain') = IdsOf(chain) \cup {Head(batch).id}
    BY <2>1, AppendSound, OrderedFacts DEF Chains
  <2>3. Head(batch).id \in Known
    BY <2>1, BatchParts DEF Accounted, RowIds
  <2> QED BY <2>1, <2>2, <2>3 DEF Accounted, Kept, FileChain
<1>6. CASE SaveOpens
  <2>1. /\ file' = Torn /\ process = "up" /\ pc = "save"
        /\ UNCHANGED << process, batch, chain, issued, interrupted >>
    BY <1>6 DEF SaveOpens, Running
  <2>2. IdsOf(FileChain') = {}
    BY <2>1 DEF FileChain, Torn, IdsOf
  <2> QED BY <2>1, <2>2 DEF Accounted, Kept
<1>7. CASE SaveCannotOpen \/ WriteCompletes \/ WriteFails
  <2>1. /\ process = "up" /\ pc \in {"save", "write"} /\ NextAlert
        /\ UNCHANGED << process, chain, issued, interrupted >>
        /\ FileChain' \in {FileChain, chain}
    BY <1>7 DEF SaveCannotOpen, WriteCompletes, WriteFails, Running, FileChain, Saved
  <2>2. batch' = Tail(batch) /\ Len(batch') = Len(batch) - 1 /\ pc' # "store"
    BY <2>1, NextAlertShape DEF NextAlert
  <2>3. RowIds(ToSet(batch')) \subseteq Known
    BY <2>1, <2>2, BatchParts DEF Accounted, RowIds
  <2>4. Head(batch).id \in IdsOf(chain) /\ Head(batch).id = issued - Len(batch) + 1
    BY <2>1, HeadInChain, HeadOfBatch DEF IdsOf
  <2>5. \A id \in 1..(issued' - Len(batch')) :
           id \in 1..(issued - Len(batch)) \/ id = Head(batch).id
    BY <1>0, <2>1, <2>2, <2>4
  <2>6. \A id \in 1..(issued' - Len(batch')) : id \in IdsOf(chain) \cup interrupted
    BY <2>1, <2>4, <2>5 DEF Accounted, Kept
  <2>7. IdsOf(FileChain') \subseteq IdsOf(FileChain) \cup IdsOf(chain)
    BY <2>1
  <2>8. IdsOf(chain) \cup IdsOf(FileChain) \subseteq Known
    BY DEF Accounted
  <2>9. IdsOf(chain)' = IdsOf(chain) /\ IdsOf(FileChain)' = IdsOf(FileChain') /\ Kept' = chain
    BY <2>1 DEF Kept, IdsOf
  <2> QED BY <2>1, <2>3, <2>6, <2>7, <2>8, <2>9 DEF Accounted
<1>8. CASE Crash
  <2>1. /\ process = "up" /\ process' = "down" /\ batch' = << >> /\ chain' = << >>
        /\ interrupted' = interrupted \cup RowIds(ToSet(batch))
             \cup (IdsOf(chain) \ (IF Readable THEN IdsOf(FileChain) ELSE {}))
        /\ UNCHANGED << file, issued >>
    BY <1>8 DEF Crash
  <2>2. Kept' = FileChain /\ FileChain' = FileChain /\ Len(batch') = 0 /\ ToSet(batch') = {}
        /\ IdsOf(chain') = {}
    BY <2>1, EmptyTuple DEF Kept, FileChain, ToSet, IdsOf
  <2>3. ASSUME NEW id \in 1..issued PROVE id \in IdsOf(FileChain) \cup interrupted'
    <3>1. CASE id \in 1..(issued - Len(batch))
      <4>1. id \in IdsOf(chain) \cup interrupted
        BY <2>1, <3>1 DEF Accounted, Kept
      <4> QED BY <2>1, <4>1
    <3>2. CASE id \notin 1..(issued - Len(batch))
      <4>1. id - (issued - Len(batch)) \in DOMAIN batch
        BY <1>0, <3>2 DEF Shape
      <4>2. batch[id - (issued - Len(batch))].id = id
        BY <1>0, <4>1 DEF Shape
      <4>3. id \in RowIds(ToSet(batch))
        BY <4>1, <4>2 DEF RowIds, ToSet
      <4> QED BY <2>1, <4>3
    <3> QED BY <3>1, <3>2
  <2>4. issued' - Len(batch') = issued
    BY <1>0, <2>1, <2>2
  <2>5. IdsOf(FileChain) \subseteq Known /\ IdsOf(FileChain)' = IdsOf(FileChain)
    BY <2>2 DEF Accounted
  <2>6. RowIds(ToSet(batch)') = {} /\ IdsOf(chain)' = {}
    BY <2>2 DEF RowIds
  <2> QED BY <2>2, <2>3, <2>4, <2>5, <2>6 DEF Accounted
<1>9. CASE Restart
  <2>1. /\ process = "down"
        /\ chain' \in {chain, FileChain}
        /\ UNCHANGED << pc, batch, file, issued, interrupted >>
    BY <1>9 DEF Restart
  <2>2. Kept' = Kept /\ FileChain' = FileChain
    BY <2>1, <1>9 DEF Kept, FileChain, Restart
  <2>3. IdsOf(chain') \cup IdsOf(FileChain') \subseteq IdsOf(chain) \cup IdsOf(FileChain)
    BY <2>1, <2>2
  <2>4. IdsOf(chain)' = IdsOf(chain') /\ IdsOf(FileChain)' = IdsOf(FileChain')
        /\ IdsOf(Kept)' = IdsOf(Kept)
    BY <2>2
  <2>5. RowIds(ToSet(batch))' = RowIds(ToSet(batch))
    BY <2>1
  <2> QED BY <2>1, <2>3, <2>4, <2>5 DEF Accounted
<1>10. CASE UNCHANGED vars
  BY <1>1, <1>10 DEF vars
<1>11. CASE EndCall \/ (\E reasons \in SUBSET {"capture_queue_drops"} : EndDegraded(reasons))
  BY <1>1, <1>11 DEF EndCall, EndDegraded
<1>12. CASE (\E row \in db : UpdateStatus(row, "ACKNOWLEDGED") \/ DeleteAlerts({row})) \/ DeleteAlerts(db)
  BY <1>1, <1>12 DEF UpdateStatus, DeleteAlerts
<1> QED BY <1>2, <1>3, <1>4, <1>5, <1>6, <1>7, <1>8, <1>9, <1>10, <1>11, <1>12 DEF Next, Persist

-----------------------------------------------------------------------------
(***************************************************************************)
(* What the chain vouches for.                                             *)
(***************************************************************************)
\* What is in a chain is older than an alert in work that is not there yet.
LEMMA ChainIsOlder ==
    ASSUME Shape, Chains, pc \in {"store", "append"}, NEW b \in ToSet(batch)
    PROVE  /\ \A i \in DOMAIN chain : chain[i].data.id # b.id
           /\ \A i \in DOMAIN FileChain : FileChain[i].data.id # b.id
<1>1. b.id \in Nat /\ b.id > issued - Len(batch) /\ process = "up"
      /\ issued \in Nat /\ Len(batch) \in Nat
  BY BatchParts DEF Shape
<1>2. \A i \in DOMAIN chain : chain[i].id <= issued - Len(batch) /\ chain[i].id \in Nat
                               /\ chain[i].data.id = chain[i].id
  <2>1. Reached = issued - Len(batch)
    BY <1>1 DEF Reached
  <2> QED BY <2>1, OrderedFacts DEF Chains
<1>3. \A i \in DOMAIN FileChain : i \in DOMAIN chain /\ FileChain[i] = chain[i]
  BY <1>1, OrderedFacts DEF Chains
<1>4. \A i \in DOMAIN chain : chain[i].data.id # b.id
  BY <1>1, <1>2
<1> QED BY <1>3, <1>4

LEMMA IdleBatch ==
    ASSUME Shape, pc = "idle"
    PROVE  ToSet(batch) = {}
BY DEF Shape, ToSet

LEMMA RowedInductive ==
    ASSUME Shape, Chains, Rowed, [Next]_vars
    PROVE  Rowed'
<1>0. issued \in Nat
  BY DEF Shape
<1>1. ASSUME db' = db, issued' \in Nat, issued' >= issued, FileChain' \in {FileChain, chain, << >>},
             \A i \in DOMAIN chain' :
                \/ i \in DOMAIN chain /\ chain'[i] = chain[i]
                \/ i \in DOMAIN FileChain /\ chain'[i] = FileChain[i]
                \/ chain'[i].data \in ToSet(batch),
             \A b \in ToSet(batch)' : b \in ToSet(batch) \/ b.id \notin 1..issued
      PROVE  Rowed'
  <2>1. \A row \in db' : row.id \in 1..issued'
    BY <1>0, <1>1 DEF Rowed
  <2>2. ASSUME NEW row \in db, NEW i \in DOMAIN chain' PROVE MadeFrom(row, chain'[i].data)
    BY <1>1 DEF Rowed
  <2>3. ASSUME NEW row \in db, NEW i \in DOMAIN FileChain' PROVE MadeFrom(row, FileChain'[i].data)
    BY <1>1 DEF Rowed
  <2>4. ASSUME NEW row \in db, NEW b \in ToSet(batch)' PROVE MadeFrom(row, b)
    <3>1. CASE b \in ToSet(batch)
      BY <3>1 DEF Rowed
    <3>2. CASE b.id \notin 1..issued
      BY <3>2 DEF Rowed, MadeFrom
    <3> QED BY <1>1, <3>1, <3>2
  <2>5. db' \subseteq Rows
    BY <1>1 DEF Rowed
  <2> QED BY <1>1, <2>1, <2>2, <2>3, <2>4, <2>5 DEF Rowed
<1>2. ASSUME NEW n \in 1..MaxBatch, NEW as \in Assessments, StartWindow(n, as) PROVE Rowed'
  <2>1. /\ issued' = issued + n /\ batch' = [i \in 1..n |-> NewAlert(issued + i, as)]
        /\ UNCHANGED << chain, file, db >> /\ FileChain' = FileChain
    BY <1>2 DEF StartWindow, FileChain
  <2>2. n \in Nat
    BY AuditAssumption
  <2>3. ASSUME NEW b \in ToSet(batch)' PROVE b.id \notin 1..issued
    <3>1. PICK i \in 1..n : b = NewAlert(issued + i, as)
      BY <2>1 DEF ToSet
    <3>2. b.id = issued + i
      BY <3>1 DEF NewAlert
    <3> QED BY <1>0, <2>2, <3>2
  <2>4. issued' \in Nat /\ issued' >= issued
    BY <1>0, <2>1, <2>2
  <2>5. \A i \in DOMAIN chain' : i \in DOMAIN chain /\ chain'[i] = chain[i]
    BY <2>1
  <2> QED BY <1>1, <2>1, <2>3, <2>4, <2>5
<1>3. CASE StoreCommit
  <2> DEFINE new == {FromAlert(a) : a \in {b \in ToSet(batch) : b.id \notin RowIds(db)}}
  <2>1. /\ db' = db \cup new /\ pc = "store"
        /\ UNCHANGED << batch, chain, file, issued >> /\ FileChain' = FileChain
    BY <1>3 DEF StoreCommit, Running, FileChain
  <2>2. ASSUME NEW row \in new
        PROVE  /\ row \in Rows /\ row.id \in 1..issued
               /\ \A i \in DOMAIN chain : MadeFrom(row, chain[i].data)
               /\ \A i \in DOMAIN FileChain : MadeFrom(row, FileChain[i].data)
               /\ \A b \in ToSet(batch) : MadeFrom(row, b)
    <3>1. PICK a \in ToSet(batch) : row = FromAlert(a)
      OBVIOUS
    <3>2. a \in Alerts /\ a.id \in 1..issued
      BY <2>1, BatchParts
    <3>3. row \in Rows /\ row.id = a.id /\ row.quality = a.quality /\ row.reasons = a.reasons
      BY <3>1, <3>2 DEF FromAlert, Alerts, Rows
    <3>4. /\ \A i \in DOMAIN chain : MadeFrom(row, chain[i].data)
          /\ \A i \in DOMAIN FileChain : MadeFrom(row, FileChain[i].data)
      BY <2>1, <3>3, ChainIsOlder DEF MadeFrom
    <3>5. ASSUME NEW b \in ToSet(batch), row.id = b.id PROVE a = b
      <4>1. PICK i \in DOMAIN batch : a = batch[i]
        BY DEF ToSet
      <4>2. PICK j \in DOMAIN batch : b = batch[j]
        BY DEF ToSet
      <4>3. a.id = issued - Len(batch) + i /\ b.id = issued - Len(batch) + j
            /\ Len(batch) \in Nat /\ i \in Nat /\ j \in Nat
        BY <4>1, <4>2 DEF Shape
      <4>4. i = j
        <5>1. a.id = b.id
          BY <3>3, <3>5
        <5> QED BY <1>0, <4>3, <5>1
      <4> QED BY <4>1, <4>2, <4>4
    <3> QED BY <3>2, <3>3, <3>4, <3>5 DEF MadeFrom
  <2> HIDE DEF new
  <2> QED BY <2>1, <2>2 DEF Rowed
<1>4. CASE StoreFail
  <2>1. UNCHANGED << db, batch, chain, file, issued >> /\ FileChain' = FileChain
    BY <1>4 DEF StoreFail, FileChain
  <2> QED BY <1>0, <1>1, <2>1
<1>5. CASE AppendEntry
  <2>1. UNCHANGED << db, batch, file, issued >> /\ FileChain' = FileChain /\ pc # "idle"
    BY <1>5 DEF AppendEntry, Running, FileChain
  <2>2. Head(batch) \in ToSet(batch)
    BY <2>1, BatchParts
  <2>3. \A i \in DOMAIN chain' : i \in DOMAIN chain \/ i = Len(chain) + 1
    BY <1>5, AppendEntryAt
  <2>4. \A i \in DOMAIN chain' :
           (i \in DOMAIN chain /\ chain'[i] = chain[i]) \/ chain'[i].data \in ToSet(batch)
    BY <1>5, <2>2, <2>3, AppendEntryAt
  <2> QED BY <1>0, <1>1, <2>1, <2>4
<1>6. CASE SaveOpens
  <2>1. UNCHANGED << db, batch, chain, issued >> /\ FileChain' = << >>
    BY <1>6 DEF SaveOpens, FileChain, Torn
  <2> QED BY <1>0, <1>1, <2>1
<1>7. CASE SaveCannotOpen \/ WriteCompletes \/ WriteFails
  <2>1. /\ pc # "idle" /\ batch' = Tail(batch) /\ UNCHANGED << db, chain, issued >>
        /\ FileChain' \in {FileChain, chain}
    BY <1>7 DEF SaveCannotOpen, WriteCompletes, WriteFails, Running, NextAlert, FileChain, Saved
  <2>2. ToSet(batch)' \subseteq ToSet(batch)
    BY <2>1, BatchParts
  <2> QED BY <1>0, <1>1, <2>1, <2>2
<1>8. CASE Crash
  <2>1. UNCHANGED << db, file, issued >> /\ chain' = << >> /\ batch' = << >> /\ FileChain' = FileChain
    BY <1>8 DEF Crash, FileChain
  <2>2. ToSet(batch)' = {} /\ DOMAIN chain' = {}
    BY <2>1 DEF ToSet
  <2> QED BY <1>0, <1>1, <2>1, <2>2
<1>9. CASE Restart
  <2>1. UNCHANGED << db, file, batch, issued >> /\ chain' \in {chain, FileChain} /\ FileChain' = FileChain
    BY <1>9 DEF Restart, FileChain
  <2> QED BY <1>0, <1>1, <2>1
<1>10. ASSUME NEW row \in db, UpdateStatus(row, "ACKNOWLEDGED") PROVE Rowed'
  <2> DEFINE new == [row EXCEPT !.status = "ACKNOWLEDGED"]
  <2>1. db' = (db \ {row}) \cup {new} /\ UNCHANGED << batch, chain, file, issued >>
        /\ FileChain' = FileChain
    BY <1>10 DEF UpdateStatus, FileChain
  <2>2. row \in Rows /\ new \in Rows /\ new.id = row.id /\ new.quality = row.quality
        /\ new.reasons = row.reasons
    BY DEF Rowed, Rows, Statuses
  <2> HIDE DEF new
  <2>3. \A a : MadeFrom(new, a) <=> MadeFrom(row, a)
    BY <2>2 DEF MadeFrom
  <2> QED BY <2>1, <2>2, <2>3 DEF Rowed
<1>11. ASSUME NEW rows \in SUBSET db, DeleteAlerts(rows) PROVE Rowed'
  <2>1. db' \subseteq db /\ UNCHANGED << batch, chain, file, issued >> /\ FileChain' = FileChain
    BY <1>11 DEF DeleteAlerts, FileChain
  <2> QED BY <2>1 DEF Rowed
<1>12. CASE \E row \in db : UpdateStatus(row, "ACKNOWLEDGED") \/ DeleteAlerts({row})
  BY <1>10, <1>11, <1>12
<1>13. CASE DeleteAlerts(db)
  BY <1>11, <1>13
<1>14. CASE UNCHANGED vars \/ EndCall \/ (\E reasons \in SUBSET {"capture_queue_drops"} : EndDegraded(reasons))
  <2>1. UNCHANGED << db, batch, chain, file, issued >>
    BY <1>14 DEF vars, EndCall, EndDegraded
  <2>2. FileChain' = FileChain
    BY <2>1 DEF FileChain
  <2> QED BY <1>0, <1>1, <2>1, <2>2
<1> QED BY <1>2, <1>3, <1>4, <1>5, <1>6, <1>7, <1>8, <1>9, <1>12, <1>13, <1>14 DEF Next, Persist

LEMMA HandedInductive ==
    ASSUME Shape, Shape', Chains, Handed, [Next]_vars
    PROVE  Handed'
<1>1. ASSUME UNCHANGED << pc, batch, held, live, chain >> PROVE Handed'
  BY <1>1 DEF Handed
<1>2. ASSUME NEW n \in 1..MaxBatch, NEW as \in Assessments, StartWindow(n, as) PROVE Handed'
  <2>1. /\ pc = "idle" /\ held' = (IF live THEN held ELSE {}) \cup ToSet(batch')
        /\ live' = TRUE /\ chain' = chain
    BY <1>2 DEF StartWindow, Running
  <2>2. ToSet(batch) = {}
    BY <2>1, IdleBatch
  <2>3. ToSet(batch') \subseteq Alerts
    BY DEF Shape, ToSet
  <2>4. ToSet(batch)' = ToSet(batch')
    BY DEF ToSet
  <2> QED BY <2>1, <2>2, <2>3, <2>4 DEF Handed
<1>3. CASE StoreCommit \/ StoreFail \/ SaveOpens
  <2>1. UNCHANGED << batch, held, live, chain >> /\ pc # "idle"
    BY <1>3 DEF StoreCommit, StoreFail, SaveOpens, Running
  <2> QED BY <2>1 DEF Handed
<1>4. CASE AppendEntry
  <2>1. UNCHANGED << batch, held, live >> /\ pc # "idle"
    BY <1>4 DEF AppendEntry, Running
  <2>2. \A i \in DOMAIN chain : i \in DOMAIN chain' /\ chain'[i] = chain[i]
    BY <1>4, AppendEntryAt
  <2> QED BY <2>1, <2>2 DEF Handed
<1>5. CASE SaveCannotOpen \/ WriteCompletes \/ WriteFails
  <2>1. /\ pc \in {"save", "write"} /\ batch' = Tail(batch) /\ UNCHANGED << held, live, chain >>
    BY <1>5 DEF SaveCannotOpen, WriteCompletes, WriteFails, Running, NextAlert
  <2>2. \A b \in ToSet(batch) : b = Head(batch) \/ b \in ToSet(batch')
    BY <2>1, BatchParts
  <2>3. \E i \in DOMAIN chain : chain[i].data = Head(batch) /\ chain[i].id = Head(batch).id
    BY <2>1, HeadInChain
  <2>4. live /\ ToSet(batch)' = ToSet(batch')
    BY <2>1 DEF Handed
  <2> QED BY <2>1, <2>2, <2>3, <2>4 DEF Handed
<1>6. CASE Crash
  BY <1>6 DEF Crash, Handed
<1>7. CASE Restart
  <2>1. UNCHANGED << pc, held, live >> /\ process = "down" /\ held = {}
    BY <1>7 DEF Restart, Shape
  <2> QED BY <2>1 DEF Handed
<1>8. CASE EndCall
  <2>1. pc = "idle" /\ live' = FALSE /\ UNCHANGED << pc, batch, held, chain >>
    BY <1>8 DEF EndCall, Running
  <2>2. ToSet(batch) = {}
    BY <2>1, IdleBatch
  <2> QED BY <2>1, <2>2 DEF Handed
<1>9. ASSUME NEW reasons \in SUBSET {"capture_queue_drops"}, EndDegraded(reasons) PROVE Handed'
  <2> DEFINE mark(a) == [a EXCEPT !.quality = "DEGRADED", !.reasons = @ \cup reasons]
  <2>1. pc = "idle" /\ live' = FALSE /\ held' = {mark(a) : a \in held} /\ UNCHANGED << pc, batch, chain >>
    BY <1>9 DEF EndDegraded, Running
  <2>2. ToSet(batch) = {}
    BY <2>1, IdleBatch
  <2>3. ASSUME NEW a \in held
        PROVE  mark(a) \in Alerts /\ mark(a).id = a.id /\ mark(a).quality = "DEGRADED"
    <3>1. a \in Alerts /\ a.reasons \cup reasons \in SUBSET Reasons
      BY DEF Handed, Alerts, Reasons
    <3> QED BY <3>1 DEF Alerts, Qualities
  <2>4. \A a \in held : \E i \in DOMAIN chain : chain[i].id = a.id
    BY <2>2 DEF Handed
  <2> HIDE DEF mark
  <2> QED BY <2>1, <2>3, <2>4 DEF Handed
<1>10. CASE UNCHANGED vars
  BY <1>1, <1>10 DEF vars
<1>11. CASE (\E row \in db : UpdateStatus(row, "ACKNOWLEDGED") \/ DeleteAlerts({row})) \/ DeleteAlerts(db)
  BY <1>1, <1>11 DEF UpdateStatus, DeleteAlerts
<1>12. CASE \E reasons \in SUBSET {"capture_queue_drops"} : EndDegraded(reasons)
  BY <1>9, <1>12
<1> QED BY <1>2, <1>3, <1>4, <1>5, <1>6, <1>7, <1>8, <1>10, <1>11, <1>12 DEF Next, Persist

-----------------------------------------------------------------------------
(***************************************************************************)
(* How far the file can be behind.                                         *)
(***************************************************************************)
\* The last entry of a chain has the id of the alert that it was made from.
LEMMA LastOfOrdered ==
    ASSUME NEW c, Ordered(c), c # << >>
    PROVE  Last(c).id = Last(c).data.id
<1>1. Len(c) \in Nat /\ DOMAIN c = 1..Len(c) /\ c \in Seq(ToSet(c))
  BY OrderedFacts DEF Sound
<1>2. Len(c) # 0
  BY <1>1
<1>3. Last(c) = c[Len(c)] /\ Len(c) \in DOMAIN c
  BY <1>1, <1>2 DEF Last
<1> QED BY <1>3, OrderedFacts

LEMMA CatchesUpInductive ==
    ASSUME Shape, Chains, SaveCatchesUp, [Next]_vars
    PROVE  SaveCatchesUp'
<1>1. ASSUME UNCHANGED << process, chain, file, unsaved >>, pc \notin {"save", "write"}
      PROVE  SaveCatchesUp'
  BY <1>1 DEF SaveCatchesUp, Saved
<1>2. CASE UNCHANGED vars
  BY <1>2 DEF vars, SaveCatchesUp, Saved
<1>3. CASE AppendEntry \/ SaveOpens
  BY <1>3 DEF AppendEntry, SaveOpens, SaveCatchesUp
<1>4. CASE WriteCompletes
  BY <1>4 DEF WriteCompletes, SaveCatchesUp, Saved
<1>5. CASE SaveCannotOpen \/ WriteFails
  <2>1. /\ pc \in {"save", "write"} /\ chain' = chain
        /\ unsaved' = unsaved \cup {Head(batch).id}
    BY <1>5 DEF SaveCannotOpen, WriteFails, Running
  <2>2. chain # << >> /\ Last(chain).data = Head(batch) /\ Ordered(chain)
    BY <2>1 DEF Chains
  <2>3. Last(chain).id = Head(batch).id
    BY <2>2, LastOfOrdered
  <2>4. chain' # << >> /\ Last(chain').id \in unsaved'
    BY <2>1, <2>2, <2>3
  <2> QED BY <2>4 DEF SaveCatchesUp
<1>6. CASE Crash
  BY <1>6 DEF Crash, SaveCatchesUp
<1>7. CASE Restart
  <2>1. file' = file /\ (process' = "up" => file.readable /\ chain' = file.chain)
    BY <1>7 DEF Restart, Readable, FileChain
  <2>2. file.readable => file = Saved(file.chain)
    BY DEF Shape, Saved
  <2>3. process' = "up" => file' = Saved(chain')
    BY <2>1, <2>2 DEF Saved
  <2> QED BY <2>3 DEF SaveCatchesUp, Saved
<1>8. CASE StoreCommit \/ StoreFail \/ (\E n \in 1..MaxBatch, as \in Assessments : StartWindow(n, as))
  BY <1>1, <1>8 DEF StoreCommit, StoreFail, StartWindow, Running
<1>9. CASE EndCall \/ (\E reasons \in SUBSET {"capture_queue_drops"} : EndDegraded(reasons))
  BY <1>1, <1>9 DEF EndCall, EndDegraded, Running
<1>10. CASE (\E row \in db : UpdateStatus(row, "ACKNOWLEDGED") \/ DeleteAlerts({row})) \/ DeleteAlerts(db)
  <2>1. UNCHANGED << process, pc, chain, file, unsaved >>
    BY <1>10 DEF UpdateStatus, DeleteAlerts
  <2> QED BY <2>1 DEF SaveCatchesUp, Saved
<1> QED BY <1>2, <1>3, <1>4, <1>5, <1>6, <1>7, <1>8, <1>9, <1>10 DEF Next, Persist

-----------------------------------------------------------------------------
(***************************************************************************)
(* The properties.                                                         *)
(***************************************************************************)
Inv == Shape /\ Chains /\ Written /\ Accounted /\ Rowed /\ Handed

LEMMA InvariantHolds == Spec => []Inv
<1>1. Init => Inv
  <2> SUFFICES ASSUME Init PROVE Inv
    OBVIOUS
  <2>1. Shape
    BY ShapeInductive
  <2>2. FileChain = << >> /\ chain = << >> /\ process = "up" /\ pc = "idle" /\ saved = {} /\ batch = << >>
        /\ issued = 0 /\ Readable /\ db = {} /\ held = {}
    BY DEF Init, FileChain, Readable, Saved
  <2>3. IdsOf(<< >>) = {} /\ Len(<< >>) = 0 /\ ToSet(<< >>) = {} /\ RowIds({}) = {}
    BY EmptyTuple DEF IdsOf, ToSet, RowIds
  <2>4. Chains
    BY <2>2, <2>3, EmptyOrdered DEF Chains
  <2>5. Written /\ Accounted
    <3>1. 1..(issued - Len(batch)) = {}
      BY <2>2, <2>3
    <3>2. IdsOf(chain) = {} /\ IdsOf(FileChain) = {} /\ RowIds(ToSet(batch)) = {}
      BY <2>2, <2>3
    <3> QED BY <2>2, <3>1, <3>2 DEF Written, Accounted
  <2>6. Rowed /\ Handed
    BY <2>2, <2>3 DEF Rowed, Handed
  <2> QED BY <2>1, <2>4, <2>5, <2>6 DEF Inv
<1>2. Inv /\ [Next]_vars => Inv'
  <2> SUFFICES ASSUME Inv, [Next]_vars PROVE Inv'
    OBVIOUS
  <2>1. Shape /\ Chains /\ Written /\ Accounted /\ Rowed /\ Handed
    BY DEF Inv
  <2>2. Shape'
    BY <2>1, ShapeInductive
  <2>3. Chains'
    BY <2>1, <2>2, ChainsInductive
  <2>4. Written'
    BY <2>1, WrittenInductive
  <2>5. Accounted'
    BY <2>1, <2>2, AccountedInductive
  <2>6. Rowed'
    BY <2>1, RowedInductive
  <2>7. Handed'
    BY <2>1, <2>2, HandedInductive
  <2> QED BY <2>2, <2>3, <2>4, <2>5, <2>6, <2>7 DEF Inv
<1> QED BY <1>1, <1>2, PTL DEF Spec

\* An alert with a different zone, ml_ran and status.
LEMMA ReadBack ==
    ASSUME NEW a \in Alerts, NEW st
    PROVE  [a EXCEPT !.zoned = FALSE, !.ran = FALSE, !.status = st]
             = [ id |-> a.id, zoned |-> FALSE, ran |-> FALSE, status |-> st,
                 reasons |-> a.reasons, quality |-> a.quality ]
<1> DEFINE R == [id : Nat, zoned : {TRUE, FALSE}, ran : BOOLEAN, status : Statuses \cup {st},
                 reasons : SUBSET Reasons, quality : Qualities]
           r == [a EXCEPT !.zoned = FALSE, !.ran = FALSE, !.status = st]
           t == [ id |-> a.id, zoned |-> FALSE, ran |-> FALSE, status |-> st,
                  reasons |-> a.reasons, quality |-> a.quality ]
<1>1. a \in R
  BY DEF Alerts
<1>2. r \in R
  BY <1>1
<1>3. t \in R
  BY <1>1
<1>4. r.id = t.id /\ r.zoned = t.zoned /\ r.ran = t.ran /\ r.status = t.status
      /\ r.reasons = t.reasons /\ r.quality = t.quality
  BY <1>1
<1> HIDE DEF r, t
<1>5. r = t
  BY <1>2, <1>3, <1>4
<1> QED BY <1>5 DEF r, t

\* Whatever storage faults and crashes come together, the chain in memory and
\* every file that can be read pass validate_chain.
THEOREM FaultsNeverBreakChain == Spec => []ChainValid
<1>1. Inv => ChainValid
  BY OrderedFacts DEF Inv, Chains, ChainValid
<1> QED BY <1>1, InvariantHolds, PTL

\* The file is always a prefix of the chain of the running process, so a
\* restart may forget entries and never invents or changes one.
THEOREM FileNeverAhead == Spec => []FileBehindMemory
<1>1. ASSUME Inv, process = "up" PROVE IsPrefix(FileChain, chain)
  <2>1. /\ Len(FileChain) \in Nat /\ Len(chain) \in Nat /\ Len(FileChain) <= Len(chain)
        /\ DOMAIN FileChain = 1..Len(FileChain)
        /\ \A i \in DOMAIN FileChain : FileChain[i] = chain[i]
    BY <1>1, OrderedFacts DEF Inv, Chains
  <2>2. SubSeq(FileChain, 1, Len(FileChain)) = [i \in 1..Len(FileChain) |-> FileChain[i]]
    BY <2>1
  <2>3. SubSeq(chain, 1, Len(FileChain)) = [i \in 1..Len(FileChain) |-> chain[i]]
    BY <2>1
  <2>4. [i \in 1..Len(FileChain) |-> FileChain[i]] = [i \in 1..Len(FileChain) |-> chain[i]]
    BY <2>1
  <2> QED BY <2>1, <2>2, <2>3, <2>4 DEF IsPrefix
<1>2. Inv => FileBehindMemory
  BY <1>1 DEF FileBehindMemory
<1> QED BY <1>2, InvariantHolds, PTL

\* No crash, restart or storage fault takes an entry away that was once
\* completely written, as long as a process starts at all.
THEOREM SavedNeverLost == Spec => []SavedSurvives
<1>1. Inv => SavedSurvives
  BY DEF Inv, Written, SavedSurvives
<1> QED BY <1>1, InvariantHolds, PTL

\* Although append_alert returns whether it saved or not, the file of a running
\* process is what the process has in memory, unless the save of the newest
\* entry failed: the first save that succeeds makes up for all that failed.
THEOREM FaultsAreCaughtUp == Spec => []SaveCatchesUp
<1>1. Init => SaveCatchesUp
  BY DEF Init, SaveCatchesUp, Saved
<1>2. Inv /\ SaveCatchesUp /\ [Next]_vars => SaveCatchesUp'
  BY CatchesUpInductive DEF Inv
<1> QED BY <1>1, <1>2, InvariantHolds, PTL DEF Spec

\* Between windows the database and the chain have the same alerts, except
\* for failed commits, deletions and what a crash cut off.
THEOREM TrailsReconcile == Spec => []TrailsAgree
<1>1. ASSUME Inv, Running("idle"), NEW id \in 1..issued
      PROVE  /\ id \in IdsOf(chain) \/ id \in interrupted
             /\ id \in IdsOf(chain) => id \in RowIds(db) \cup unstored \cup removed
  <2>1. process = "up" /\ issued - Len(batch) = issued
    BY <1>1, EmptyTuple DEF Running, Inv, Shape
  <2>2. Kept = chain /\ Accounted
    BY <1>1, <2>1 DEF Kept, Inv
  <2> QED BY <2>1, <2>2 DEF Accounted, Known
<1>2. Inv => TrailsAgree
  BY <1>1 DEF TrailsAgree
<1> QED BY <1>2, InvariantHolds, PTL

\* validate_alert accepts every alert that a call returned, or the alert was
\* marked after it was hashed; and a row agrees with the hash of its alert in
\* all that the row keeps and the operator cannot change.
THEOREM ChainVouchesForAlerts == Spec => []ChainVouches
<1>1. ASSUME Inv, Running("idle"), NEW a \in held
      PROVE  \/ Verdict(chain, a) = "valid"
             \/ ~ live /\ a.quality = "DEGRADED" /\ Verdict(chain, a) = "modified"
  <2> DEFINE entries == {i \in DOMAIN chain : chain[i].id = a.id}
  <2>1. ToSet(batch) = {}
    BY <1>1, IdleBatch DEF Running, Inv
  <2>2. PICK i \in DOMAIN chain : /\ chain[i].id = a.id
                                  /\ chain[i].data = a \/ (~ live /\ a.quality = "DEGRADED")
    BY <1>1, <2>1 DEF Inv, Handed
  <2>3. Ordered(chain)
    BY <1>1 DEF Inv, Chains
  <2>4. i \in Nat /\ \A j \in DOMAIN chain : chain[j].id = a.id => j = i
    <3> SUFFICES ASSUME NEW j \in DOMAIN chain, chain[j].id = a.id PROVE j = i /\ i \in Nat
      BY <2>2
    <3>1. i \in Nat /\ j \in Nat
      BY <2>2, <2>3, OrderedFacts
    <3>2. ~ (i < j) /\ ~ (j < i)
      <4>1. chain[i].id \in Nat /\ chain[i].id = chain[j].id
        BY <2>2, <2>3, OrderedFacts
      <4>2. i < j => chain[i].id < chain[j].id
        BY <2>3, OrderedFacts
      <4>3. j < i => chain[j].id < chain[i].id
        BY <2>3, OrderedFacts
      <4> QED BY <4>1, <4>2, <4>3
    <3> QED BY <3>1, <3>2
  <2>5. entries = {i}
    BY <2>2, <2>4
  <2>6. Min(entries) = i
    BY <2>4, <2>5 DEF Min
  <2>7. Verdict(chain, a) = IF chain[i].data # a THEN "modified" ELSE "valid"
    BY <2>5, <2>6 DEF Verdict, DataHash
  <2> QED BY <2>2, <2>7
<1>2. ASSUME Inv, NEW row \in db, NEW i \in DOMAIN chain, chain[i].id = row.id
      PROVE  ToAlert(row) = [chain[i].data EXCEPT !.zoned = FALSE, !.ran = FALSE,
                                                  !.status = row.status]
  <2>1. chain[i].data \in Alerts /\ chain[i].data.id = row.id
    BY <1>2, OrderedFacts DEF Inv, Chains
  <2>2. row.quality = chain[i].data.quality /\ row.reasons = chain[i].data.reasons
    BY <1>2, <2>1 DEF Inv, Rowed, MadeFrom
  <2>3. [chain[i].data EXCEPT !.zoned = FALSE, !.ran = FALSE, !.status = row.status]
          = [ id |-> chain[i].data.id, zoned |-> FALSE, ran |-> FALSE, status |-> row.status,
              reasons |-> chain[i].data.reasons, quality |-> chain[i].data.quality ]
    BY <2>1, ReadBack, Zenon
  <2> QED BY <2>1, <2>2, <2>3, Zenon DEF ToAlert
<1>3. Inv => ChainVouches
  BY <1>1, <1>2 DEF ChainVouches
<1> QED BY <1>3, InvariantHolds, PTL

-----------------------------------------------------------------------------
(***************************************************************************)
(* The refinement of AppendOnlyLog.                                        *)
(***************************************************************************)
\* As many ids as entries, since no id is twice in a chain.
LEMMA IdsCount ==
    ASSUME NEW c, Ordered(c)
    PROVE  IsFiniteSet(IdsOf(c)) /\ Cardinality(IdsOf(c)) = Len(c)
<1> DEFINE f == [i \in 1..Len(c) |-> c[i].id]
<1>1. Len(c) \in Nat /\ DOMAIN c = 1..Len(c) /\ \A i \in DOMAIN c : c[i].id \in Nat
  BY OrderedFacts
<1>2. \A i, j \in 1..Len(c) : c[i].id = c[j].id => i = j
  <2> SUFFICES ASSUME NEW i \in 1..Len(c), NEW j \in 1..Len(c), c[i].id = c[j].id PROVE i = j
    OBVIOUS
  <2>1. ~ (i < j) /\ ~ (j < i)
    <3>1. i < j => c[i].id < c[j].id
      BY <1>1, OrderedFacts
    <3>2. j < i => c[j].id < c[i].id
      BY <1>1, OrderedFacts
    <3> QED BY <1>1, <3>1, <3>2
  <2> QED BY <1>1, <2>1
<1>3. f \in Bijection(1..Len(c), IdsOf(c))
  <2>1. f \in [1..Len(c) -> IdsOf(c)]
    BY <1>1 DEF IdsOf
  <2>2. IsInjective(f)
    BY <1>2 DEF IsInjective
  <2>3. \A t \in IdsOf(c) : \E i \in 1..Len(c) : f[i] = t
    BY <1>1 DEF IdsOf
  <2> QED BY <2>1, <2>2, <2>3 DEF Bijection, Injection, Surjection
<1>4. ExistsBijection(1..Len(c), IdsOf(c))
  BY <1>3 DEF ExistsBijection
<1>5. Cardinality(IdsOf(c)) = Len(c)
  BY <1>1, <1>4, FS_CountingElements
<1>6. IsFiniteSet(IdsOf(c))
  BY <1>1, <1>4, FS_NatBijection
<1> QED BY <1>5, <1>6

LEMMA IdListFacts ==
    ASSUME NEW c, Ordered(c)
    PROVE  /\ IdList(c) \in Seq(Nat) /\ Len(IdList(c)) = Len(c) /\ Len(c) \in Nat
           /\ DOMAIN IdList(c) = 1..Len(c)
           /\ \A i \in 1..Len(c) : IdList(c)[i] = c[i].id
<1> DEFINE l == IdList(c)
<1>1. Len(c) \in Nat /\ DOMAIN c = 1..Len(c) /\ \A i \in DOMAIN c : c[i].id \in Nat
  BY OrderedFacts
<1>2. l \in [1..Len(c) -> Nat] /\ \A i \in 1..Len(c) : l[i] = c[i].id
  BY <1>1 DEF IdList
<1> HIDE DEF l
<1> QED BY <1>1, <1>2 DEF l

\* AppendEntry adds an id to the log.
LEMMA AppendAddsId ==
    ASSUME Chains, Chains', AppendEntry
    PROVE  IdList(chain') = Append(IdList(chain), Head(batch).id)
<1> DEFINE l == IdList(chain)
           m == IdList(chain')
           id == Head(batch).id
           n == Len(chain)
<1>1. /\ l \in Seq(Nat) /\ Len(l) = n /\ n \in Nat /\ \A i \in 1..n : l[i] = chain[i].id
  BY IdListFacts DEF Chains
<1>2. /\ m \in Seq(Nat) /\ Len(m) = n + 1 /\ \A i \in 1..(n + 1) : m[i] = chain'[i].id
  <2>1. Ordered(chain') /\ Len(chain') = n + 1
    BY AppendEntryAt DEF Chains
  <2> QED BY <2>1, IdListFacts
<1>3. /\ DOMAIN chain = 1..n /\ \A i \in 1..n : chain'[i] = chain[i]
      /\ chain'[n + 1].id = id
  BY AppendEntryAt
<1> HIDE DEF l, m, id, n
<1>4. m[n + 1] = id /\ id \in Nat
  <2>1. n + 1 \in 1..(n + 1)
    BY <1>1
  <2>2. m[n + 1] = id
    BY <1>2, <1>3, <2>1
  <2>3. m[n + 1] \in Nat
    BY <1>1, <1>2, <2>1
  <2> QED BY <2>2, <2>3
<1>5. \A i \in 1..n : m[i] = l[i]
  <2>1. \A i \in 1..n : i \in 1..(n + 1)
    BY <1>1
  <2> QED BY <1>1, <1>2, <1>3, <2>1
<1>6. m = Append(l, id)
  <2>1. /\ Append(l, id) \in Seq(Nat) /\ Len(Append(l, id)) = n + 1
        /\ \A i \in 1..n : Append(l, id)[i] = l[i]
        /\ Append(l, id)[n + 1] = id
    BY <1>1, <1>4
  <2>2. \A i \in 1..(n + 1) : i \in 1..n \/ i = n + 1
    BY <1>1
  <2>3. \A i \in 1..(n + 1) : m[i] = Append(l, id)[i]
    BY <1>4, <1>5, <2>1, <2>2
  <2> QED BY <1>1, <1>2, <2>1, <2>3
<1> QED BY <1>6 DEF l, m, id

\* What a crash leaves is the durable prefix of the log.
LEMMA CrashKeepsPrefix ==
    ASSUME Inv, process = "up", Readable
    PROVE  /\ Cardinality(saved) = Len(FileChain) /\ Len(FileChain) \in Nat
           /\ Len(FileChain) <= Len(IdList(chain))
           /\ IdList(FileChain) = SubSeq(IdList(chain), 1, Len(FileChain))
<1> DEFINE l == IdList(chain)
           f == IdList(FileChain)
           n == Len(FileChain)
<1>1. Ordered(chain) /\ Ordered(FileChain) /\ saved = IdsOf(FileChain)
  BY DEF Inv, Chains, Written
<1>2. Cardinality(saved) = n
  BY <1>1, IdsCount
<1>3. /\ n \in Nat /\ n <= Len(chain) /\ DOMAIN FileChain = 1..n
      /\ \A i \in DOMAIN FileChain : FileChain[i] = chain[i]
  BY <1>1, OrderedFacts DEF Inv, Chains
<1>4. f \in Seq(Nat) /\ Len(f) = n /\ \A i \in 1..n : f[i] = FileChain[i].id
  BY <1>1, IdListFacts
<1>5. l \in Seq(Nat) /\ Len(l) = Len(chain) /\ \A i \in 1..Len(chain) : l[i] = chain[i].id
      /\ Len(chain) \in Nat
  BY <1>1, IdListFacts
<1> HIDE DEF l, f, n
<1>6. \A i \in 1..n : f[i] = l[i]
  <2>1. \A i \in 1..n : i \in 1..Len(chain)
    BY <1>3, <1>5
  <2> QED BY <1>3, <1>4, <1>5, <2>1
<1>7. SubSeq(l, 1, n) \in Seq(Nat) /\ Len(SubSeq(l, 1, n)) = n
      /\ \A i \in 1..n : SubSeq(l, 1, n)[i] = l[i]
  BY <1>3, <1>5
<1>8. f = SubSeq(l, 1, n)
  BY <1>3, <1>4, <1>6, <1>7
<1> QED BY <1>2, <1>3, <1>5, <1>8 DEF l, f, n

\* Every step of the trail is a step of the log or changes nothing of it.
LEMMA StepRefines ==
    ASSUME Inv, Inv', [Next]_vars
    PROVE  Log!Next \/ UNCHANGED << LogEntries, LogDurable, LogStatus >>
<1>0. Shape /\ Chains /\ Written /\ Shape' /\ Chains' /\ Written'
  BY DEF Inv
<1>1. ASSUME UNCHANGED << process, chain, saved >>, process = "up" \/ file' = file
      PROVE  UNCHANGED << LogEntries, LogDurable, LogStatus >>
  <2>1. CASE process = "up"
    BY <1>1, <2>1 DEF LogEntries, LogDurable, LogStatus
  <2>2. CASE file' = file
    BY <1>1, <2>2 DEF LogEntries, LogDurable, LogStatus, Readable, FileChain
  <2> QED BY <1>1, <2>1, <2>2
<1>2. CASE AppendEntry
  <2>1. process = "up" /\ process' = "up" /\ saved' = saved /\ pc # "idle"
    BY <1>2 DEF AppendEntry, Running
  <2>2. LogEntries = IdList(chain) /\ LogEntries' = IdList(chain') /\ LogStatus = "up" /\ LogStatus' = "up"
        /\ LogDurable' = LogDurable
    BY <2>1 DEF LogEntries, LogDurable, LogStatus
  <2>3. LogEntries' = Append(LogEntries, Head(batch).id)
    BY <1>0, <1>2, <2>2, AppendAddsId
  <2>4. Head(batch).id \in AlertIds
    <3>1. Head(batch).id \in 1..issued /\ issued \in 0..MaxAlerts
      BY <1>0, <2>1, HeadOfBatch DEF Shape
    <3> QED BY <3>1, AuditAssumption DEF AlertIds
  <2> QED BY <2>2, <2>3, <2>4 DEF Log!Next, Log!Add
<1>3. CASE WriteCompletes
  <2>1. /\ process = "up" /\ process' = "up" /\ chain' = chain /\ Readable' /\ FileChain' = chain
    BY <1>3 DEF WriteCompletes, Running, Readable, FileChain, Saved
  <2>2. LogEntries = IdList(chain) /\ LogEntries' = IdList(chain) /\ LogStatus = "up" /\ LogStatus' = "up"
        /\ LogDurable = Cardinality(saved) /\ LogDurable' = Cardinality(saved')
    BY <2>1 DEF LogEntries, LogDurable, LogStatus
  <2>3. saved \subseteq IdsOf(chain) /\ saved' = IdsOf(chain) /\ Ordered(chain)
    BY <1>0, <2>1 DEF Written, Chains
  <2>4. IsFiniteSet(IdsOf(chain)) /\ Cardinality(IdsOf(chain)) = Len(chain)
        /\ Len(IdList(chain)) = Len(chain) /\ Len(chain) \in Nat
    BY <2>3, IdsCount, IdListFacts
  <2>5. Cardinality(saved) <= Len(chain) /\ Cardinality(saved) \in Nat
    BY <2>3, <2>4, FS_Subset, FS_CardinalityType
  <2>6. LogDurable' \in LogDurable..Len(LogEntries)
    BY <2>2, <2>3, <2>4, <2>5
  <2> QED BY <2>2, <2>6 DEF Log!Next, Log!Sync
<1>4. CASE Crash
  <2>1. process = "up" /\ process' = "down" /\ UNCHANGED << file, saved >>
    BY <1>4 DEF Crash
  <2>2. LogEntries = IdList(chain) /\ LogDurable = Cardinality(saved) /\ LogStatus = "up"
        /\ Readable' = Readable /\ FileChain' = FileChain
    BY <2>1 DEF LogEntries, LogDurable, LogStatus, Readable, FileChain
  <2>3. CASE Readable
    <3>1. LogEntries' = IdList(FileChain) /\ LogDurable' = Cardinality(saved) /\ LogStatus' = "down"
      BY <2>1, <2>2, <2>3 DEF LogEntries, LogDurable, LogStatus
    <3>2. /\ Cardinality(saved) = Len(FileChain) /\ Len(FileChain) \in Nat
          /\ Len(FileChain) <= Len(IdList(chain))
          /\ IdList(FileChain) = SubSeq(IdList(chain), 1, Len(FileChain))
      BY <2>1, <2>3, CrashKeepsPrefix
    <3>3. Len(IdList(chain)) \in Nat
      BY <1>0, IdListFacts DEF Chains
    <3>4. LogDurable' \in LogDurable..Len(LogEntries) /\ LogEntries' = SubSeq(LogEntries, 1, LogDurable')
      BY <2>2, <3>1, <3>2, <3>3
    <3> QED BY <2>2, <3>1, <3>4 DEF Log!Next, Log!Crash
  <2>4. CASE ~ Readable
    <3>1. LogEntries' = << >> /\ LogDurable' = 0 /\ LogStatus' = "broken"
      BY <2>1, <2>2, <2>4 DEF LogEntries, LogDurable, LogStatus
    <3> QED BY <2>2, <3>1 DEF Log!Next, Log!Break
  <2> QED BY <2>3, <2>4
<1>5. CASE Restart
  <2>1. process = "down" /\ UNCHANGED << file, saved >> /\ Readable' = Readable /\ FileChain' = FileChain
    BY <1>5 DEF Restart, Readable, FileChain
  <2>2. CASE Readable
    <3>1. process' = "up" /\ chain' = FileChain
      BY <1>5, <2>2 DEF Restart
    <3>2. LogStatus = "down" /\ LogStatus' = "up" /\ LogEntries' = LogEntries /\ LogDurable' = LogDurable
      BY <2>1, <2>2, <3>1 DEF LogEntries, LogDurable, LogStatus
    <3> QED BY <3>2 DEF Log!Next, Log!Restart
  <2>3. CASE ~ Readable
    <3>1. process' = "refused"
      BY <1>5, <2>3 DEF Restart
    <3> QED BY <2>1, <2>3, <3>1 DEF LogEntries, LogDurable, LogStatus
  <2> QED BY <2>2, <2>3
<1>6. CASE SaveOpens \/ SaveCannotOpen \/ WriteFails
  <2>1. process = "up" /\ UNCHANGED << process, chain, saved >>
    BY <1>6 DEF SaveOpens, SaveCannotOpen, WriteFails, Running
  <2> QED BY <1>1, <2>1
<1>7. CASE StoreCommit \/ StoreFail \/ (\E n \in 1..MaxBatch, as \in Assessments : StartWindow(n, as))
  <2>1. UNCHANGED << process, chain, saved, file >>
    BY <1>7 DEF StoreCommit, StoreFail, StartWindow
  <2> QED BY <1>1, <2>1
<1>8. CASE EndCall \/ (\E reasons \in SUBSET {"capture_queue_drops"} : EndDegraded(reasons))
  <2>1. UNCHANGED << process, chain, saved, file >>
    BY <1>8 DEF EndCall, EndDegraded
  <2> QED BY <1>1, <2>1
<1>9. CASE (\E row \in db : UpdateStatus(row, "ACKNOWLEDGED") \/ DeleteAlerts({row})) \/ DeleteAlerts(db)
  <2>1. UNCHANGED << process, chain, saved, file >>
    BY <1>9 DEF UpdateStatus, DeleteAlerts
  <2> QED BY <1>1, <2>1
<1>10. CASE UNCHANGED vars
  <2>1. UNCHANGED << process, chain, saved, file >>
    BY <1>10 DEF vars
  <2> QED BY <1>1, <2>1
<1> QED BY <1>2, <1>3, <1>4, <1>5, <1>6, <1>7, <1>8, <1>9, <1>10 DEF Next, Persist

\* The hash chain implements the append-only log: entries once saved survive
\* every crash in their order, or the trail is visibly broken.
THEOREM TrailIsLog == Spec => LogSpec
<1>1. Init => Log!Init
  <2> SUFFICES ASSUME Init PROVE Log!Init
    OBVIOUS
  <2>1. process = "up" /\ chain = << >> /\ saved = {}
    BY DEF Init
  <2>2. IdList(<< >>) = << >>
    <3>1. Len(IdList(<< >>)) = 0 /\ IdList(<< >>) \in Seq(Nat)
      BY EmptyOrdered, EmptyTuple, IdListFacts
    <3> QED BY <3>1
  <2>3. LogEntries = << >> /\ LogDurable = 0 /\ LogStatus = "up"
    BY <2>1, <2>2, FS_EmptySet DEF LogEntries, LogDurable, LogStatus
  <2> QED BY <2>3 DEF Log!Init
<1>2. Inv /\ Inv' /\ [Next]_vars => [Log!Next]_<< LogEntries, LogDurable, LogStatus >>
  BY StepRefines
<1> QED BY <1>1, <1>2, InvariantHolds, PTL DEF Spec, LogSpec, Log!Spec

=============================================================================
