----------------------------- MODULE AuditTrail -----------------------------
(***************************************************************************)
(* The two trails that an alert leaves: its row in the SQLite database     *)
(* (src/src/storage/database.py) and its entry in the hash chain, a list   *)
(* in memory that is written to a JSON file after every append             *)
(* (src/src/blockchain/hash_chain.py).  _process_window of pipeline.py     *)
(* writes both for the alerts of a window, one after the other.            *)
(*                                                                         *)
(* The process may crash between any two steps, and then loses its memory. *)
(* Storage may fail: a commit that raises SQLAlchemyError, a chain file    *)
(* that cannot be opened or whose writing stops half way.  The database    *)
(* commits atomically; the chain file is truncated first and then written. *)
(*                                                                         *)
(* Of an alert, its id and the fields that the storage treats differently  *)
(* are kept: whether its time stamp has a zone, ml_ran, the quality of the *)
(* observation with its reasons, and the status.  A row has no column for  *)
(* ml_ran, SQLite drops the zone of a time stamp, the status can be        *)
(* updated in the database, and process_live marks its alerts when they    *)
(* are stored and hashed already.                                          *)
(***************************************************************************)
EXTENDS HashChain

CONSTANTS
    Assessments,        \* how the alerts of a window can come: ml_ran, and
                        \* the reasons of a degradation
    MaxAlerts,          \* bound: alerts created
    MaxBatch,           \* bound: alerts of one window
    MaxFaults,          \* bound: failures of the storage
    MaxCrashes          \* bound: crashes of the process

ASSUME AuditAssumption ==
    /\ MaxAlerts \in Nat /\ MaxBatch \in Nat \ {0}
    /\ Assessments \subseteq
         [ran : BOOLEAN, reasons : SUBSET {"flow_eviction_or_window_expiry", "cti_partial"}]

VARIABLES
    process,            \* "up", "down", "refused": start-up raised on the file
    pc,                 \* where _process_window is
    batch,              \* alerts of the window not yet in both trails
    held,               \* alerts that the last call returned, as objects
    live,               \* that call still goes on
    db,                 \* rows of the alerts table
    chain,              \* HashChain.chain
    file,               \* chain file: whether it is readable, and its chain
    issued,             \* alerts created so far, the newest id
    faults, crashes,    \* bound counters
    unstored,           \* history: ids whose commit failed
    interrupted,        \* history: ids that a crash kept out of the chain
    removed,            \* history: ids deleted from the database
    saved,              \* history: ids in a chain that was completely written
    unsaved             \* history: ids whose own save failed

vars == << process, pc, batch, held, live, db, chain, file, issued, faults, crashes,
           unstored, interrupted, removed, saved, unsaved >>

-----------------------------------------------------------------------------
AlertIds == 1..MaxAlerts

\* An alert as its window hands it to the storage: a new Alert has a time
\* stamp in UTC, whichever way its event time was found.  That flows expired
\* is a reason that leaves the quality as it is.
NewAlert(id, as) ==
    [ id |-> id, zoned |-> TRUE, ran |-> as.ran, status |-> "NEW",
      reasons |-> as.reasons,
      quality |-> IF "cti_partial" \in as.reasons THEN "DEGRADED" ELSE "GOOD" ]

\* Mutant: the reasons of the degradation are not stored.
FromAlertBare(a) ==
    [ id |-> a.id, status |-> a.status, quality |-> a.quality, reasons |-> {} ]

\* AlertRecord.from_alert, with what its columns keep.
FromAlert(a) ==
    [ id |-> a.id, status |-> a.status, quality |-> a.quality, reasons |-> a.reasons ]

\* to_alert: a field without a column has its default.
ToAlert(row) ==
    [ id |-> row.id, zoned |-> FALSE, ran |-> FALSE, status |-> row.status,
      reasons |-> row.reasons, quality |-> row.quality ]

RowIds(rows) == {row.id : row \in rows}

\* The file is valid JSON or missing, which counts as an empty chain; an empty
\* chain is never written.
Saved(c) == [readable |-> TRUE, chain |-> c]
Torn == [readable |-> FALSE, chain |-> << >>]

Readable == file.readable
FileChain == file.chain

Running(label) == process = "up" /\ pc = label

Fault == faults < MaxFaults /\ faults' = faults + 1

\* append_alerts goes on to the next alert, or the window is done.
NextAlert ==
    /\ batch' = Tail(batch)
    /\ pc' = IF Len(batch) = 1 THEN "idle" ELSE "append"

-----------------------------------------------------------------------------
Init ==
    /\ process = "up"
    /\ pc = "idle"
    /\ batch = << >>
    /\ held = {}
    /\ live = FALSE
    /\ db = {}
    /\ chain = << >>
    /\ file = Saved(<< >>)
    /\ issued = 0
    /\ faults = 0
    /\ crashes = 0
    /\ unstored = {}
    /\ interrupted = {}
    /\ removed = {}
    /\ saved = {}
    /\ unsaved = {}

\* A window with n new alerts reaches the persistence step.  It is the first
\* window of a call or belongs to the one that goes on.
StartWindow(n, as) ==
    /\ Running("idle")
    /\ issued + n <= MaxAlerts
    /\ batch' = [i \in 1..n |-> NewAlert(issued + i, as)]
    /\ held' = (IF live THEN held ELSE {}) \cup ToSet(batch')
    /\ live' = TRUE
    /\ issued' = issued + n
    /\ pc' = "store"
    /\ UNCHANGED << process, db, chain, file, faults, crashes,
                    unstored, interrupted, removed, saved, unsaved >>

\* Mutant: the loop of add_alerts ends after one alert.
StoreCommitOne ==
    /\ Running("store")
    /\ db' = db \cup {FromAlert(Head(batch))}
    /\ pc' = "append"
    /\ UNCHANGED << process, batch, held, live, chain, file, issued, faults, crashes,
                    unstored, interrupted, removed, saved, unsaved >>

\* add_alerts commits all alerts of the window that are not stored yet.
StoreCommit ==
    /\ Running("store")
    /\ db' = db \cup {FromAlert(a) :
                       a \in {b \in ToSet(batch) : b.id \notin RowIds(db)}}
    /\ pc' = "append"
    /\ UNCHANGED << process, batch, held, live, chain, file, issued, faults, crashes,
                    unstored, interrupted, removed, saved, unsaved >>

\* The commit fails, add_alerts rolls back and returns 0; the caller goes on.
StoreFail ==
    /\ Running("store")
    /\ Fault
    /\ unstored' = unstored \cup RowIds(ToSet(batch))
    /\ pc' = "append"
    /\ UNCHANGED << process, batch, held, live, db, chain, file, issued, crashes,
                    interrupted, removed, saved, unsaved >>

\* append_alert adds the entry in memory and calls _save_chain.
AppendEntry ==
    /\ Running("append")
    /\ chain' = Append(chain, Entry(chain, Head(batch)))
    /\ pc' = "save"
    /\ UNCHANGED << process, batch, held, live, db, file, issued, faults, crashes,
                    unstored, interrupted, removed, saved, unsaved >>

\* open(path, 'w') truncates the file.
SaveOpens ==
    /\ Running("save")
    /\ file' = Torn
    /\ pc' = "write"
    /\ UNCHANGED << process, batch, held, live, db, chain, issued, faults, crashes,
                    unstored, interrupted, removed, saved, unsaved >>

\* open raises; _save_chain logs it and append_alert returns the entry.
SaveCannotOpen ==
    /\ Running("save")
    /\ Fault
    /\ unsaved' = unsaved \cup {Head(batch).id}
    /\ NextAlert
    /\ UNCHANGED << process, held, live, db, chain, file, issued, crashes,
                    unstored, interrupted, removed, saved >>

\* Mutant: what is written was collected before the append.
WriteCompletesStale ==
    /\ Running("write")
    /\ file' = Saved(Front(chain))
    /\ saved' = saved \cup IdsOf(Front(chain))
    /\ NextAlert
    /\ UNCHANGED << process, held, live, db, chain, issued, faults, crashes,
                    unstored, interrupted, removed, unsaved >>

\* json.dump has written the whole chain.
WriteCompletes ==
    /\ Running("write")
    /\ file' = Saved(chain)
    /\ saved' = saved \cup IdsOf(chain)
    /\ NextAlert
    /\ UNCHANGED << process, held, live, db, chain, issued, faults, crashes,
                    unstored, interrupted, removed, unsaved >>

\* Writing stops half way; logged, and append_alert returns the entry.
WriteFails ==
    /\ Running("write")
    /\ Fault
    /\ unsaved' = unsaved \cup {Head(batch).id}
    /\ NextAlert
    /\ UNCHANGED << process, held, live, db, chain, file, issued, crashes,
                    unstored, interrupted, removed, saved >>

Crash ==
    /\ process = "up"
    /\ crashes < MaxCrashes
    /\ crashes' = crashes + 1
    /\ process' = "down"
    /\ pc' = "idle"
    /\ batch' = << >>
    /\ held' = {}
    /\ live' = FALSE
    /\ chain' = << >>
    /\ interrupted' = interrupted \cup RowIds(ToSet(batch))
         \cup (IdsOf(chain) \ (IF Readable THEN IdsOf(FileChain) ELSE {}))
    /\ UNCHANGED << db, file, issued, faults, unstored, removed, saved, unsaved >>

\* Mutants: the last entry of the file is taken for incomplete; an unreadable
\* file counts as an empty chain; the file is not read at all.
RestartDropsLast ==
    /\ process = "down"
    /\ IF Readable
       THEN /\ process' = "up"
            /\ chain' = IF FileChain = << >> THEN << >> ELSE Front(FileChain)
       ELSE process' = "refused" /\ UNCHANGED chain
    /\ UNCHANGED << pc, batch, held, live, db, file, issued, faults, crashes,
                    unstored, interrupted, removed, saved, unsaved >>
RestartIgnoresTorn ==
    /\ process = "down"
    /\ process' = "up"
    /\ chain' = IF Readable THEN FileChain ELSE << >>
    /\ UNCHANGED << pc, batch, held, live, db, file, issued, faults, crashes,
                    unstored, interrupted, removed, saved, unsaved >>
RestartEmpty ==
    /\ process = "down"
    /\ process' = "up"
    /\ UNCHANGED << chain, pc, batch, held, live, db, file, issued, faults, crashes,
                    unstored, interrupted, removed, saved, unsaved >>

\* The constructor of HashChain: _load_chain raises on an unreadable file,
\* and the pipeline does not start.
Restart ==
    /\ process = "down"
    /\ IF Readable
       THEN process' = "up" /\ chain' = FileChain
       ELSE process' = "refused" /\ UNCHANGED chain
    /\ UNCHANGED << pc, batch, held, live, db, file, issued, faults, crashes,
                    unstored, interrupted, removed, saved, unsaved >>

\* The call returns.  process_live marks the alerts of a degraded capture;
\* when sniffing broke off without a drop there is no reason to add.
EndCall ==
    /\ Running("idle")
    /\ live
    /\ live' = FALSE
    /\ UNCHANGED << process, pc, batch, held, db, chain, file, issued, faults,
                    crashes, unstored, interrupted, removed, saved, unsaved >>

EndDegraded(reasons) ==
    /\ Running("idle")
    /\ live
    /\ live' = FALSE
    /\ held' = {[a EXCEPT !.quality = "DEGRADED", !.reasons = @ \cup reasons] : a \in held}
    /\ UNCHANGED << process, pc, batch, db, chain, file, issued, faults,
                    crashes, unstored, interrupted, removed, saved, unsaved >>

\* update_alert_status, from another process.
UpdateStatus(row, status) ==
    /\ status # row.status
    /\ db' = (db \ {row}) \cup {[row EXCEPT !.status = status]}
    /\ UNCHANGED << process, pc, batch, held, live, chain, file, issued, faults,
                    crashes, unstored, interrupted, removed, saved, unsaved >>

\* delete_alert and clear_all_alerts, from another process.
DeleteAlerts(rows) ==
    /\ rows # {}
    /\ db' = db \ rows
    /\ removed' = removed \cup RowIds(rows)
    /\ UNCHANGED << process, pc, batch, held, live, chain, file, issued, faults,
                    crashes, unstored, interrupted, saved, unsaved >>

Persist ==
    \/ StoreCommit
    \/ StoreFail
    \/ AppendEntry
    \/ SaveOpens
    \/ SaveCannotOpen
    \/ WriteCompletes
    \/ WriteFails

Next ==
    \/ \E n \in 1..MaxBatch, as \in Assessments : StartWindow(n, as)
    \/ EndCall
    \/ \E reasons \in SUBSET {"capture_queue_drops"} : EndDegraded(reasons)
    \/ Persist
    \/ Crash
    \/ Restart
    \/ \E row \in db : UpdateStatus(row, "ACKNOWLEDGED") \/ DeleteAlerts({row})
    \/ DeleteAlerts(db)

Spec == Init /\ [][Next]_vars

-----------------------------------------------------------------------------
\* The chain in memory passes validate_chain at every moment, also when it was
\* reloaded after a crash, and so does every file that can be read.
ChainValid ==
    /\ ValidChain(chain)
    /\ Readable => ValidChain(FileChain)

\* The file never holds what the memory does not: it is a prefix of the chain
\* of the running process, so a restart forgets entries but invents none.
FileBehindMemory ==
    process = "up" /\ Readable => IsPrefix(FileChain, chain)

\* An entry that was once completely written is in the chain of every process
\* that starts later, whatever failed in between.
SavedSurvives == process = "up" => saved \subseteq IdsOf(chain)

\* _save_chain logs that it failed and append_alert returns all the same.  For
\* how long such an append is not durable: the file is behind the memory, or
\* unreadable, only while the newest entry is one whose own save failed; the
\* next save that succeeds makes up for all that failed before.
SaveCatchesUp ==
    process = "up" /\ pc \notin {"save", "write"} =>
        \/ file = Saved(chain)
        \/ chain # << >> /\ Last(chain).id \in unsaved

\* Between windows the two trails tell the same story of an alert, except
\* where its commit failed, a crash cut it off or its row was deleted.
\* _process_window appends to the chain whatever add_alerts returned, and
\* nothing reconciles the trails after a restart.
TrailsAgree ==
    Running("idle") => \A id \in 1..issued :
        /\ id \in IdsOf(chain) \/ id \in interrupted
        /\ id \in IdsOf(chain) => id \in RowIds(db) \cup unstored \cup removed
        /\ id \in RowIds(db) => id \in IdsOf(chain) \cup interrupted

\* What the chain vouches for is what the operator sees.  Between windows, an
\* alert that a call returned validates, unless process_live marked it after
\* it was hashed; and a row, however its status was updated, was made from
\* the very alert whose hash the chain has: it differs from it only in the
\* zone and ml_ran, which no row keeps.  (For that difference no alert that
\* is read back from the database validates.)
ChainVouches ==
    Running("idle") =>
        /\ \A a \in held :
             \/ Verdict(chain, a) = "valid"
             \/ ~ live /\ a.quality = "DEGRADED" /\ Verdict(chain, a) = "modified"
        /\ \A row \in db, i \in DOMAIN chain : chain[i].id = row.id =>
             ToAlert(row) = [chain[i].data EXCEPT !.zoned = FALSE, !.ran = FALSE,
                                                  !.status = row.status]

\* What the chain promises as a log: entries once saved survive every crash
\* and restart in their order, or the trail is visibly broken.  While the
\* process is down the log is what a restart would read.
LogEntries ==
    IF process = "up" THEN IdList(chain)
    ELSE IF Readable THEN IdList(FileChain) ELSE << >>
LogDurable == IF process = "up" \/ Readable THEN Cardinality(saved) ELSE 0
LogStatus ==
    IF process = "up" THEN "up" ELSE IF Readable THEN "down" ELSE "broken"

Log == INSTANCE AppendOnlyLog WITH
    log <- LogEntries, durable <- LogDurable, status <- LogStatus

LogSpec == Log!Spec

=============================================================================
