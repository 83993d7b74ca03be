---------------------------- MODULE SharedTrail ----------------------------
(***************************************************************************)
(* Several pipelines on one database and one chain file.  Every upload in  *)
(* a session of the dashboard (handle_pcap_upload of dashboard/app.py) and *)
(* every run of scripts/run_pipeline.py constructs a ThreatDetection-      *)
(* Pipeline with the chain file that is its default, and nothing keeps     *)
(* them apart: each reads the file once and then rewrites it from its own  *)
(* memory after every alert.                                               *)
(*                                                                         *)
(* No save fails here and no process crashes, which AuditTrail is about:   *)
(* what goes wrong with the file goes wrong between healthy pipelines.     *)
(* Commits may fail, all the more as SQLite refuses a writer that waited   *)
(* too long for another one, and rows are deleted.  An alert is its id.    *)
(* The text of a chain is written in one piece when the file is closed, as *)
(* the buffered writes of a short chain are, and one text is longer than   *)
(* another when it has more entries.                                       *)
(***************************************************************************)
EXTENDS HashChain

CONSTANTS
    Pipelines,          \* the uploads and the runs, each with its own objects
    MaxAlerts,          \* bound: alerts created
    MaxBatch,           \* bound: alerts of one window
    MaxFaults           \* bound: commits that fail

VARIABLES
    pc,                 \* where each pipeline is; "idle" when it is not built
    chain,              \* the HashChain.chain of each
    batch,              \* alerts of its window that are not in its chain file
    db,                 \* ids of the rows of the alerts table
    readable,           \* the chain file is missing or valid JSON
    stored,             \* the chain that it holds, if so
    text,               \* the length of what the file holds, in entries
    issued,             \* alerts created so far, the newest id
    faults,             \* bound counter
    unstored,           \* history: ids whose commit failed
    removed,            \* history: ids deleted from the database
    returned,           \* history: ids whose append_alert returned
    overlap             \* history: two pipelines have existed at one time

rows == << db, faults, unstored, removed >>
vars == << pc, chain, batch, rows, readable, stored, text, issued, returned, overlap >>

-----------------------------------------------------------------------------
At(p, here, there) == pc[p] = here /\ pc' = [pc EXCEPT ![p] = there]

Init ==
    /\ pc = [p \in Pipelines |-> "idle"]
    /\ chain = [p \in Pipelines |-> << >>]
    /\ batch = [p \in Pipelines |-> << >>]
    /\ db = {}
    /\ faults = 0
    /\ unstored = {}
    /\ removed = {}
    /\ readable = TRUE
    /\ stored = << >>
    /\ text = 0
    /\ issued = 0
    /\ returned = {}
    /\ overlap = FALSE

\* An upload or a run begins: the pipeline is constructed and loads the chain.
\* An unreadable file makes the constructor raise; the dashboard and the
\* script report that, nothing changes, and a later attempt may succeed.
Construct(p) ==
    /\ At(p, "idle", "call")
    /\ readable
    /\ chain' = [chain EXCEPT ![p] = stored]
    /\ overlap' = (overlap \/ \E q \in Pipelines \ {p} : pc[q] # "idle")
    /\ UNCHANGED << batch, rows, readable, stored, text, issued, returned >>

\* process_pcap: a window with n alerts reaches the persistence step.
Window(p, n) ==
    /\ At(p, "call", "store")
    /\ issued + n <= MaxAlerts
    /\ batch' = [batch EXCEPT ![p] = [i \in 1..n |-> [id |-> issued + i]]]
    /\ issued' = issued + n
    /\ UNCHANGED << chain, rows, readable, stored, text, returned, overlap >>

\* add_alerts commits; SQLite lets one writer at a time do so.
Store(p) ==
    /\ At(p, "store", "append")
    /\ db' = db \cup IdsOf(batch[p])
    /\ UNCHANGED << faults, unstored, removed >>
    /\ UNCHANGED << chain, batch, readable, stored, text, issued, returned, overlap >>

\* The commit fails, add_alerts rolls back and returns 0; the caller goes on.
StoreFails(p) ==
    /\ At(p, "store", "append")
    /\ faults < MaxFaults
    /\ faults' = faults + 1
    /\ unstored' = unstored \cup IdsOf(batch[p])
    /\ UNCHANGED << db, removed >>
    /\ UNCHANGED << chain, batch, readable, stored, text, issued, returned, overlap >>

\* append_alert adds the entry to the chain in memory.
AppendEntry(p) ==
    /\ At(p, "append", "save")
    /\ chain' = [chain EXCEPT ![p] = Append(@, Entry(@, Head(batch[p])))]
    /\ UNCHANGED << batch, rows, readable, stored, text, issued, returned, overlap >>

\* open(path, 'w') truncates the file, whoever else has it open.
SaveOpens(p) ==
    /\ At(p, "save", "write")
    /\ readable' = FALSE
    /\ stored' = << >>
    /\ text' = 0
    /\ UNCHANGED << chain, batch, rows, issued, returned, overlap >>

\* The text is written from the start of the file.  When another pipeline
\* wrote a longer one since this one opened the file, the rest of that text
\* stays behind, and the file is not JSON any more.  append_alert returns.
SaveCloses(p) ==
    /\ At(p, "write", IF Len(batch[p]) = 1 THEN "call" ELSE "append")
    /\ IF text > Len(chain[p])
       THEN /\ readable' = FALSE
            /\ stored' = << >>
            /\ UNCHANGED text
       ELSE /\ readable' = TRUE
            /\ stored' = chain[p]
            /\ text' = Len(chain[p])
    /\ returned' = returned \cup {Head(batch[p]).id}
    /\ batch' = [batch EXCEPT ![p] = Tail(@)]
    /\ UNCHANGED << chain, rows, issued, overlap >>

\* process_pcap has returned, with or without alerts, and the pipeline is
\* dropped.
Finish(p) ==
    /\ At(p, "call", "idle")
    /\ chain' = [chain EXCEPT ![p] = << >>]
    /\ UNCHANGED << batch, rows, readable, stored, text, issued, returned, overlap >>

\* delete_alert and clear_all_alerts, from another process.
Delete(ids) ==
    /\ ids # {}
    /\ db' = db \ ids
    /\ removed' = removed \cup ids
    /\ UNCHANGED << faults, unstored >>
    /\ UNCHANGED << pc, chain, batch, readable, stored, text, issued, returned, overlap >>

Step(p) ==
    \/ Construct(p)
    \/ \E n \in 1..MaxBatch : Window(p, n)
    \/ Store(p)
    \/ StoreFails(p)
    \/ AppendEntry(p)
    \/ SaveOpens(p)
    \/ SaveCloses(p)
    \/ Finish(p)

Next ==
    \/ \E p \in Pipelines : Step(p)
    \/ \E id \in db : Delete({id})
    \/ Delete(db)

Spec == Init /\ [][Next]_vars

-----------------------------------------------------------------------------
TypeOK ==
    /\ pc \in [Pipelines -> {"idle", "call", "store", "append", "save", "write"}]
    /\ \A p \in Pipelines : chain[p] \in Seq(ToSet(chain[p]))
    /\ batch \in [Pipelines -> Seq([id : Nat])]
    /\ stored \in Seq(ToSet(stored))
    /\ readable \in BOOLEAN /\ overlap \in BOOLEAN
    /\ text \in Nat /\ issued \in 0..MaxAlerts /\ faults \in 0..MaxFaults
    /\ db \cup unstored \cup removed \cup returned \subseteq 1..issued

\* src/docs/THREAT-MODELS.md calls the trail "purely local, single-writer":
\* while no pipeline is writing the file, it can be read and holds every
\* alert whose append returned.
SavedStays ==
    (\A p \in Pipelines : pc[p] # "write") =>
        readable /\ returned \subseteq IdsOf(stored)

\* As long as no two pipelines exist at one time, the trail keeps everything.
OneWriterKeepsAll == ~ overlap => SavedStays

\* Validation never shows the loss: each chain in memory, and the one in the
\* file, passes validate_chain whatever the pipelines did to each other.
EveryChainValid ==
    /\ \A p \in Pipelines : ValidChain(chain[p])
    /\ ValidChain(stored)

\* The two trails of all pipelines together.  Every alert that a pipeline
\* passed to a chain, whether the file still has its entry or another pipeline
\* erased it, is in the database exactly if its commit did not fail and nobody
\* deleted it; and every row belongs to an alert whose append returned or that
\* a pipeline still has in hand.  So what the file lost can be named from the
\* database, but for the alerts that failed commits and deletions account for.
Appended == returned \cup IdsOf(stored) \cup UNION {IdsOf(chain[p]) : p \in Pipelines}
RowsReconciled ==
    /\ \A id \in Appended : id \in db <=> id \notin unstored \cup removed
    /\ \A id \in db : id \in returned \/ \E p \in Pipelines : id \in IdsOf(batch[p])

=============================================================================
