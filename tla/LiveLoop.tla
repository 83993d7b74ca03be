------------------------------ MODULE LiveLoop ------------------------------
(***************************************************************************)
(* process_live of src/src/streaming/pipeline.py: the loop that drains the *)
(* capture queue into the flow builder, hands the flows to the windows     *)
(* once per slide, and reports what it saw and whether it was degraded.    *)
(* It composes LiveCapture, whose thread runs beside it, and FlowBuilder.  *)
(*                                                                         *)
(* The windows, detectors and storage behind a snapshot are the subject of *)
(* other modules; here they return, or raise, which ends process_live      *)
(* without a report and without stopping the capture.                      *)
(***************************************************************************)
EXTENDS LiveCapture, FlowBuilder, FiniteSets

CONSTANTS
    DrainLimit,         \* max_items of the drain in the loop
    NoReport            \* process_live has not returned

ASSUME LoopAssumption == DrainLimit \in Nat \ {0}

VARIABLES
    pc,                 \* where process_live is
    timeLeft,           \* monotonic() - start < duration
    due,                \* monotonic() >= next_emit
    packets,            \* the packets of the last drain still to be added
    idle,               \* the last drain returned no packet
    builder,            \* flow_builder
    errors,             \* len(window_errors)
    handedOver,         \* history: packets in flows given to the windows
    report              \* what process_live returns

loopVars == << pc, timeLeft, due, packets, idle, builder, errors, handedOver,
               report >>
vars == << captureVars, loopVars >>

-----------------------------------------------------------------------------
Unlimited == MaxPackets + 1     \* drain_queue() without max_items

Goto(here, there) == pc = here /\ pc' = there

\* A local step of the loop that leaves the capture alone.
Local == UNCHANGED << captureVars, timeLeft >>

Init ==
    /\ CaptureInit
    /\ pc = "start"
    /\ timeLeft = TRUE
    /\ due = FALSE
    /\ packets = << >>
    /\ idle = TRUE
    /\ builder = EmptyBuilder
    /\ errors = 0
    /\ handedOver = {}
    /\ report = NoReport

Start ==
    /\ Goto("start", "loop")
    /\ StartCapture
    /\ UNCHANGED << timeLeft, due, packets, idle, builder, errors, handedOver, report >>

\* Mutant: the loop does not wait for the capture to stop.
LoopTestIgnoresCapture ==
    /\ pc = "loop"
    /\ pc' = IF timeLeft \/ queue # << >> THEN "drain" ELSE "stop"
    /\ Local
    /\ UNCHANGED << due, packets, idle, builder, errors, handedOver, report >>

\* The condition of the while loop.
LoopTest ==
    /\ pc = "loop"
    /\ pc' = IF timeLeft \/ isCapturing \/ queue # << >> THEN "drain" ELSE "stop"
    /\ Local
    /\ UNCHANGED << due, packets, idle, builder, errors, handedOver, report >>

\* drain_queue, in the loop with a limit and after it without.
Take ==
    /\ \/ pc = "drain" /\ DrainTake(DrainLimit)
       \/ pc = "last" /\ DrainTake(Unlimited)
    /\ UNCHANGED loopVars

DrainDone ==
    /\ \/ Goto("drain", "feed") /\ DrainReturn(DrainLimit)
       \/ Goto("last", "lastFeed") /\ DrainReturn(Unlimited)
    /\ packets' = items
    /\ idle' = (items = << >>)
    /\ UNCHANGED << timeLeft, due, builder, errors, handedOver, report >>

\* The next drained packet goes into the flow builder; an exception is noted.
FeedPacket ==
    /\ pc \in {"feed", "lastFeed"}
    /\ packets # << >>
    /\ builder' = AddPacket(builder, Head(packets))
    /\ errors' = errors + (IF Head(packets).key = BadKey THEN 1 ELSE 0)
    /\ packets' = Tail(packets)
    /\ Local
    /\ UNCHANGED << pc, due, idle, handedOver, report >>

FeedDone ==
    /\ Goto("feed", "emit") \/ Goto("lastFeed", "finish")
    /\ packets = << >>
    /\ Local
    /\ UNCHANGED << due, packets, idle, builder, errors, handedOver, report >>

\* Not yet time for a snapshot.
EmitNothing ==
    /\ Goto("emit", "test")
    /\ ~ due
    /\ Local
    /\ UNCHANGED << due, packets, idle, builder, errors, handedOver, report >>

\* The snapshot is handed to the windows and these are processed.
EmitSnapshot ==
    /\ Goto("emit", "test")
    /\ due
    /\ due' = FALSE
    /\ handedOver' = handedOver \cup SnapshotPackets(builder)
    /\ builder' = AfterSnapshot(builder)
    /\ Local
    /\ UNCHANGED << packets, idle, errors, report >>

\* A detector raises in _process_window; process_live does not catch it.
WindowRaises ==
    /\ \/ pc = "emit" /\ due /\ SnapshotPackets(builder) # {}
       \/ pc = "finish" /\ handedOver \cup SnapshotPackets(builder) # {}
    /\ pc' = "raised"
    /\ Local
    /\ UNCHANGED << due, packets, idle, builder, errors, handedOver, report >>

\* The test at the end of the loop body, before it sleeps.
EndTest ==
    /\ pc = "test"
    /\ pc' = IF ~ isCapturing /\ idle THEN "stop" ELSE "loop"
    /\ Local
    /\ UNCHANGED << due, packets, idle, builder, errors, handedOver, report >>

Stop ==
    /\ Goto("stop", "join")
    /\ StopCapture
    /\ UNCHANGED << timeLeft, due, packets, idle, builder, errors, handedOver, report >>

\* wait(timeout=5) returns, since the thread ended or since time was up.
Join ==
    /\ Goto("join", "last")
    /\ Local
    /\ UNCHANGED << due, packets, idle, builder, errors, handedOver, report >>

\* What makes the report DEGRADED.
Degraded == errors > 0 \/ captureError \/ dropped > 0 \/ builder.evicted > 0

\* The last snapshot and flush, then the statistics.
Finish ==
    /\ Goto("finish", "done")
    /\ builder' = AfterSnapshot(builder)
    /\ handedOver' = handedOver \cup SnapshotPackets(builder)
    /\ report' = [ status    |-> IF Degraded THEN "DEGRADED" ELSE "OK",
                   received  |-> received,
                   processed |-> processed,
                   dropped   |-> dropped ]
    /\ Local
    /\ UNCHANGED << due, packets, idle, errors >>

\* The duration is over; the next slide begins.
Elapse ==
    /\ timeLeft
    /\ timeLeft' = FALSE
    /\ UNCHANGED << captureVars, pc, due, packets, idle, builder, errors, handedOver, report >>

SlideDue ==
    /\ ~ due
    /\ due' = TRUE
    /\ UNCHANGED << captureVars, pc, timeLeft, packets, idle, builder, errors,
                    handedOver, report >>

Main ==
    \/ Start
    \/ LoopTest
    \/ Take
    \/ DrainDone
    \/ FeedPacket
    \/ FeedDone
    \/ EmitNothing
    \/ EmitSnapshot
    \/ EndTest
    \/ Stop
    \/ Join
    \/ Finish

Next ==
    \/ Main
    \/ WindowRaises
    \/ CaptureThread /\ UNCHANGED loopVars
    \/ Elapse
    \/ SlideDue

\* Both threads are scheduled, the duration passes, and sniff honours its
\* timeout however many packets come in between.  Nothing makes packets come,
\* and nothing makes sniff or a detector fail.
Fairness ==
    /\ WF_vars(Main)
    /\ WF_vars(CaptureStep /\ UNCHANGED loopVars)
    /\ SF_vars(SniffTimeout /\ UNCHANGED loopVars)
    /\ WF_vars(Elapse)

Spec == Init /\ [][Next]_vars /\ Fairness

-----------------------------------------------------------------------------
TypeOK ==
    /\ isCapturing \in BOOLEAN /\ stopEvent \in BOOLEAN
    /\ thread \in {"none", "sniff", "put", "drop", "filter", "close", "ended"}
    /\ hand \in Packet
    /\ queue \in Seq(Packet) /\ Len(queue) <= QueueSize
    /\ items \in Seq(Packet) /\ packets \in Seq(Packet)
    /\ pc \in {"start", "loop", "drain", "feed", "emit", "test", "stop",
               "join", "last", "lastFeed", "finish", "done", "raised"}
    /\ builder.identity \subseteq Keys
    /\ Len(builder.flows) <= MaxFlows
    /\ handedOver \subseteq 1..received

\* Packets that carry a flow and should reach the detectors.
FlowPackets == {p.n : p \in {q \in traffic : q.key \in Keys}}

\* No loss is silent: when process_live reports OK, every packet that carries
\* a flow was in a flow handed to the windows.
LossIsVisible ==
    report # NoReport /\ report.status = "OK" => FlowPackets \subseteq handedOver

\* The report is final: its counters balance, and nothing is received, dropped
\* or queued after it was made.  The code neither tests what wait() returned
\* nor asks the thread again; this holds because the loop is not left before
\* the thread has cleared is_capturing, the last thing it does.
ReportFinal ==
    report # NoReport =>
        /\ report.received = report.processed + report.dropped
        /\ received = report.received /\ dropped = report.dropped
        /\ queue = << >>

\* Two flows of the table never share a key, and none of its packets was
\* handed over before: a packet counts towards one snapshot.
FlowsDisjoint ==
    /\ \A i, j \in DOMAIN builder.flows :
         i # j => builder.flows[i].key # builder.flows[j].key
    /\ SnapshotPackets(builder) \cap handedOver = {}

\* process_live returns or raises, however the capture and the loop interleave.
Terminates == <>(pc \in {"done", "raised"})

\* "Bounded event-time flow builder for true live processing" says
\* IncrementalScapyFlowAggregator of itself: none of its tables outgrows
\* max_flows.
StateBounded ==
    /\ Len(builder.flows) <= MaxFlows
    /\ Cardinality(builder.identity) <= MaxFlows

=============================================================================
