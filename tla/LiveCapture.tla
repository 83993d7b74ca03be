---------------------------- MODULE LiveCapture ----------------------------
(***************************************************************************)
(* LivePacketCapture of src/src/ingest/live_capture.py: a capture thread   *)
(* that puts packets from the interface into a bounded queue, and the      *)
(* operations of the thread that owns it, as process_live configures it:   *)
(* drop_on_full, no packet_limit, no retention, one start per object.      *)
(*                                                                         *)
(* The thread runs sniff() of Scapy, which is external: it calls back for  *)
(* every packet and tests the stop event after the callback only, so a     *)
(* silent interface keeps it running until its timeout.  The owner's steps *)
(* interleave with the thread's at every access to the queue, the flags    *)
(* and the counters under the lock.                                        *)
(***************************************************************************)
EXTENDS Packets, Integers, Sequences

CONSTANTS
    QueueSize,          \* queue_size
    MaxPackets          \* bound: packets on the interface

ASSUME CaptureAssumption ==
    /\ QueueSize \in Nat \ {0}
    /\ MaxPackets \in Nat

VARIABLES
    isCapturing,        \* is_capturing
    stopEvent,          \* _stop_event
    captureError,       \* _capture_error is set
    queue,              \* packet_queue
    received,           \* _received_packets
    dropped,            \* _dropped_packets
    processed,          \* _processed_packets
    thread,             \* where the capture thread is
    hand,               \* the packet of its callback
    items,              \* the list that drain_queue builds
    traffic             \* history: the packets received

captureVars == << isCapturing, stopEvent, captureError, queue, received,
                  dropped, processed, thread, hand, items, traffic >>

-----------------------------------------------------------------------------
CaptureInit ==
    /\ isCapturing = FALSE
    /\ stopEvent = FALSE
    /\ captureError = FALSE
    /\ queue = << >>
    /\ received = 0
    /\ dropped = 0
    /\ processed = 0
    /\ thread = "none"
    /\ hand = [n |-> 0, key |-> NoKey]
    /\ items = << >>
    /\ traffic = {}

StartCapture ==
    /\ ~ isCapturing
    /\ isCapturing' = TRUE
    /\ stopEvent' = FALSE
    /\ captureError' = FALSE
    /\ thread' = "sniff"
    /\ UNCHANGED << queue, received, dropped, processed, hand, items, traffic >>

\* sniff calls packet_callback, which counts the packet first.
Receive(key) ==
    LET packet == [n |-> received + 1, key |-> key]
    IN  /\ thread = "sniff"
        /\ received < MaxPackets
        /\ received' = received + 1
        /\ hand' = packet
        /\ traffic' = traffic \cup {packet}
        /\ thread' = "put"
        /\ UNCHANGED << isCapturing, stopEvent, captureError, queue, dropped,
                        processed, items >>

\* put_nowait with room in the queue.
Enqueue ==
    /\ thread = "put"
    /\ Len(queue) < QueueSize
    /\ queue' = Append(queue, hand)
    /\ thread' = "filter"
    /\ UNCHANGED << isCapturing, stopEvent, captureError, received, dropped,
                    processed, hand, items, traffic >>

\* put_nowait raises Full; between the exception and the count under the lock
\* the owner may drain the queue or read the counters.
Overflow ==
    /\ thread = "put"
    /\ Len(queue) >= QueueSize
    /\ thread' = "drop"
    /\ UNCHANGED << isCapturing, stopEvent, captureError, queue, received,
                    dropped, processed, hand, items, traffic >>

CountDrop ==
    /\ thread = "drop"
    /\ dropped' = dropped + 1
    /\ thread' = "filter"
    /\ UNCHANGED << isCapturing, stopEvent, captureError, queue, received,
                    processed, hand, items, traffic >>

\* The stop_filter of sniff.
StopFilter ==
    /\ thread = "filter"
    /\ thread' = IF stopEvent THEN "close" ELSE "sniff"
    /\ UNCHANGED << isCapturing, stopEvent, captureError, queue, received,
                    dropped, processed, hand, items, traffic >>

\* sniff returns after its timeout, the duration.
SniffTimeout ==
    /\ thread = "sniff"
    /\ thread' = "close"
    /\ UNCHANGED << isCapturing, stopEvent, captureError, queue, received,
                    dropped, processed, hand, items, traffic >>

\* sniff raises.
SniffFails ==
    /\ thread = "sniff"
    /\ captureError' = TRUE
    /\ thread' = "close"
    /\ UNCHANGED << isCapturing, stopEvent, queue, received, dropped,
                    processed, hand, items, traffic >>

\* Mutant: the flag is left to stop_capture.
CloseKeepsFlag ==
    /\ thread = "close"
    /\ thread' = "ended"
    /\ UNCHANGED << isCapturing, stopEvent, captureError, queue, received,
                    dropped, processed, hand, items, traffic >>

\* The finally clause of _capture_loop.
Close ==
    /\ thread = "close"
    /\ isCapturing' = FALSE
    /\ thread' = "ended"
    /\ UNCHANGED << stopEvent, captureError, queue, received, dropped,
                    processed, hand, items, traffic >>

StopCapture ==
    /\ stopEvent' = TRUE
    /\ isCapturing' = FALSE
    /\ UNCHANGED << captureError, queue, received, dropped, processed, thread,
                    hand, items, traffic >>

\* drain_queue takes packets one by one until the queue is empty or the list
\* has limit entries, and counts them when it is done.
DrainTake(limit) ==
    /\ queue # << >>
    /\ Len(items) < limit
    /\ items' = Append(items, Head(queue))
    /\ queue' = Tail(queue)
    /\ UNCHANGED << isCapturing, stopEvent, captureError, received, dropped,
                    processed, thread, hand, traffic >>

\* Mutant: a drain that stops at its limit returns before it counts.
DrainReturnEarly(limit) ==
    /\ queue = << >> \/ Len(items) = limit
    /\ processed' = IF Len(items) = limit THEN processed
                    ELSE processed + Len(items)
    /\ items' = << >>
    /\ UNCHANGED << isCapturing, stopEvent, captureError, queue, received,
                    dropped, thread, hand, traffic >>

DrainReturn(limit) ==
    /\ queue = << >> \/ Len(items) = limit
    /\ processed' = processed + Len(items)
    /\ items' = << >>
    /\ UNCHANGED << isCapturing, stopEvent, captureError, queue, received,
                    dropped, thread, hand, traffic >>

CaptureStep ==
    \/ Enqueue
    \/ Overflow
    \/ CountDrop
    \/ StopFilter
    \/ Close

CaptureThread ==
    \/ \E key \in Labels : Receive(key)
    \/ CaptureStep
    \/ SniffTimeout
    \/ SniffFails

-----------------------------------------------------------------------------
InHand == IF thread \in {"put", "drop"} THEN 1 ELSE 0

\* Drop accounting is explicit: every packet received is queued, in the hand
\* of one of the two threads, processed or counted as dropped, exactly once.
PacketsConserved ==
    received = InHand + Len(queue) + Len(items) + processed + dropped

=============================================================================
