---------------------------- MODULE FlowBuilder ----------------------------
(***************************************************************************)
(* IncrementalScapyFlowAggregator of src/src/flow/nfstream_wrapper.py: the *)
(* flow table that live capture feeds packet by packet and empties once    *)
(* per slide.  It is a value, a record that its operations map to the next *)
(* one, since only the thread of process_live touches it.                  *)
(*                                                                         *)
(* A flow is its key and the numbers of its packets, which stand for the   *)
(* counters that the code keeps.                                           *)
(***************************************************************************)
EXTENDS Packets, Integers, Sequences

CONSTANT MaxFlows       \* max_flows

ASSUME BuilderAssumption == MaxFlows \in Nat \ {0}

EmptyBuilder ==
    [ flows    |-> << >>,   \* _flows, in insertion order
      identity |-> {},      \* the keys of _flow_identity
      evicted  |-> 0 ]      \* evicted_flows

Position(flows, key) == {i \in DOMAIN flows : flows[i].key = key}

\* Mutants: the evicted flow is not counted; the bound is one too high.
EvictSilently(b) ==
    IF Len(b.flows) <= MaxFlows THEN b
    ELSE [ b EXCEPT !.flows = Tail(b.flows),
                    !.identity = b.identity \ {Head(b.flows).key} ]

EvictLate(b) ==
    IF Len(b.flows) <= MaxFlows + 1 THEN b
    ELSE [ flows    |-> Tail(b.flows),
           identity |-> b.identity \ {Head(b.flows).key},
           evicted  |-> b.evicted + 1 ]

\* The loop at the end of add_packet: one flow was added to a table within its
\* bound, so at most the oldest is popped.
Evict(b) ==
    IF Len(b.flows) <= MaxFlows THEN b
    ELSE [ flows    |-> Tail(b.flows),
           identity |-> b.identity \ {Head(b.flows).key},
           evicted  |-> b.evicted + 1 ]

\* add_packet.  A packet without a key is ignored, and one that makes it
\* raise leaves the table as it was.
AddPacket(b, packet) ==
    LET at == Position(b.flows, packet.key)
    IN  IF packet.key \notin Keys THEN b
        ELSE IF at = {}
        THEN Evict([ b EXCEPT
               !.flows = Append(@, [key |-> packet.key, packets |-> {packet.n}]),
               !.identity = @ \cup {packet.key} ])
        ELSE [ b EXCEPT !.flows =
               [i \in DOMAIN b.flows |->
                  IF i \in at
                  THEN [b.flows[i] EXCEPT !.packets = @ \cup {packet.n}]
                  ELSE b.flows[i]] ]

\* The packets that the records of a snapshot account for.
SnapshotPackets(b) == UNION {b.flows[i].packets : i \in DOMAIN b.flows}

\* Mutant: the table is not cleared.
AfterSnapshotKeeps(b) == b

\* snapshot() empties the table but not the identities.
AfterSnapshot(b) == [b EXCEPT !.flows = << >>]

=============================================================================
