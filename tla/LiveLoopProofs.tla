--------------------------- MODULE LiveLoopProofs ---------------------------
(***************************************************************************)
(* Proofs about LiveLoop, for every queue size, drain limit, flow table    *)
(* size and number of packets.                                             *)
(*                                                                         *)
(* The argument that no loss is silent follows a packet: from the hand of  *)
(* the capture thread through the queue, the list that a drain builds and  *)
(* the list that the loop feeds, into a flow of the table and a snapshot.  *)
(* At each of these places it is tracked; where it leaves them otherwise,  *)
(* a counter of drops or evictions grew, and these only grow.              *)
(***************************************************************************)
EXTENDS LiveLoop, SequenceTheorems, TLAPS

ElementsOf(s) == {s[i] : i \in DOMAIN s}

FlowEntry == [key : Keys, packets : SUBSET Nat]
Builder == [flows : Seq(FlowEntry), identity : SUBSET Keys, evicted : Nat]

-----------------------------------------------------------------------------
(***************************************************************************)
(* Sequences, with their elements as a set.                                *)
(***************************************************************************)
LEMMA AppendElements ==
    ASSUME NEW S, NEW s \in Seq(S), NEW e \in S
    PROVE  /\ Append(s, e) \in Seq(S)
           /\ Len(Append(s, e)) = Len(s) + 1
           /\ ElementsOf(Append(s, e)) = ElementsOf(s) \cup {e}
<1>1. Append(s, e) \in Seq(S) /\ Len(Append(s, e)) = Len(s) + 1
  OBVIOUS
<1>2. ElementsOf(Append(s, e)) = ElementsOf(s) \cup {e}
  <2>1. DOMAIN Append(s, e) = 1..(Len(s) + 1) /\ DOMAIN s = 1..Len(s)
    OBVIOUS
  <2>2. \A i \in 1..Len(s) : Append(s, e)[i] = s[i]
    OBVIOUS
  <2>3. Append(s, e)[Len(s) + 1] = e
    OBVIOUS
  <2>4. Len(s) \in Nat
    OBVIOUS
  <2> QED BY <2>1, <2>2, <2>3, <2>4 DEF ElementsOf
<1> QED BY <1>1, <1>2

LEMMA HeadTailElements ==
    ASSUME NEW S, NEW s \in Seq(S), s # << >>
    PROVE  /\ Head(s) \in S
           /\ Tail(s) \in Seq(S)
           /\ Len(Tail(s)) = Len(s) - 1
           /\ ElementsOf(s) = {Head(s)} \cup ElementsOf(Tail(s))
<1>1. /\ Head(s) \in S /\ Tail(s) \in Seq(S) /\ Len(Tail(s)) = Len(s) - 1
      /\ Len(s) \in Nat \ {0} /\ Head(s) = s[1]
  OBVIOUS
<1>2. DOMAIN Tail(s) = 1..(Len(s) - 1) /\ DOMAIN s = 1..Len(s)
  BY <1>1
<1>3. \A i \in 1..(Len(s) - 1) : Tail(s)[i] = s[i + 1]
  BY <1>1
<1>4. \A i \in 2..Len(s) : i - 1 \in 1..(Len(s) - 1) /\ s[i] = Tail(s)[i - 1]
  BY <1>1, <1>3
<1>5. ElementsOf(s) \subseteq {Head(s)} \cup ElementsOf(Tail(s))
  <2>1. SUFFICES ASSUME NEW i \in 1..Len(s)
                 PROVE  s[i] \in {Head(s)} \cup ElementsOf(Tail(s))
    BY <1>2 DEF ElementsOf
  <2>2. CASE i = 1
    BY <2>2, <1>1
  <2>3. CASE i # 1
    <3>1. i \in 2..Len(s)
      BY <2>1, <2>3, <1>1
    <3>2. i - 1 \in DOMAIN Tail(s) /\ s[i] = Tail(s)[i - 1]
      BY <3>1, <1>2, <1>4
    <3> QED BY <3>2, Zenon DEF ElementsOf
  <2> QED BY <2>2, <2>3
<1>6. {Head(s)} \cup ElementsOf(Tail(s)) \subseteq ElementsOf(s)
  BY <1>1, <1>2, <1>3 DEF ElementsOf
<1> QED BY <1>1, <1>5, <1>6

LEMMA NoElements ==
    ASSUME NEW S, NEW s \in Seq(S)
    PROVE  /\ Len(s) \in Nat
           /\ s = << >> <=> Len(s) = 0
           /\ s = << >> => ElementsOf(s) = {}
BY DEF ElementsOf

-----------------------------------------------------------------------------
(***************************************************************************)
(* The flow table.                                                         *)
(***************************************************************************)

\* The table keeps its type.  Unless it evicts, which it counts, a packet it
\* is given joins the packets that the next snapshot accounts for, and none
\* of these is forgotten.
LEMMA AddPacketAccounts ==
    ASSUME NEW b \in Builder, NEW packet \in Packet
    PROVE  LET after == AddPacket(b, packet)
           IN  /\ after \in Builder
               /\ after.evicted >= b.evicted
               /\ after.evicted > 0 \/
                    /\ SnapshotPackets(b) \subseteq SnapshotPackets(after)
                    /\ packet.key \in Keys => packet.n \in SnapshotPackets(after)
<1> DEFINE at == Position(b.flows, packet.key)
           after == AddPacket(b, packet)
<1>1. /\ b.flows \in Seq(FlowEntry) /\ b.identity \in SUBSET Keys
      /\ b.evicted \in Nat /\ packet.n \in Nat
  BY DEF Builder, Packet
<1>2. CASE packet.key \notin Keys
  BY <1>1, <1>2 DEF AddPacket
<1>3. CASE packet.key \in Keys /\ at = {}
  <2> DEFINE entry == [key |-> packet.key, packets |-> {packet.n}]
             fl == Append(b.flows, entry)
             grown == [b EXCEPT !.flows = fl,
                                !.identity = @ \cup {packet.key}]
  <2>1. entry \in FlowEntry
    BY <1>1, <1>3 DEF FlowEntry
  <2>2. fl \in Seq(FlowEntry) /\ Len(fl) = Len(b.flows) + 1
        /\ ElementsOf(fl) = ElementsOf(b.flows) \cup {entry}
    <3> HIDE DEF entry
    <3> QED BY <1>1, <2>1, AppendElements
  <2>3. after = Evict(grown)
    BY <1>3 DEF AddPacket
  <2>4. grown \in Builder /\ grown.flows = fl /\ grown.evicted = b.evicted
        /\ grown.identity \in SUBSET Keys
    BY <1>1, <1>3, <2>2 DEF Builder
  <2>5. CASE Len(fl) <= MaxFlows
    <3>1. after = grown
      BY <2>3, <2>4, <2>5 DEF Evict
    <3>2. after \in Builder /\ after.flows = fl /\ after.evicted = b.evicted
      BY <3>1, <2>4
    <3> HIDE DEF after, grown, fl
    <3>3. \A x, e : e \in ElementsOf(x.flows) =>
             e.packets \subseteq SnapshotPackets(x)
      BY DEF SnapshotPackets, ElementsOf
    <3>4. packet.n \in SnapshotPackets(after)
      <4>1. entry \in ElementsOf(after.flows)
        BY <3>2, <2>2
      <4>2. packet.n \in entry.packets
        OBVIOUS
      <4> QED BY <4>1, <4>2, <3>3
    <3>5. SnapshotPackets(b) \subseteq SnapshotPackets(after)
      <4>1. SUFFICES ASSUME NEW i \in DOMAIN b.flows
                     PROVE  b.flows[i].packets \subseteq SnapshotPackets(after)
        BY DEF SnapshotPackets
      <4>2. b.flows[i] \in ElementsOf(after.flows)
        BY <3>2, <2>2 DEF ElementsOf
      <4> QED BY <4>2, <3>3
    <3> QED BY <3>2, <3>4, <3>5, <1>1 DEF after
  <2>6. CASE ~ (Len(fl) <= MaxFlows)
    <3>1. after = [ flows |-> Tail(fl),
                    identity |-> grown.identity \ {Head(fl).key},
                    evicted |-> b.evicted + 1 ]
      BY <2>3, <2>4, <2>6 DEF Evict
    <3>2. fl # << >>
      BY <2>2, <1>1
    <3>3. Tail(fl) \in Seq(FlowEntry)
      BY <2>2, <3>2
    <3> QED BY <3>1, <3>3, <2>4, <1>1 DEF Builder
  <2> QED BY <2>5, <2>6
<1>4. CASE packet.key \in Keys /\ at # {}
  <2> DEFINE fl == [i \in DOMAIN b.flows |->
                      IF i \in at
                      THEN [b.flows[i] EXCEPT !.packets = @ \cup {packet.n}]
                      ELSE b.flows[i]]
  <2>1. after = [b EXCEPT !.flows = fl]
    BY <1>4 DEF AddPacket
  <2>2. DOMAIN b.flows = 1..Len(b.flows) /\ Len(b.flows) \in Nat
        /\ \A i \in DOMAIN b.flows : b.flows[i] \in FlowEntry
    BY <1>1
  <2>3. \A i \in DOMAIN b.flows :
           /\ fl[i] \in FlowEntry
           /\ b.flows[i].packets \subseteq fl[i].packets
           /\ i \in at => packet.n \in fl[i].packets
    BY <2>2, <1>1 DEF FlowEntry
  <2>4. fl \in Seq(FlowEntry) /\ DOMAIN fl = DOMAIN b.flows
    <3>1. fl \in [1..Len(b.flows) -> FlowEntry]
      BY <2>2, <2>3
    <3> QED BY <3>1, <2>2, SeqDef
  <2>5. after \in Builder /\ after.flows = fl /\ after.evicted = b.evicted
    BY <2>1, <2>4, <1>1 DEF Builder
  <2>6. PICK i \in DOMAIN b.flows : i \in at
    BY <1>4 DEF Position
  <2>7. SnapshotPackets(b) \subseteq SnapshotPackets(after)
    BY <2>3, <2>4, <2>5 DEF SnapshotPackets
  <2>8. packet.n \in SnapshotPackets(after)
    BY <2>3, <2>4, <2>5, <2>6 DEF SnapshotPackets
  <2> QED BY <2>5, <2>7, <2>8, <1>1
<1> QED BY <1>2, <1>3, <1>4

LEMMA AfterSnapshotEmpty ==
    ASSUME NEW b \in Builder
    PROVE  /\ AfterSnapshot(b) \in Builder
           /\ AfterSnapshot(b).evicted = b.evicted
<1>1. << >> \in Seq(FlowEntry)
  OBVIOUS
<1> QED BY <1>1 DEF AfterSnapshot, Builder

-----------------------------------------------------------------------------
(***************************************************************************)
(* The state is well formed, the counters balance, and the places that a   *)
(* step does not use are empty.                                            *)
(***************************************************************************)
Threads == {"none", "sniff", "put", "drop", "filter", "close", "ended"}

Typing ==
    /\ received \in Nat /\ dropped \in Nat /\ processed \in Nat
    /\ errors \in Nat
    /\ thread \in Threads
    /\ hand \in Packet
    /\ queue \in Seq(Packet) /\ items \in Seq(Packet) /\ packets \in Seq(Packet)
    /\ builder \in Builder
    /\ traffic \in SUBSET Packet

Bounds ==
    /\ received <= MaxPackets
    /\ \A p \in traffic : p.n <= received

\* Where process_live is after its loop.
After == {"stop", "join", "last", "lastFeed", "finish", "done"}

Control ==
    /\ pc = "start" <=> thread = "none"
    /\ thread \notin {"none", "ended"} => isCapturing
    /\ pc \in After => thread = "ended"
    /\ pc \notin {"drain", "last"} => items = << >>
    /\ pc \notin {"feed", "lastFeed"} => packets = << >>
    /\ pc \in {"lastFeed", "finish", "done"} => queue = << >>

WellFormed == Typing /\ Bounds /\ PacketsConserved /\ Control

LEMMA WellFormedInit == Init => WellFormed
<1> SUFFICES ASSUME Init PROVE WellFormed
  OBVIOUS
<1>1. EmptyBuilder \in Builder
  BY DEF EmptyBuilder, Builder
<1>2. [n |-> 0, key |-> NoKey] \in Packet
  BY DEF Packet, Labels
<1>3. Typing
  BY <1>1, <1>2 DEF Init, CaptureInit, Typing, Threads
<1>4. Bounds /\ PacketsConserved /\ Control
  BY CaptureAssumption DEF Init, CaptureInit, Bounds, PacketsConserved, InHand,
     Control, After
<1> QED BY <1>3, <1>4 DEF WellFormed

LEMMA WellFormedCapture ==
    ASSUME WellFormed, CaptureThread, UNCHANGED loopVars
    PROVE  WellFormed'
<1> USE DEF WellFormed
<1>1. UNCHANGED << pc, packets, builder, errors >>
  BY DEF loopVars
<1>2. /\ received \in Nat /\ dropped \in Nat /\ processed \in Nat
      /\ errors \in Nat /\ thread \in Threads
      /\ queue \in Seq(Packet) /\ Len(queue) \in Nat /\ Len(items) \in Nat
  BY DEF Typing
<1>3. ASSUME NEW key \in Labels, Receive(key)
      PROVE  WellFormed'
  <2>1. [n |-> received + 1, key |-> key] \in Packet
    BY <1>2, <1>3 DEF Packet
  <2>2. Typing'
    BY <1>1, <1>2, <1>3, <2>1 DEF Typing, Receive, Threads
  <2>3. Bounds'
    <3>1. \A p \in traffic : p.n <= received /\ p.n \in Nat
      BY DEF Bounds, Typing, Packet
    <3> QED BY <1>2, <1>3, <3>1, CaptureAssumption DEF Bounds, Receive
  <2>4. PacketsConserved' /\ Control'
    BY <1>1, <1>2, <1>3 DEF Receive, PacketsConserved, InHand, Control, After
  <2> QED BY <2>2, <2>3, <2>4
<1>4. CASE Enqueue
  <2>1. queue' \in Seq(Packet) /\ Len(queue') = Len(queue) + 1
    BY <1>4, AppendElements DEF Enqueue, Typing
  <2>2. Typing' /\ Bounds'
    BY <1>1, <1>2, <1>4, <2>1 DEF Typing, Bounds, Enqueue, Threads
  <2>3. PacketsConserved' /\ Control'
    BY <1>1, <1>2, <1>4, <2>1 DEF Enqueue, PacketsConserved, InHand, Control, After
  <2> QED BY <2>2, <2>3
<1>5. CASE Overflow
  BY <1>1, <1>2, <1>5 DEF Overflow, Typing, Bounds, Threads, PacketsConserved,
     InHand, Control, After
<1>6. CASE CountDrop
  BY <1>1, <1>2, <1>6 DEF CountDrop, Typing, Bounds, Threads, PacketsConserved,
     InHand, Control, After
<1>7. CASE StopFilter
  BY <1>1, <1>2, <1>7 DEF StopFilter, Typing, Bounds, Threads, PacketsConserved,
     InHand, Control, After
<1>8. CASE Close
  BY <1>1, <1>2, <1>8 DEF Close, Typing, Bounds, Threads, PacketsConserved,
     InHand, Control, After
<1>9. CASE SniffTimeout
  BY <1>1, <1>2, <1>9 DEF SniffTimeout, Typing, Bounds, Threads,
     PacketsConserved, InHand, Control, After
<1>10. CASE SniffFails
  BY <1>1, <1>2, <1>10 DEF SniffFails, Typing, Bounds, Threads,
     PacketsConserved, InHand, Control, After
<1> QED BY <1>3, <1>4, <1>5, <1>6, <1>7, <1>8, <1>9, <1>10
           DEF CaptureThread, CaptureStep

\* The steps of process_live that move no packet.
LEMMA WellFormedControl ==
    ASSUME WellFormed,
           \/ Start \/ LoopTest \/ FeedDone \/ EmitNothing \/ EmitSnapshot
           \/ WindowRaises \/ EndTest \/ Stop \/ Join \/ Finish \/ Elapse
           \/ SlideDue
    PROVE  WellFormed'
<1> USE DEF WellFormed, Local, Goto
<1>1. CASE Start
  BY <1>1 DEF Start, StartCapture, Typing, Bounds, Threads, PacketsConserved,
     InHand, Control, After
<1>2. CASE LoopTest
  BY <1>2 DEF LoopTest, captureVars, Typing, Bounds, PacketsConserved, InHand,
     Control, After
<1>3. CASE FeedDone
  BY <1>3 DEF FeedDone, captureVars, Typing, Bounds, PacketsConserved, InHand,
     Control, After
<1>4. CASE EmitNothing
  BY <1>4 DEF EmitNothing, captureVars, Typing, Bounds, PacketsConserved,
     InHand, Control, After
<1>5. CASE EmitSnapshot
  <2>1. builder' \in Builder
    BY <1>5, AfterSnapshotEmpty DEF EmitSnapshot, Typing
  <2> QED BY <1>5, <2>1 DEF EmitSnapshot, captureVars, Typing, Bounds,
             PacketsConserved, InHand, Control, After
<1>6. CASE WindowRaises
  BY <1>6 DEF WindowRaises, captureVars, Typing, Bounds, PacketsConserved,
     InHand, Control, After
<1>7. CASE EndTest
  BY <1>7 DEF EndTest, captureVars, Typing, Bounds, PacketsConserved, InHand,
     Control, After
<1>8. CASE Stop
  BY <1>8 DEF Stop, StopCapture, Typing, Bounds, PacketsConserved, InHand,
     Control, After
<1>9. CASE Join
  BY <1>9 DEF Join, captureVars, Typing, Bounds, PacketsConserved, InHand,
     Control, After
<1>11. CASE Finish
  <2>1. builder' \in Builder
    BY <1>11, AfterSnapshotEmpty DEF Finish, Typing
  <2> QED BY <1>11, <2>1 DEF Finish, captureVars, Typing, Bounds,
             PacketsConserved, InHand, Control, After
<1>12. CASE Elapse
  BY <1>12 DEF Elapse, captureVars, Typing, Bounds, PacketsConserved, InHand,
     Control, After
<1>13. CASE SlideDue
  BY <1>13 DEF SlideDue, captureVars, Typing, Bounds, PacketsConserved, InHand,
     Control, After
<1> QED BY <1>1, <1>2, <1>3, <1>4, <1>5, <1>6, <1>7, <1>8, <1>9, <1>11, <1>12,
           <1>13

\* The steps of process_live that do.  A drain without a limit that returns
\* has seen the queue empty, since no list of packets is longer than the
\* traffic.
LEMMA WellFormedDrain ==
    ASSUME WellFormed, Take \/ DrainDone \/ FeedPacket
    PROVE  WellFormed'
<1> USE DEF WellFormed
<1>1. /\ received \in Nat /\ dropped \in Nat /\ processed \in Nat
      /\ errors \in Nat /\ Len(queue) \in Nat /\ Len(items) \in Nat
      /\ queue \in Seq(Packet) /\ items \in Seq(Packet) /\ packets \in Seq(Packet)
      /\ builder \in Builder
  BY DEF Typing
<1>2. CASE Take
  <2>1. /\ queue # << >> /\ items' = Append(items, Head(queue))
        /\ queue' = Tail(queue) /\ pc \in {"drain", "last"}
        /\ UNCHANGED << received, dropped, processed, thread, hand, traffic >>
        /\ UNCHANGED << pc, packets, builder, errors, isCapturing >>
    BY <1>2 DEF Take, DrainTake, loopVars
  <2>2. Head(queue) \in Packet /\ queue' \in Seq(Packet)
        /\ Len(queue') = Len(queue) - 1
    BY <1>1, <2>1, HeadTailElements
  <2>3. items' \in Seq(Packet) /\ Len(items') = Len(items) + 1
    BY <1>1, <2>1, <2>2, AppendElements
  <2>4. Typing' /\ Bounds'
    BY <2>1, <2>2, <2>3 DEF Typing, Bounds
  <2>5. PacketsConserved'
    <3>1. InHand' = InHand /\ InHand \in Nat
      BY <2>1 DEF InHand
    <3>2. /\ Len(items') = Len(items) + 1 /\ Len(queue') = Len(queue) - 1
          /\ UNCHANGED << received, dropped, processed >>
      BY <2>1, <2>2, <2>3
    <3> QED BY <1>1, <3>1, <3>2 DEF PacketsConserved
  <2>6. Control'
    BY <2>1, <2>2 DEF Control, After
  <2> QED BY <2>4, <2>5, <2>6
<1>3. CASE DrainDone
  <2>1. /\ processed' = processed + Len(items) /\ items' = << >>
        /\ packets' = items
        /\ UNCHANGED << received, dropped, thread, hand, traffic, queue >>
        /\ UNCHANGED << builder, errors, isCapturing >>
    BY <1>3 DEF DrainDone, DrainReturn
  <2>2. \/ pc = "drain" /\ pc' = "feed"
        \/ pc = "last" /\ pc' = "lastFeed" /\ (queue = << >> \/ Len(items) = Unlimited)
    BY <1>3 DEF DrainDone, DrainReturn, Goto
  <2>3. Len(items) <= received /\ InHand \in Nat
    BY <1>1 DEF PacketsConserved, InHand
  <2>4. Len(items) # Unlimited
    BY <1>1, <2>3, CaptureAssumption DEF Bounds, Unlimited
  <2>5. Typing' /\ Bounds'
    BY <1>1, <2>1 DEF Typing, Bounds
  <2>6. PacketsConserved'
    <3>1. InHand' = InHand /\ Len(items') = 0 /\ UNCHANGED queue
      BY <2>1 DEF InHand
    <3>2. processed' = processed + Len(items) /\ UNCHANGED << received, dropped >>
      BY <2>1
    <3> QED BY <1>1, <2>3, <3>1, <3>2 DEF PacketsConserved
  <2>7. Control'
    BY <2>1, <2>2, <2>4 DEF Control, After
  <2> QED BY <2>5, <2>6, <2>7
<1>4. CASE FeedPacket
  <2>1. /\ packets # << >> /\ pc \in {"feed", "lastFeed"}
        /\ builder' = AddPacket(builder, Head(packets))
        /\ errors' \in {errors, errors + 1}
        /\ packets' = Tail(packets)
        /\ UNCHANGED << received, dropped, processed, thread, hand, traffic,
                        queue, items, pc, isCapturing >>
    BY <1>1, <1>4 DEF FeedPacket, Local, captureVars
  <2>2. Head(packets) \in Packet /\ packets' \in Seq(Packet)
    BY <1>1, <2>1, HeadTailElements
  <2>3. builder' \in Builder
    BY <1>1, <2>1, <2>2, AddPacketAccounts
  <2>4. Typing' /\ Bounds'
    BY <1>1, <2>1, <2>2, <2>3 DEF Typing, Bounds
  <2>5. PacketsConserved' /\ Control'
    BY <2>1 DEF PacketsConserved, InHand, Control, After
  <2> QED BY <2>4, <2>5
<1> QED BY <1>2, <1>3, <1>4

LEMMA WellFormedStep == WellFormed /\ [Next]_vars => WellFormed'
<1> SUFFICES ASSUME WellFormed, [Next]_vars PROVE WellFormed'
  OBVIOUS
<1>1. CASE UNCHANGED vars
  BY <1>1 DEF vars, captureVars, loopVars, WellFormed, Typing, Bounds,
     PacketsConserved, InHand, Control, After
<1>2. CASE Next
  BY <1>2, WellFormedCapture, WellFormedControl, WellFormedDrain DEF Next, Main
<1> QED BY <1>1, <1>2

\* The accounting that start_capture promises is exact for every queue size,
\* drain limit and length of the traffic.
THEOREM DropsAccounted == Spec => []PacketsConserved
<1>1. WellFormed => PacketsConserved
  BY DEF WellFormed
<1> QED BY WellFormedInit, WellFormedStep, <1>1, PTL DEF Spec

-----------------------------------------------------------------------------
(***************************************************************************)
(* No packet is forgotten, and the report tells of those that were lost.   *)
(***************************************************************************)
InCallback(p) == thread \in {"put", "drop"} /\ p = hand

Tracked(p) ==
    \/ p \in ElementsOf(queue) \cup ElementsOf(items) \cup ElementsOf(packets)
    \/ InCallback(p)
    \/ p.n \in SnapshotPackets(builder) \cup handedOver
    \/ dropped > 0
    \/ builder.evicted > 0

NothingForgotten == \A p \in traffic : p.key \in Keys => Tracked(p)

ReportSound ==
    /\ report # NoReport => pc = "done"
    /\ LossIsVisible
    /\ ReportFinal

Accounted == NothingForgotten /\ ReportSound

LEMMA AccountedInit == Init => Accounted
BY DEF Init, CaptureInit, Accounted, NothingForgotten, ReportSound,
   LossIsVisible, ReportFinal

\* A step that leaves the packets where they are.
LEMMA AccountedUnmoved ==
    ASSUME Accounted,
           UNCHANGED << queue, items, packets, builder, handedOver, dropped,
                        traffic, received, report >>,
           UNCHANGED << thread, hand >> \/ thread \notin {"put", "drop"},
           pc = "done" => pc' = "done"
    PROVE  Accounted'
<1>1. NothingForgotten'
  <2>1. \A p \in traffic : Tracked(p) => Tracked(p)'
    BY DEF Tracked, InCallback
  <2> QED BY <2>1 DEF Accounted, NothingForgotten
<1>2. ReportSound'
  BY DEF Accounted, ReportSound, LossIsVisible, ReportFinal, FlowPackets
<1> QED BY <1>1, <1>2 DEF Accounted

LEMMA AccountedCapture ==
    ASSUME WellFormed, Accounted, CaptureThread, UNCHANGED loopVars
    PROVE  Accounted'
<1>1. UNCHANGED << pc, packets, builder, handedOver, report >>
  BY DEF loopVars
<1>2. /\ received \in Nat /\ dropped \in Nat /\ queue \in Seq(Packet)
      /\ hand \in Packet /\ traffic \in SUBSET Packet
  BY DEF WellFormed, Typing
<1>3. thread # "ended"
  BY DEF CaptureThread, CaptureStep, Receive, Enqueue, Overflow, CountDrop,
     StopFilter, SniffTimeout, SniffFails, Close
<1>4. ReportSound'
  <2>1. report = NoReport
    BY <1>3 DEF WellFormed, Control, After, Accounted, ReportSound
  <2> QED BY <1>1, <2>1 DEF ReportSound, LossIsVisible, ReportFinal
<1>5. ASSUME NEW key \in Labels, Receive(key)
      PROVE  Accounted'
  <2> PICK packet : packet = [n |-> received + 1, key |-> key]
    OBVIOUS
  <2>1. /\ thread = "sniff" /\ thread' = "put" /\ hand' = packet
        /\ received' = received + 1 /\ traffic' = traffic \cup {packet}
        /\ UNCHANGED << queue, items, dropped >>
    BY <1>5 DEF Receive
  <2>2. NothingForgotten'
    <3>1. \A p \in traffic : Tracked(p) => Tracked(p)'
      BY <1>1, <2>1 DEF Tracked, InCallback
    <3>2. Tracked(packet)'
      BY <2>1 DEF Tracked, InCallback
    <3> QED BY <2>1, <3>1, <3>2 DEF Accounted, NothingForgotten
  <2> QED BY <1>4, <2>2 DEF Accounted
<1>6. CASE Enqueue \/ Overflow \/ CountDrop
  <2>1. UNCHANGED << received, items, traffic, hand >>
    BY <1>6 DEF Enqueue, Overflow, CountDrop
  <2>2. ASSUME NEW p \in traffic, Tracked(p) PROVE Tracked(p)'
    <3>1. CASE Enqueue
      <4>1. queue' = Append(queue, hand) /\ UNCHANGED dropped
        BY <3>1 DEF Enqueue
      <4>2. ElementsOf(queue)' = ElementsOf(queue) \cup {hand}
        BY <1>2, <4>1, AppendElements
      <4> QED BY <1>1, <2>1, <2>2, <4>1, <4>2 DEF Tracked, InCallback
    <3>2. CASE Overflow
      BY <1>1, <2>1, <2>2, <3>2 DEF Overflow, Tracked, InCallback
    <3>3. CASE CountDrop
      <4>1. dropped' > 0
        BY <1>2, <3>3 DEF CountDrop
      <4> QED BY <4>1 DEF Tracked
    <3> QED BY <1>6, <3>1, <3>2, <3>3
  <2>3. NothingForgotten'
    BY <2>1, <2>2 DEF Accounted, NothingForgotten
  <2> QED BY <1>4, <2>3 DEF Accounted
<1>7. CASE StopFilter \/ SniffTimeout \/ SniffFails \/ Close
  <2>1. /\ UNCHANGED << queue, items, dropped, traffic, received >>
        /\ thread \notin {"put", "drop"}
    BY <1>7 DEF StopFilter, SniffTimeout, SniffFails, Close
  <2> QED BY <1>1, <2>1, AccountedUnmoved
<1> QED BY <1>5, <1>6, <1>7 DEF CaptureThread, CaptureStep

LEMMA AccountedControl ==
    ASSUME WellFormed, Accounted,
           \/ Start \/ LoopTest \/ FeedDone \/ EmitNothing \/ WindowRaises
           \/ EndTest \/ Stop \/ Join \/ Elapse \/ SlideDue
    PROVE  Accounted'
<1>2. CASE Start
  <2>1. pc = "start" /\ thread = "none"
    BY <1>2 DEF Start, Goto, WellFormed, Control, After
  <2>2. UNCHANGED << queue, items, packets, builder, handedOver, dropped,
                     traffic, received, report >>
    BY <1>2 DEF Start, StartCapture
  <2> QED BY <2>1, <2>2, AccountedUnmoved
<1>3. CASE Stop
  <2>1. pc = "stop"
    BY <1>3 DEF Stop, Goto
  <2>2. UNCHANGED << queue, items, packets, builder, handedOver, dropped,
                     traffic, received, report, thread, hand >>
    BY <1>3 DEF Stop, StopCapture
  <2> QED BY <2>1, <2>2, AccountedUnmoved
<1>4. CASE \/ LoopTest \/ FeedDone \/ EmitNothing \/ WindowRaises \/ EndTest
           \/ Join \/ Elapse \/ SlideDue
  <2>1. UNCHANGED << queue, items, packets, builder, handedOver, dropped,
                     traffic, received, report, thread, hand >>
    BY <1>4 DEF LoopTest, FeedDone, EmitNothing, WindowRaises, EndTest,
       Join, Elapse, SlideDue, Local, captureVars
  <2>2. pc = "done" => pc' = "done"
    BY <1>4 DEF LoopTest, FeedDone, EmitNothing, WindowRaises, EndTest,
       Join, Elapse, SlideDue, Goto
  <2> QED BY <2>1, <2>2, AccountedUnmoved
<1> QED BY <1>2, <1>3, <1>4

LEMMA AccountedMoves ==
    ASSUME WellFormed, Accounted, Take \/ DrainDone \/ FeedPacket \/ EmitSnapshot
    PROVE  Accounted'
<1>1. /\ queue \in Seq(Packet) /\ items \in Seq(Packet) /\ packets \in Seq(Packet)
      /\ builder \in Builder /\ traffic \in SUBSET Packet
  BY DEF WellFormed, Typing
<1>2. pc # "done" /\ UNCHANGED << traffic, report, thread, hand, dropped >>
  BY DEF Take, DrainDone, FeedPacket, EmitSnapshot, DrainTake, DrainReturn,
     Goto, Local, captureVars, loopVars
<1>3. report' = NoReport
  BY <1>2 DEF Accounted, ReportSound
<1>4. ASSUME NEW p \in traffic, p.key \in Keys, Tracked(p)
      PROVE  Tracked(p)'
  <2>1. CASE Take
    <3>1. /\ queue # << >> /\ items' = Append(items, Head(queue))
          /\ queue' = Tail(queue)
          /\ UNCHANGED << packets, builder, handedOver >>
      BY <2>1 DEF Take, DrainTake, loopVars
    <3>2. Head(queue) \in Packet
          /\ ElementsOf(queue) = {Head(queue)} \cup ElementsOf(queue)'
      BY <1>1, <3>1, HeadTailElements
    <3>3. ElementsOf(items)' = ElementsOf(items) \cup {Head(queue)}
      BY <1>1, <3>1, <3>2, AppendElements
    <3> QED BY <1>2, <1>4, <3>1, <3>2, <3>3 DEF Tracked, InCallback
  <2>2. CASE DrainDone
    <3>1. packets' = items /\ UNCHANGED << queue, builder, handedOver >>
      BY <2>2 DEF DrainDone, DrainReturn
    <3>2. packets = << >>
      BY <2>2 DEF DrainDone, Goto, WellFormed, Control, After
    <3>3. ElementsOf(packets) = {}
      BY <1>1, <3>2, NoElements
    <3>4. ElementsOf(packets)' = ElementsOf(items)
      BY <3>1
    <3> QED BY <1>2, <1>4, <3>1, <3>3, <3>4 DEF Tracked, InCallback
  <2>3. CASE FeedPacket
    <3>1. /\ packets # << >> /\ packets' = Tail(packets)
          /\ builder' = AddPacket(builder, Head(packets))
          /\ UNCHANGED << queue, items, handedOver >>
      BY <2>3 DEF FeedPacket, Local, captureVars
    <3>2. Head(packets) \in Packet
          /\ ElementsOf(packets) = {Head(packets)} \cup ElementsOf(packets)'
      BY <1>1, <3>1, HeadTailElements
    <3>3. /\ builder.evicted \in Nat /\ builder'.evicted \in Nat
          /\ builder'.evicted >= builder.evicted
          /\ builder'.evicted > 0 \/
               /\ SnapshotPackets(builder) \subseteq SnapshotPackets(builder)'
               /\ Head(packets).key \in Keys =>
                    Head(packets).n \in SnapshotPackets(builder)'
      BY <1>1, <3>1, <3>2, AddPacketAccounts DEF Builder
    <3>4. CASE builder'.evicted > 0
      BY <3>4 DEF Tracked
    <3>5. CASE ~ (builder'.evicted > 0)
      <4>1. ~ (builder.evicted > 0)
        BY <3>3, <3>5
      <4> QED BY <1>2, <1>4, <3>1, <3>2, <3>3, <3>5, <4>1 DEF Tracked, InCallback
    <3> QED BY <3>4, <3>5
  <2>4. CASE EmitSnapshot
    <3>1. /\ handedOver' = handedOver \cup SnapshotPackets(builder)
          /\ builder' = AfterSnapshot(builder)
          /\ UNCHANGED << queue, items, packets >>
      BY <2>4 DEF EmitSnapshot, Local, captureVars
    <3>2. builder'.evicted = builder.evicted
      BY <1>1, <3>1, AfterSnapshotEmpty
    <3> QED BY <1>2, <1>4, <3>1, <3>2 DEF Tracked, InCallback
  <2> QED BY <2>1, <2>2, <2>3, <2>4
<1>5. NothingForgotten'
  BY <1>2, <1>4 DEF Accounted, NothingForgotten
<1> QED BY <1>3, <1>5 DEF Accounted, ReportSound, LossIsVisible, ReportFinal

\* When the report is made the thread has ended and the queue is empty: a run
\* in which nothing was dropped or evicted misses no packet.
LEMMA AccountedFinish ==
    ASSUME WellFormed, Accounted, Finish
    PROVE  Accounted'
<1>1. /\ pc = "finish" /\ pc' = "done"
      /\ handedOver' = handedOver \cup SnapshotPackets(builder)
      /\ builder' = AfterSnapshot(builder)
      /\ UNCHANGED << queue, items, packets, thread, hand, dropped, processed,
                      traffic, received >>
  BY DEF Finish, Goto, Local, captureVars
<1>2. report' = [ status |-> IF Degraded THEN "DEGRADED" ELSE "OK",
                  received |-> received, processed |-> processed,
                  dropped |-> dropped ]
  BY DEF Finish
<1>3. /\ received \in Nat /\ dropped \in Nat /\ processed \in Nat
      /\ queue \in Seq(Packet) /\ Len(queue) \in Nat /\ builder \in Builder
      /\ items = << >> /\ packets = << >> /\ Len(items) = 0
      /\ ElementsOf(items) = {} /\ ElementsOf(packets) = {}
  BY <1>1, NoElements DEF WellFormed, Typing, Control, After
<1>4. NothingForgotten'
  <2>1. builder'.evicted = builder.evicted
    BY <1>1, <1>3, AfterSnapshotEmpty
  <2>2. \A p \in traffic : Tracked(p) => Tracked(p)'
    BY <1>1, <2>1 DEF Tracked, InCallback
  <2> QED BY <1>1, <2>2 DEF Accounted, NothingForgotten
<1>5. /\ thread = "ended" /\ queue = << >>
      /\ Len(queue) = 0 /\ ElementsOf(queue) = {}
  BY <1>1, NoElements DEF WellFormed, Typing, Control, After
<1>6. LossIsVisible'
  <2>1. SUFFICES ASSUME report'.status = "OK"
                 PROVE  FlowPackets' \subseteq handedOver'
    BY DEF LossIsVisible
  <2>2. ~ (dropped > 0) /\ ~ (builder.evicted > 0)
    BY <1>2, <2>1 DEF Degraded
  <2>3. \A p \in traffic : Tracked(p) => p.n \in handedOver'
    BY <1>1, <1>3, <1>5, <2>2 DEF Tracked, InCallback
  <2> QED BY <1>1, <2>3 DEF Accounted, NothingForgotten, FlowPackets
<1>7. ReportFinal'
  <2>1. received = processed + dropped
    BY <1>3, <1>5 DEF WellFormed, PacketsConserved, InHand
  <2> QED BY <1>1, <1>2, <1>5, <2>1 DEF ReportFinal
<1> QED BY <1>1, <1>4, <1>6, <1>7 DEF Accounted, ReportSound

LEMMA AccountedStep == WellFormed /\ Accounted /\ [Next]_vars => Accounted'
<1> SUFFICES ASSUME WellFormed, Accounted, [Next]_vars PROVE Accounted'
  OBVIOUS
<1>1. CASE UNCHANGED vars
  <2>1. UNCHANGED << queue, items, packets, builder, handedOver, dropped, traffic,
                     received, report, thread, hand, pc >>
    BY <1>1 DEF vars, captureVars, loopVars
  <2> QED BY <2>1, AccountedUnmoved
<1>2. CASE Next
  BY <1>2, AccountedCapture, AccountedControl, AccountedMoves, AccountedFinish
     DEF Next, Main
<1> QED BY <1>1, <1>2

\* process_live never reports OK over a packet that the detectors were not
\* given, however the capture thread and the loop interleave.
THEOREM NoSilentLoss == Spec => []LossIsVisible
<1>1. Accounted => LossIsVisible
  BY DEF Accounted, ReportSound
<1> QED BY WellFormedInit, WellFormedStep, AccountedInit, AccountedStep, <1>1,
           PTL DEF Spec

\* The counters of a report balance, and nothing happens after it that would
\* change them, although no one checks that the capture thread ended.
THEOREM ReportIsFinal == Spec => []ReportFinal
<1>1. Accounted => ReportFinal
  BY DEF Accounted, ReportSound
<1> QED BY WellFormedInit, WellFormedStep, AccountedInit, AccountedStep, <1>1,
           PTL DEF Spec

-----------------------------------------------------------------------------
(***************************************************************************)
(* Packets stay in the order in which they were received: those that went  *)
(* into the flow table came before those that the loop holds, and these    *)
(* before those in the queue.  So no packet is counted in two flows or in  *)
(* two snapshots.                                                          *)
(***************************************************************************)
NumbersOf(s) == {s[i].n : i \in DOMAIN s}
Before(A, B) == \A m \in A, n \in B : m < n
Rising(s) == \A i, j \in DOMAIN s : i < j => s[i].n < s[j].n
DistinctKeys(fl) == \A i, j \in DOMAIN fl : i # j => fl[i].key # fl[j].key

LEMMA NumbersAppend ==
    ASSUME NEW s \in Seq(Packet), NEW e \in Packet
    PROVE  /\ NumbersOf(Append(s, e)) = NumbersOf(s) \cup {e.n}
           /\ Rising(s) /\ Before(NumbersOf(s), {e.n}) => Rising(Append(s, e))
<1>1. /\ Len(s) \in Nat /\ DOMAIN s = 1..Len(s) /\ DOMAIN Append(s, e) = 1..(Len(s) + 1)
      /\ \A i \in 1..Len(s) : Append(s, e)[i] = s[i]
      /\ Append(s, e)[Len(s) + 1] = e
  OBVIOUS
<1>2. NumbersOf(Append(s, e)) = NumbersOf(s) \cup {e.n}
  <2>1. \A i \in 1..(Len(s) + 1) : i \in 1..Len(s) \/ i = Len(s) + 1
    BY <1>1
  <2>2. 1..Len(s) \subseteq 1..(Len(s) + 1) /\ Len(s) + 1 \in 1..(Len(s) + 1)
    BY <1>1
  <2> QED BY <1>1, <2>1, <2>2 DEF NumbersOf
<1>3. ASSUME Rising(s), Before(NumbersOf(s), {e.n}),
             NEW i \in 1..(Len(s) + 1), NEW j \in 1..(Len(s) + 1), i < j
      PROVE  Append(s, e)[i].n < Append(s, e)[j].n
  <2>1. i \in 1..Len(s) /\ (j \in 1..Len(s) \/ j = Len(s) + 1)
    BY <1>1, <1>3
  <2>2. s[i].n < e.n
    BY <1>1, <1>3, <2>1 DEF Before, NumbersOf
  <2>3. CASE j \in 1..Len(s)
    BY <1>1, <1>3, <2>1, <2>3 DEF Rising
  <2>4. CASE j = Len(s) + 1
    BY <1>1, <2>1, <2>2, <2>4
  <2> QED BY <2>1, <2>3, <2>4
<1> QED BY <1>1, <1>2, <1>3 DEF Rising

LEMMA NumbersTail ==
    ASSUME NEW s \in Seq(Packet), s # << >>
    PROVE  /\ Head(s) \in Packet
           /\ NumbersOf(s) = {Head(s).n} \cup NumbersOf(Tail(s))
           /\ Rising(s) => Rising(Tail(s)) /\ Before({Head(s).n}, NumbersOf(Tail(s)))
<1>1. /\ Head(s) \in Packet /\ Head(s) = s[1]
      /\ Len(s) \in Nat \ {0} /\ DOMAIN s = 1..Len(s)
      /\ DOMAIN Tail(s) = 1..(Len(s) - 1)
      /\ \A i \in 1..(Len(s) - 1) : Tail(s)[i] = s[i + 1]
  OBVIOUS
<1>2. \A i \in 1..(Len(s) - 1) : i + 1 \in 1..Len(s) /\ 1 < i + 1
  BY <1>1
<1>3. \A i \in 1..Len(s) : i = 1 \/ (i - 1 \in 1..(Len(s) - 1) /\ Tail(s)[i - 1] = s[i])
  <2> SUFFICES ASSUME NEW i \in 1..Len(s), i # 1
               PROVE  i - 1 \in 1..(Len(s) - 1) /\ Tail(s)[i - 1] = s[i]
    OBVIOUS
  <2>1. i - 1 \in 1..(Len(s) - 1) /\ (i - 1) + 1 = i
    BY <1>1
  <2> QED BY <1>1, <2>1
<1>4. NumbersOf(s) = {Head(s).n} \cup NumbersOf(Tail(s))
  <2>1. NumbersOf(s) \subseteq {Head(s).n} \cup NumbersOf(Tail(s))
    <3> SUFFICES ASSUME NEW i \in 1..Len(s)
                 PROVE  s[i].n \in {Head(s).n} \cup NumbersOf(Tail(s))
      BY <1>1 DEF NumbersOf
    <3>1. CASE i = 1
      BY <1>1, <3>1
    <3>2. CASE i # 1
      <4>1. i - 1 \in DOMAIN Tail(s) /\ Tail(s)[i - 1] = s[i]
        BY <1>1, <1>3, <3>2
      <4> DEFINE k == i - 1
      <4>2. k \in DOMAIN Tail(s) /\ Tail(s)[k] = s[i]
        BY <4>1
      <4> HIDE DEF k
      <4> QED BY <4>2 DEF NumbersOf
    <3> QED BY <3>1, <3>2
  <2>2. {Head(s).n} \cup NumbersOf(Tail(s)) \subseteq NumbersOf(s)
    BY <1>1, <1>2 DEF NumbersOf
  <2> QED BY <2>1, <2>2
<1>5. ASSUME Rising(s) PROVE Rising(Tail(s)) /\ Before({Head(s).n}, NumbersOf(Tail(s)))
  <2>1. ASSUME NEW i \in 1..(Len(s) - 1), NEW j \in 1..(Len(s) - 1), i < j
        PROVE  Tail(s)[i].n < Tail(s)[j].n
    <3>1. i + 1 \in 1..Len(s) /\ j + 1 \in 1..Len(s) /\ i + 1 < j + 1
      BY <1>1, <2>1
    <3>2. s[i + 1].n < s[j + 1].n
      BY <1>1, <1>5, <3>1 DEF Rising
    <3> QED BY <1>1, <3>2
  <2>2. Rising(Tail(s))
    BY <1>1, <2>1 DEF Rising
  <2>3. ASSUME NEW i \in 1..(Len(s) - 1) PROVE Head(s).n < Tail(s)[i].n
    <3>1. 1 \in 1..Len(s) /\ i + 1 \in 1..Len(s) /\ 1 < i + 1
      BY <1>1, <1>2
    <3>2. s[1].n < s[i + 1].n
      BY <1>1, <1>5, <3>1 DEF Rising
    <3> QED BY <1>1, <3>2
  <2> QED BY <1>1, <2>2, <2>3 DEF Before, NumbersOf
<1> QED BY <1>1, <1>4, <1>5

\* add_packet keeps the table within max_flows and its keys distinct, and
\* counts nothing but the packet that it is given.
LEMMA AddPacketShape ==
    ASSUME NEW b \in Builder, NEW packet \in Packet,
           Len(b.flows) <= MaxFlows, DistinctKeys(b.flows)
    PROVE  LET after == AddPacket(b, packet)
           IN  /\ Len(after.flows) <= MaxFlows
               /\ DistinctKeys(after.flows)
               /\ SnapshotPackets(after) \subseteq SnapshotPackets(b) \cup {packet.n}
<1> DEFINE at == Position(b.flows, packet.key)
           after == AddPacket(b, packet)
           entry == [key |-> packet.key, packets |-> {packet.n}]
           fl == Append(b.flows, entry)
<1>1. /\ b.flows \in Seq(FlowEntry) /\ Len(b.flows) \in Nat
      /\ DOMAIN b.flows = 1..Len(b.flows)
      /\ packet.n \in Nat /\ MaxFlows \in Nat \ {0}
  BY BuilderAssumption DEF Builder, Packet
<1>2. CASE packet.key \notin Keys
  BY <1>2 DEF AddPacket
<1>3. CASE packet.key \in Keys /\ at = {}
  <2>1. entry \in FlowEntry /\ entry.key = packet.key /\ entry.packets = {packet.n}
    BY <1>1, <1>3 DEF FlowEntry
  <2>2. after = Evict([b EXCEPT !.flows = fl, !.identity = @ \cup {packet.key}])
    BY <1>3 DEF AddPacket
  <2>3. \A i \in 1..Len(b.flows) : b.flows[i].key # packet.key
    BY <1>1, <1>3 DEF Position
  <2> HIDE DEF entry
  <2>4. /\ fl \in Seq(FlowEntry) /\ fl # << >> /\ Len(fl) = Len(b.flows) + 1
        /\ DOMAIN fl = 1..(Len(b.flows) + 1)
        /\ \A i \in 1..Len(b.flows) : fl[i] = b.flows[i]
        /\ fl[Len(b.flows) + 1] = entry
    BY <1>1, <2>1
  <2>5. after.flows = IF Len(fl) <= MaxFlows THEN fl ELSE Tail(fl)
    <3> HIDE DEF fl, after
    <3> QED BY <2>2 DEF Evict, Builder
  <2> HIDE DEF fl, after
  <2>6. \A i \in 1..(Len(b.flows) + 1) : i \in 1..Len(b.flows) \/ i = Len(b.flows) + 1
    BY <1>1
  <2>7. DistinctKeys(fl)
    <3> SUFFICES ASSUME NEW i \in 1..(Len(b.flows) + 1), NEW j \in 1..(Len(b.flows) + 1),
                        i # j
                 PROVE  fl[i].key # fl[j].key
      BY <2>4 DEF DistinctKeys
    <3>1. CASE i \in 1..Len(b.flows) /\ j \in 1..Len(b.flows)
      BY <1>1, <2>4, <3>1 DEF DistinctKeys
    <3>2. CASE i \in 1..Len(b.flows) /\ j = Len(b.flows) + 1
      BY <2>1, <2>3, <2>4, <3>2
    <3>3. CASE i = Len(b.flows) + 1 /\ j \in 1..Len(b.flows)
      BY <2>1, <2>3, <2>4, <3>3
    <3> QED BY <2>6, <3>1, <3>2, <3>3
  <2>8. \A i \in 1..(Len(b.flows) + 1) :
           fl[i].packets \subseteq SnapshotPackets(b) \cup {packet.n}
    <3>1. \A i \in 1..Len(b.flows) : b.flows[i].packets \subseteq SnapshotPackets(b)
      BY <1>1 DEF SnapshotPackets
    <3> QED BY <2>1, <2>4, <2>6, <3>1
  <2>9. CASE Len(fl) <= MaxFlows
    <3>1. after.flows = fl
      BY <2>5, <2>9
    <3>2. SnapshotPackets(after) \subseteq SnapshotPackets(b) \cup {packet.n}
      BY <2>4, <2>8, <3>1 DEF SnapshotPackets
    <3>3. Len(after.flows) <= MaxFlows /\ DistinctKeys(after.flows)
      BY <2>7, <2>9, <3>1
    <3> QED BY <3>2, <3>3 DEF after
  <2>10. CASE ~ (Len(fl) <= MaxFlows)
    <3>1. after.flows = Tail(fl)
      BY <2>5, <2>10
    <3>2. /\ Len(Tail(fl)) = Len(b.flows) /\ DOMAIN Tail(fl) = 1..Len(b.flows)
          /\ \A i \in 1..Len(b.flows) : Tail(fl)[i] = fl[i + 1]
      BY <1>1, <2>4
    <3>3. \A i \in 1..Len(b.flows) : i + 1 \in 1..(Len(b.flows) + 1)
      BY <1>1
    <3>4. DistinctKeys(Tail(fl))
      <4> SUFFICES ASSUME NEW i \in 1..Len(b.flows), NEW j \in 1..Len(b.flows), i # j
                   PROVE  Tail(fl)[i].key # Tail(fl)[j].key
        BY <3>2 DEF DistinctKeys
      <4>1. i + 1 # j + 1 /\ i + 1 \in DOMAIN fl /\ j + 1 \in DOMAIN fl
        BY <1>1, <2>4, <3>3
      <4>2. fl[i + 1].key # fl[j + 1].key
        BY <2>7, <4>1 DEF DistinctKeys
      <4> QED BY <3>2, <4>2
    <3>5. \A i \in 1..Len(b.flows) :
             Tail(fl)[i].packets \subseteq SnapshotPackets(b) \cup {packet.n}
      BY <2>8, <3>2, <3>3
    <3>6. SnapshotPackets(after) \subseteq SnapshotPackets(b) \cup {packet.n}
      <4>1. SnapshotPackets(after) = UNION {Tail(fl)[i].packets : i \in 1..Len(b.flows)}
        BY <3>1, <3>2, Zenon DEF SnapshotPackets
      <4> QED BY <3>5, <4>1
    <3>7. Len(after.flows) <= MaxFlows /\ DistinctKeys(after.flows)
      BY <1>1, <3>1, <3>2, <3>4
    <3> QED BY <3>6, <3>7 DEF after
  <2> QED BY <2>9, <2>10
<1>4. CASE packet.key \in Keys /\ at # {}
  <2> DEFINE joined == [i \in DOMAIN b.flows |->
                          IF i \in at
                          THEN [b.flows[i] EXCEPT !.packets = @ \cup {packet.n}]
                          ELSE b.flows[i]]
  <2>1. after = [b EXCEPT !.flows = joined]
    BY <1>4 DEF AddPacket
  <2>2. after.flows = joined
    <3> HIDE DEF joined, after
    <3> QED BY <2>1 DEF Builder
  <2>3. \A i \in DOMAIN b.flows : b.flows[i] \in FlowEntry
    BY <1>1
  <2>4. \A i \in DOMAIN b.flows :
           /\ joined[i] \in FlowEntry
           /\ joined[i].key = b.flows[i].key
           /\ joined[i].packets \subseteq b.flows[i].packets \cup {packet.n}
    BY <1>1, <2>3 DEF FlowEntry
  <2>5. DOMAIN joined = DOMAIN b.flows /\ joined \in [1..Len(b.flows) -> FlowEntry]
    BY <1>1, <2>4
  <2> HIDE DEF joined, at
  <2>6. joined \in Seq(FlowEntry) /\ Len(joined) = Len(b.flows)
    <3>1. joined \in Seq(FlowEntry)
      BY <1>1, <2>5, SeqDef
    <3>2. Len(joined) \in Nat /\ 1..Len(joined) = 1..Len(b.flows)
      BY <1>1, <2>5, <3>1, LenProperties
    <3> QED BY <1>1, <3>1, <3>2
  <2>7. DistinctKeys(joined)
    BY <2>4, <2>5 DEF DistinctKeys
  <2>8. \A i \in DOMAIN b.flows : joined[i].packets \subseteq SnapshotPackets(b) \cup {packet.n}
    BY <2>4 DEF SnapshotPackets
  <2> QED BY <2>2, <2>5, <2>6, <2>7, <2>8 DEF SnapshotPackets
<1> QED BY <1>2, <1>3, <1>4

-----------------------------------------------------------------------------
Passed == SnapshotPackets(builder) \cup handedOver
Waiting == NumbersOf(queue) \cup NumbersOf(items) \cup NumbersOf(packets)

\* The packet in the callback, if there is one, is the last that came.
InLine ==
    /\ Rising(queue) /\ Rising(items) /\ Rising(packets)
    /\ Before(NumbersOf(items) \cup NumbersOf(packets), NumbersOf(queue))
    /\ Before(Passed, Waiting)
    /\ Passed \cup Waiting \subseteq 1..(received - InHand)
    /\ thread \in {"put", "drop"} => hand.n = received

Locations == {"start", "loop", "drain", "feed", "emit", "test", "stop", "join",
              "last", "lastFeed", "finish", "done", "raised"}

Fitting ==
    /\ isCapturing \in BOOLEAN /\ stopEvent \in BOOLEAN /\ pc \in Locations
    /\ Len(queue) <= QueueSize
    /\ Len(builder.flows) <= MaxFlows

LineInv == Fitting /\ InLine /\ FlowsDisjoint

LEMMA LineInit == Init => LineInv
<1> SUFFICES ASSUME Init PROVE LineInv
  OBVIOUS
<1>1. /\ queue = << >> /\ items = << >> /\ packets = << >> /\ builder.flows = << >>
      /\ handedOver = {} /\ thread = "none" /\ received = 0
      /\ isCapturing = FALSE /\ stopEvent = FALSE /\ pc = "start"
  BY DEF Init, CaptureInit, EmptyBuilder
<1>2. Passed = {} /\ Waiting = {} /\ NumbersOf(queue) = {}
  BY <1>1 DEF Passed, Waiting, SnapshotPackets, NumbersOf
<1>3. InLine
  BY <1>1, <1>2 DEF InLine, Rising, Before, InHand
<1>4. FlowsDisjoint
  BY <1>1 DEF FlowsDisjoint
<1>5. Fitting
  <2>1. Len(queue) = 0 /\ Len(builder.flows) = 0
    BY <1>1
  <2>2. 0 <= QueueSize /\ 0 <= MaxFlows
    BY CaptureAssumption, BuilderAssumption
  <2> QED BY <1>1, <2>1, <2>2 DEF Fitting, Locations
<1> QED BY <1>3, <1>4, <1>5 DEF LineInv

\* A step that moves no packet.
LEMMA LineUnmoved ==
    ASSUME WellFormed, LineInv, Fitting',
           UNCHANGED << queue, items, packets, builder, handedOver, received, hand >>,
           InHand' = InHand \/ InHand' = 0,
           thread' \in {"put", "drop"} => thread \in {"put", "drop"}
    PROVE  LineInv'
<1>1. received \in Nat /\ InHand \in {0, 1}
  BY DEF WellFormed, Typing, InHand
<1>2. Passed' = Passed /\ Waiting' = Waiting
  BY DEF Passed, Waiting
<1>3. 1..(received - InHand) \subseteq 1..(received' - InHand')
  BY <1>1
<1>4. InLine'
  BY <1>2, <1>3 DEF LineInv, InLine
<1>5. FlowsDisjoint'
  BY DEF LineInv, FlowsDisjoint
<1> QED BY <1>4, <1>5 DEF LineInv

LEMMA LineCapture ==
    ASSUME WellFormed, LineInv, CaptureThread, UNCHANGED loopVars
    PROVE  LineInv'
<1>1. /\ UNCHANGED << pc, packets, builder, handedOver >>
      /\ received \in Nat /\ InHand \in {0, 1} /\ queue \in Seq(Packet)
      /\ Len(queue) \in Nat /\ hand \in Packet
  BY DEF loopVars, WellFormed, Typing, InHand
<1>2. ASSUME NEW key \in Labels, Receive(key)
      PROVE  LineInv'
  <2>1. /\ thread = "sniff" /\ thread' = "put" /\ received' = received + 1
        /\ hand'.n = received'
        /\ UNCHANGED << queue, items, isCapturing, stopEvent >>
    BY <1>2 DEF Receive
  <2>2. received' - InHand' = received - InHand /\ thread' \in {"put", "drop"}
    BY <1>1, <2>1 DEF InHand
  <2>3. InLine'
    <3>1. Passed' = Passed /\ Waiting' = Waiting
      BY <1>1, <2>1 DEF Passed, Waiting
    <3> QED BY <1>1, <2>1, <2>2, <3>1 DEF LineInv, InLine
  <2>4. Fitting' /\ FlowsDisjoint'
    BY <1>1, <2>1 DEF LineInv, Fitting, FlowsDisjoint
  <2> QED BY <2>3, <2>4 DEF LineInv
<1>3. CASE Enqueue
  <2>1. /\ thread = "put" /\ thread' = "filter" /\ Len(queue) < QueueSize
        /\ queue' = Append(queue, hand)
        /\ UNCHANGED << items, received, isCapturing, stopEvent >>
    BY <1>3 DEF Enqueue
  <2>2. /\ hand.n = received /\ InHand = 1 /\ InHand' = 0
        /\ Passed \cup Waiting \subseteq 1..(received - 1)
    BY <2>1 DEF LineInv, InLine, InHand
  <2>3. Before(Passed \cup Waiting, {hand.n}) /\ received \in Nat \ {0}
    <3>1. received # 0
      BY <1>1, <2>1 DEF WellFormed, PacketsConserved, InHand, Typing
    <3>2. \A m \in 1..(received - 1) : m < received
      BY <1>1
    <3> QED BY <1>1, <2>2, <3>1, <3>2 DEF Before
  <2>4. /\ NumbersOf(queue)' = NumbersOf(queue) \cup {hand.n}
        /\ Rising(queue)'
    <3>1. Before(NumbersOf(queue), {hand.n}) /\ Rising(queue)
      BY <2>3 DEF LineInv, InLine, Before, Waiting
    <3> QED BY <1>1, <2>1, <3>1, NumbersAppend
  <2>5. Passed' = Passed /\ Waiting' = Waiting \cup {hand.n}
    BY <1>1, <2>1, <2>4 DEF Passed, Waiting
  <2>6. Passed' \cup Waiting' \subseteq 1..(received' - InHand')
    <3>1. 1..(received - 1) \subseteq 1..received /\ received \in 1..received
      BY <1>1, <2>3
    <3>2. received' - InHand' = received
      BY <1>1, <2>1, <2>2
    <3> QED BY <2>2, <2>5, <3>1, <3>2
  <2>7. InLine'
    <3>1. Before(NumbersOf(items) \cup NumbersOf(packets), NumbersOf(queue))
          /\ Before(Passed, Waiting) /\ Rising(items) /\ Rising(packets)
      BY DEF LineInv, InLine
    <3>2. Before(NumbersOf(items) \cup NumbersOf(packets), NumbersOf(queue) \cup {hand.n})
      BY <2>3, <3>1 DEF Before, Waiting
    <3>3. Before(Passed, Waiting \cup {hand.n})
      BY <2>3, <3>1 DEF Before
    <3> QED BY <1>1, <2>1, <2>4, <2>5, <2>6, <3>1, <3>2, <3>3 DEF InLine
  <2>8. Fitting'
    <3>1. Len(queue') = Len(queue) + 1
      BY <1>1, <2>1, AppendElements
    <3> QED BY <1>1, <2>1, <3>1, CaptureAssumption DEF LineInv, Fitting
  <2>9. FlowsDisjoint'
    BY <1>1 DEF LineInv, FlowsDisjoint
  <2> QED BY <2>7, <2>8, <2>9 DEF LineInv
<1>4. CASE Overflow \/ CountDrop \/ StopFilter \/ SniffTimeout \/ SniffFails \/ Close
  <2>1. /\ UNCHANGED << queue, items, received, hand, stopEvent >>
        /\ isCapturing' \in BOOLEAN
        /\ thread' \in {"put", "drop"} => thread \in {"put", "drop"}
    BY <1>4 DEF Overflow, CountDrop, StopFilter, SniffTimeout, SniffFails, Close,
       LineInv, Fitting
  <2>2. InHand' = InHand \/ InHand' = 0
    BY <2>1 DEF InHand
  <2>3. Fitting'
    BY <1>1, <2>1 DEF LineInv, Fitting
  <2> QED BY <1>1, <2>1, <2>2, <2>3, LineUnmoved
<1> QED BY <1>2, <1>3, <1>4 DEF CaptureThread, CaptureStep

LEMMA LineControl ==
    ASSUME WellFormed, LineInv,
           \/ Start \/ LoopTest \/ FeedDone \/ EmitNothing \/ WindowRaises
           \/ EndTest \/ Stop \/ Join \/ Elapse \/ SlideDue
    PROVE  LineInv'
<1>1. CASE Start
  <2>1. /\ UNCHANGED << queue, items, packets, builder, handedOver, received, hand >>
        /\ isCapturing' = TRUE /\ stopEvent' = FALSE /\ pc' = "loop" /\ thread' = "sniff"
    BY <1>1 DEF Start, StartCapture, Goto
  <2>2. Fitting' /\ InHand' = 0
    BY <2>1 DEF LineInv, Fitting, Locations, InHand
  <2> QED BY <2>1, <2>2, LineUnmoved
<1>2. CASE Stop
  <2>1. /\ UNCHANGED << queue, items, packets, builder, handedOver, received, hand, thread >>
        /\ isCapturing' = FALSE /\ stopEvent' = TRUE /\ pc' = "join"
    BY <1>2 DEF Stop, StopCapture, Goto
  <2>2. Fitting' /\ InHand' = InHand
    BY <2>1 DEF LineInv, Fitting, Locations, InHand
  <2> QED BY <2>1, <2>2, LineUnmoved
<1>3. CASE \/ LoopTest \/ FeedDone \/ EmitNothing \/ WindowRaises \/ EndTest
           \/ Join \/ Elapse \/ SlideDue
  <2>1. UNCHANGED << queue, items, packets, builder, handedOver, received, hand, thread,
                     isCapturing, stopEvent >>
    BY <1>3 DEF LoopTest, FeedDone, EmitNothing, WindowRaises, EndTest, Join, Elapse,
       SlideDue, Local, captureVars
  <2>2. pc' \in Locations
    BY <1>3 DEF LoopTest, FeedDone, EmitNothing, WindowRaises, EndTest, Join, Elapse,
       SlideDue, Goto, Locations, LineInv, Fitting
  <2>3. Fitting' /\ InHand' = InHand
    BY <2>1, <2>2 DEF LineInv, Fitting, InHand
  <2> QED BY <2>1, <2>3, LineUnmoved
<1> QED BY <1>1, <1>2, <1>3

\* The steps that do.  Each of them takes the oldest packet of one place to the
\* end of the next.
LEMMA LineMoves ==
    ASSUME WellFormed, LineInv,
           Take \/ DrainDone \/ FeedPacket \/ EmitSnapshot \/ Finish
    PROVE  LineInv'
<1>1. /\ queue \in Seq(Packet) /\ items \in Seq(Packet) /\ packets \in Seq(Packet)
      /\ builder \in Builder /\ received \in Nat
      /\ Len(queue) \in Nat /\ Len(builder.flows) \in Nat
  BY DEF WellFormed, Typing, Builder
<1>2. UNCHANGED << thread, hand, received, isCapturing, stopEvent, InHand >>
      /\ pc' \in Locations
  BY DEF Take, DrainDone, FeedPacket, EmitSnapshot, Finish, DrainTake, DrainReturn,
     Goto, Local, captureVars, loopVars, InHand, Locations, LineInv, Fitting
<1>3. /\ Rising(queue) /\ Rising(items) /\ Rising(packets)
      /\ Before(NumbersOf(items) \cup NumbersOf(packets), NumbersOf(queue))
      /\ Before(Passed, Waiting)
      /\ Passed \cup Waiting \subseteq 1..(received - InHand)
      /\ thread \in {"put", "drop"} => hand.n = received
  BY DEF LineInv, InLine
<1>4. CASE Take
  <2>1. /\ queue # << >> /\ items' = Append(items, Head(queue))
        /\ queue' = Tail(queue) /\ pc \in {"drain", "last"}
        /\ UNCHANGED << pc, packets, builder, handedOver >>
    BY <1>4 DEF Take, DrainTake, loopVars
  <2>2. /\ Head(queue) \in Packet
        /\ NumbersOf(queue) = {Head(queue).n} \cup NumbersOf(Tail(queue))
        /\ Rising(Tail(queue)) /\ Before({Head(queue).n}, NumbersOf(Tail(queue)))
    BY <1>1, <1>3, <2>1, NumbersTail
  <2>3. packets = << >> /\ NumbersOf(packets) = {}
    BY <2>1 DEF WellFormed, Control, NumbersOf
  <2>4. Before(NumbersOf(items), {Head(queue).n})
    BY <1>3, <2>2 DEF Before
  <2>5. /\ NumbersOf(items') = NumbersOf(items) \cup {Head(queue).n}
        /\ Rising(items')
    BY <1>1, <1>3, <2>1, <2>2, <2>4, NumbersAppend
  <2>6. NumbersOf(queue') = NumbersOf(Tail(queue)) /\ Rising(queue')
    BY <2>1, <2>2
  <2>7. Passed' = Passed /\ Waiting' = Waiting
    BY <2>1, <2>2, <2>5, <2>6 DEF Passed, Waiting
  <2>8. Before(NumbersOf(items') \cup NumbersOf(packets'), NumbersOf(queue'))
    BY <1>3, <2>1, <2>2, <2>3, <2>5, <2>6 DEF Before
  <2>9. InLine'
    BY <1>2, <1>3, <2>1, <2>5, <2>6, <2>7, <2>8 DEF InLine
  <2>10. Fitting'
    <3>1. Len(queue') = Len(queue) - 1
      BY <1>1, <2>1, HeadTailElements
    <3> QED BY <1>1, <1>2, <2>1, <3>1, CaptureAssumption DEF LineInv, Fitting
  <2>11. FlowsDisjoint'
    BY <2>1 DEF LineInv, FlowsDisjoint
  <2> QED BY <2>9, <2>10, <2>11 DEF LineInv
<1>5. CASE DrainDone
  <2>1. /\ packets' = items /\ items' = << >> /\ pc \in {"drain", "last"}
        /\ UNCHANGED << queue, builder, handedOver >>
    BY <1>5 DEF DrainDone, DrainReturn, Goto
  <2>2. packets = << >> /\ NumbersOf(packets) = {}
    BY <2>1 DEF WellFormed, Control, NumbersOf
  <2>3. NumbersOf(items') = {} /\ Rising(items')
    BY <2>1 DEF NumbersOf, Rising
  <2>4. Passed' = Passed /\ Waiting' = Waiting
    BY <2>1, <2>2, <2>3 DEF Passed, Waiting
  <2>5. Before(NumbersOf(items') \cup NumbersOf(packets'), NumbersOf(queue'))
    BY <1>3, <2>1, <2>3 DEF Before
  <2>6. InLine'
    BY <1>2, <1>3, <2>1, <2>3, <2>4, <2>5 DEF InLine
  <2>7. Fitting' /\ FlowsDisjoint'
    BY <1>2, <2>1 DEF LineInv, Fitting, FlowsDisjoint
  <2> QED BY <2>6, <2>7 DEF LineInv
<1>6. CASE FeedPacket
  <2>1. /\ packets # << >> /\ pc \in {"feed", "lastFeed"}
        /\ builder' = AddPacket(builder, Head(packets))
        /\ packets' = Tail(packets)
        /\ UNCHANGED << queue, items, handedOver >>
    BY <1>6 DEF FeedPacket, Local, captureVars
  <2> DEFINE m == Head(packets).n
  <2>2. /\ Head(packets) \in Packet
        /\ NumbersOf(packets) = {m} \cup NumbersOf(Tail(packets))
        /\ Rising(Tail(packets)) /\ Before({m}, NumbersOf(Tail(packets)))
    BY <1>1, <1>3, <2>1, NumbersTail
  <2>3. items = << >> /\ NumbersOf(items) = {}
    BY <2>1 DEF WellFormed, Control, NumbersOf
  <2>4. Len(builder.flows) <= MaxFlows /\ DistinctKeys(builder.flows)
    BY DEF LineInv, Fitting, FlowsDisjoint, DistinctKeys
  <2>5. /\ Len(builder'.flows) <= MaxFlows
        /\ DistinctKeys(builder'.flows)
        /\ SnapshotPackets(builder') \subseteq SnapshotPackets(builder) \cup {m}
    BY <1>1, <2>1, <2>2, <2>4, AddPacketShape
  <2> HIDE DEF m
  <2>6. /\ m \in Waiting
        /\ Waiting = {m} \cup Waiting' /\ Before({m}, Waiting')
    <3>1. Waiting = {m} \cup NumbersOf(Tail(packets)) \cup NumbersOf(queue)
      BY <2>2, <2>3 DEF Waiting
    <3>2. Waiting' = NumbersOf(Tail(packets)) \cup NumbersOf(queue)
      BY <2>1, <2>3 DEF Waiting
    <3>3. Before({m}, NumbersOf(queue))
      BY <1>3, <2>2 DEF Before
    <3> QED BY <2>2, <3>1, <3>2, <3>3 DEF Before
  <2>7. Passed' \subseteq Passed \cup {m}
    BY <2>1, <2>5 DEF Passed
  <2>8. Before(Passed', Waiting')
    BY <1>3, <2>6, <2>7 DEF Before
  <2>9. Before(NumbersOf(items') \cup NumbersOf(packets'), NumbersOf(queue'))
    BY <1>3, <2>1, <2>2, <2>3 DEF Before
  <2>10. Rising(queue') /\ Rising(items') /\ Rising(packets')
    BY <1>3, <2>1, <2>2
  <2>11. Passed' \cup Waiting' \subseteq 1..(received' - InHand')
    BY <1>2, <1>3, <2>6, <2>7
  <2>12. InLine'
    BY <1>2, <1>3, <2>8, <2>9, <2>10, <2>11 DEF InLine
  <2>13. m \notin handedOver
    <3>1. m \in handedOver => m < m
      BY <1>3, <2>6 DEF Before, Passed
    <3>2. m \in Nat
      BY <2>2 DEF m, Packet
    <3> QED BY <3>1, <3>2
  <2>14. FlowsDisjoint'
    <3>1. SnapshotPackets(builder') \cap handedOver' = {}
      BY <2>1, <2>5, <2>13 DEF LineInv, FlowsDisjoint
    <3> QED BY <2>5, <3>1 DEF FlowsDisjoint, DistinctKeys
  <2>15. Fitting'
    BY <1>2, <2>1, <2>5 DEF LineInv, Fitting
  <2> QED BY <2>12, <2>14, <2>15 DEF LineInv
<1>7. CASE EmitSnapshot \/ Finish
  <2>1. /\ handedOver' = handedOver \cup SnapshotPackets(builder)
        /\ builder' = AfterSnapshot(builder)
        /\ UNCHANGED << queue, items, packets >>
    BY <1>7 DEF EmitSnapshot, Finish, Local, captureVars
  <2>2. builder'.flows = << >>
    BY <1>1, <2>1 DEF AfterSnapshot, Builder
  <2>3. SnapshotPackets(builder') = {} /\ Len(builder'.flows) = 0
    BY <2>2 DEF SnapshotPackets
  <2>4. Passed' = Passed /\ Waiting' = Waiting
    BY <2>1, <2>3 DEF Passed, Waiting
  <2>5. InLine'
    BY <1>2, <1>3, <2>1, <2>4 DEF InLine
  <2>6. FlowsDisjoint'
    BY <2>2, <2>3 DEF FlowsDisjoint
  <2>7. Fitting'
    BY <1>2, <2>1, <2>3, BuilderAssumption DEF LineInv, Fitting
  <2> QED BY <2>5, <2>6, <2>7 DEF LineInv
<1> QED BY <1>4, <1>5, <1>6, <1>7

LEMMA LineStep == WellFormed /\ LineInv /\ [Next]_vars => LineInv'
<1> SUFFICES ASSUME WellFormed, LineInv, [Next]_vars PROVE LineInv'
  OBVIOUS
<1>1. CASE UNCHANGED vars
  <2>1. UNCHANGED << queue, items, packets, builder, handedOver, received, hand,
                     thread, isCapturing, stopEvent, pc >>
    BY <1>1 DEF vars, captureVars, loopVars
  <2>2. Fitting' /\ InHand' = InHand
    BY <2>1 DEF LineInv, Fitting, InHand
  <2> QED BY <2>1, <2>2, LineUnmoved
<1>2. CASE Next
  BY <1>2, LineCapture, LineControl, LineMoves DEF Next, Main
<1> QED BY <1>1, <1>2

\* A packet counts towards one flow of one snapshot, and the keys of the table
\* stay distinct, however capture, drains and snapshots interleave.
THEOREM PacketsCountOnce == Spec => []FlowsDisjoint
<1>1. LineInv => FlowsDisjoint
  BY DEF LineInv
<1> QED BY WellFormedInit, WellFormedStep, LineInit, LineStep, <1>1, PTL DEF Spec

\* The queue and the flow table keep within their bounds, and nothing is handed
\* over that was not received.
THEOREM LoopTyped == Spec => []TypeOK
<1>1. WellFormed /\ LineInv => TypeOK
  <2> SUFFICES ASSUME WellFormed, LineInv PROVE TypeOK
    OBVIOUS
  <2>1. handedOver \subseteq 1..received
    <3>1. received \in Nat /\ InHand \in {0, 1}
      BY DEF WellFormed, Typing, InHand
    <3>2. 1..(received - InHand) \subseteq 1..received
      BY <3>1
    <3> QED BY <3>2 DEF LineInv, InLine, Passed
  <2> QED BY <2>1 DEF WellFormed, Typing, Threads, Builder, LineInv, Fitting, Locations,
             TypeOK
<1> QED BY WellFormedInit, WellFormedStep, LineInit, LineStep, <1>1, PTL DEF Spec

=============================================================================
