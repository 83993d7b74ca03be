--------------------------- MODULE AppendOnlyLog ---------------------------
(***************************************************************************)
(* What an audit trail promises at the least.  Entries are only added at   *)
(* the end, by a process that is up.  A crash may lose the newest of them  *)
(* but none that was durable, and never alters or reorders an older one;   *)
(* a restart changes nothing.  The one exception is a trail that a crash   *)
(* left unreadable: it is broken for good, and no process serves it.       *)
(***************************************************************************)
EXTENDS Naturals, Sequences

CONSTANT AlertIds

VARIABLES
    log,        \* ids, oldest first
    durable,    \* the length of the prefix that a crash will keep
    status      \* "up", "down" or "broken"

Init == log = << >> /\ durable = 0 /\ status = "up"

Add ==
    /\ status = "up"
    /\ \E id \in AlertIds : log' = Append(log, id)
    /\ UNCHANGED << durable, status >>

Sync ==
    /\ status = "up"
    /\ durable' \in durable..Len(log)
    /\ UNCHANGED << log, status >>

Crash ==
    /\ status = "up"
    /\ status' = "down"
    /\ durable' \in durable..Len(log)
    /\ log' = SubSeq(log, 1, durable')

Restart == status = "down" /\ status' = "up" /\ UNCHANGED << log, durable >>

Break ==
    /\ status = "up"
    /\ status' = "broken"
    /\ log' = << >>
    /\ durable' = 0

Next == Add \/ Sync \/ Crash \/ Restart \/ Break

Spec == Init /\ [][Next]_<< log, durable, status >>

=============================================================================
