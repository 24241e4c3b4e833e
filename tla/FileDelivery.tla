---------------------------- MODULE FileDelivery -----------------------------
(***************************************************************************)
(* What a block transfer promises, whichever way the symbols travel.  The  *)
(* sink gets the blocks of a file one by one, in any order; the source     *)
(* learns of some of them; each side ends on its own.  The source reports  *)
(* success only when the sink has everything, and a sink that has          *)
(* everything no longer gives the file up.                                 *)
(***************************************************************************)
CONSTANT Blocks

VARIABLES
    delivered,  \* blocks written by the sink
    acked,      \* blocks the source knows to be delivered
    source,     \* outcome of the sending side
    sink        \* outcome of the receiving side

vars == <<delivered, acked, source, sink>>

Init ==
    /\ delivered = {} /\ acked = {}
    /\ source = "run" /\ sink = "run"

Deliver(b) ==
    /\ sink = "run"
    /\ delivered' = delivered \cup {b}
    /\ UNCHANGED <<acked, source, sink>>

Learn ==
    /\ source = "run"
    /\ acked' \subseteq delivered
    /\ acked \subseteq acked'
    /\ UNCHANGED <<delivered, source, sink>>

SourceEnds(outcome) ==
    /\ source = "run"
    /\ outcome = "done" => delivered = Blocks /\ sink # "aborted"
    /\ source' = outcome
    /\ UNCHANGED <<delivered, acked, sink>>

SinkEnds(outcome) ==
    /\ sink = "run"
    /\ outcome = "done" => delivered = Blocks
    /\ outcome = "aborted" => delivered # Blocks
    /\ sink' = outcome
    /\ UNCHANGED <<delivered, acked, source>>

Next ==
    \/ \E b \in Blocks : Deliver(b)
    \/ Learn
    \/ \E o \in {"done", "aborted", "crashed"} : SourceEnds(o) \/ SinkEnds(o)

Spec == Init /\ [][Next]_vars
=============================================================================
