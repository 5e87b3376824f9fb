----------------------------- MODULE AtLeastOnce -----------------------------
(***************************************************************************)
(* What the streaming scorer promises, with no processes, queues or        *)
(* batches: messages are published to partitions, results are delivered in *)
(* any order and any number of times, and a partition is acknowledged up   *)
(* to an offset only when every message below it has a result.             *)
(***************************************************************************)
EXTENDS Integers

CONSTANT Partitions

VARIABLES
    published,  \* published[p]: how many messages partition p holds
    delivered,  \* the messages <<partition, offset>> that have a result
    acked       \* acked[p]: the offset below which p is acknowledged

vars == <<published, delivered, acked>>

Init ==
    /\ published = [p \in Partitions |-> 0]
    /\ delivered = {}
    /\ acked = [p \in Partitions |-> 0]

Publish(p) ==
    /\ published' = [published EXCEPT ![p] = @ + 1]
    /\ UNCHANGED <<delivered, acked>>

Deliver(p, o) ==
    /\ delivered' = delivered \cup {<<p, o>>}
    /\ UNCHANGED <<published, acked>>

(* One commit acknowledges several partitions, and never backwards. *)
Acknowledge ==
    /\ acked' \in [Partitions -> Nat]
    /\ \A p \in Partitions :
         /\ acked[p] <= acked'[p]
         /\ acked'[p] <= published[p]
         /\ \A o \in 0 .. acked'[p] - 1 : <<p, o>> \in delivered
    /\ UNCHANGED <<published, delivered>>

Next ==
    \/ \E p \in Partitions : Publish(p)
    \/ \E p \in Partitions : \E o \in 0 .. published[p] - 1 : Deliver(p, o)
    \/ Acknowledge

Spec == Init /\ [][Next]_vars

=============================================================================
