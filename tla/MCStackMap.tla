---------------------------- MODULE MCStackMap ----------------------------
(* Small tables for TLC. *)
EXTENDS StackMap

\* Four keys in three slots: k1, k2 and k3 share a slot, and the chain they
\* build wraps around the end of the table.
MCKeys == {"k1", "k2", "k3", "k4"}
MCColliding == [k \in MCKeys |-> CASE k = "k4" -> 0 [] OTHER -> 1]

\* Two colliding pairs whose chains run into each other.
MCAdjacent == [k \in MCKeys |-> IF k \in {"k1", "k2"} THEN 2 ELSE 0]
=============================================================================
