----------------------------- MODULE Allocator -----------------------------
(***************************************************************************)
(* What a memory allocator promises, whatever is inside: the objects the   *)
(* program holds never overlap.  An object is memory of a block, from "at" *)
(* for n units, for the thread that asked; which memory an allocation      *)
(* gives is left open.                                                     *)
(***************************************************************************)
EXTENDS Integers

VARIABLE objects

Overlap(o, p) == /\ o.block = p.block
                 /\ o.at < p.at + p.n /\ p.at < o.at + o.n
Apart(o, os) == \A p \in os : ~Overlap(o, p)

Init == objects = {}

Give == \E o \in objects' \ objects :
          Apart(o, objects) /\ objects' = objects \cup {o}
TakeBack == \E o \in objects : objects' = objects \ {o}
(* Also in place, to another size.                                         *)
Move == \E o \in objects : \E p \in objects' \ objects :
          Apart(p, objects \ {o}) /\ objects' = (objects \ {o}) \cup {p}

Spec == Init /\ [][Give \/ TakeBack \/ Move]_objects
=============================================================================
