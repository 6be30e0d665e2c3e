----------------------------- MODULE AtomicStore -----------------------------
(***************************************************************************)
(* What the flock promises to everyone who uses it: config.toml behaves    *)
(* like one cell that each mutation reads and writes in a single step, so  *)
(* that a mutation, once made, stays; only an uninstall empties the cell.  *)
(***************************************************************************)
CONSTANTS
    Update,     \* the mutations that may ever be made
    MayWipe     \* whether anyone uninstalls

VARIABLES made          \* the mutations whose effect config.toml holds

Init   == made = {}
Mutate == \E u \in Update : made' = made \union {u}
Wipe   == MayWipe /\ made' = {}
Next   == Mutate \/ Wipe

Spec == Init /\ [][Next]_made
=============================================================================
