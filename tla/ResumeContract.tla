--------------------------- MODULE ResumeContract ---------------------------
(***************************************************************************)
(* What the storage of a BT task promises, without files, caches, peers or *)
(* control files: every piece counted as done is in memory or on disk,     *)
(* every claim on record is about pieces on disk, what is on disk stays,   *)
(* and a restart begins with pieces that are on disk.                      *)
(***************************************************************************)
CONSTANT Piece

VARIABLES
    safe,       \* pieces on disk
    mem,        \* pieces in memory, waiting to be written
    have,       \* pieces counted as done
    claim       \* pieces on record as done, or about to be

vars == <<safe, mem, have, claim>>

(* A piece with no byte in the chosen files is on disk from the start. *)
Init ==
    /\ safe \subseteq Piece
    /\ mem = {} /\ have = {} /\ claim = {}

(* A verified piece is kept in memory. *)
Keep(p) ==
    /\ mem' = mem \cup {p}
    /\ UNCHANGED <<safe, have, claim>>

(* A piece of the memory reaches the disk. *)
Spill(p) ==
    /\ safe' = safe \cup {p}
    /\ mem' \subseteq mem /\ mem \ {p} \subseteq mem'
    /\ UNCHANGED <<have, claim>>

(* A piece that is in memory or on disk by now is counted. *)
Gain(p) ==
    /\ safe' \in {safe, safe \cup {p}}
    /\ p \in safe' \cup mem
    /\ have' = have \cup {p}
    /\ UNCHANGED <<mem, claim>>

(* The record is renewed, maybe by an old one, or dropped. *)
Record ==
    /\ claim' \subseteq safe
    /\ UNCHANGED <<safe, mem, have>>

(* The memory is lost; what is on disk is found again, or part of it. *)
Restart ==
    /\ have' \subseteq safe
    /\ mem' = {}
    /\ claim' \subseteq safe
    /\ UNCHANGED safe

Next ==
    \/ \E p \in Piece : Keep(p) \/ Spill(p) \/ Gain(p)
    \/ Record \/ Restart

Spec == Init /\ [][Next]_vars
=============================================================================
