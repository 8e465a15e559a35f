--------------------------- MODULE MCTaskManager ---------------------------
(* Instances of TaskManager for TLC. *)
EXTENDS TaskManager, TLC

(* Retain is SelectSeq, on every sequence of up to four of three values. *)
ASSUME RetainIsSelectSeq ==
    \A n \in 0..4 : \A s \in [1..n -> 1..3] :
        Retain(s, 2) = SelectSeq(s, LAMBDA x : x # 2)

(* For instances whose tasks are all alike. *)
FullSymmetry ==
    Permutations(Caller) \cup Permutations(Worker) \cup Permutations(Gid)

(* For instances with tasks of several kinds. *)
Symmetry == Permutations(Caller) \cup Permutations(Worker)
=============================================================================
