------------------------------ MODULE MCWorker ------------------------------
(* Small instances of Worker for TLC. *)
EXTENDS Worker, TLC

CONSTANTS t1, t2, f1, f2, a1, a2

OneTask  == {t1}
TwoTasks == {t1, t2}
NoTasks  == {}
OneForgetter == {f1}
OneAdder  == {a1}
TwoAdders == {a1, a2}
TaskSymmetry == Permutations(TwoTasks)
=============================================================================
