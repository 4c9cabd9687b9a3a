----------------------------- MODULE MCManager -----------------------------
(* Small instances of Manager for TLC. *)
EXTENDS Manager, TLC

CONSTANTS t1, n1, n2, s1

OneTask  == {t1}
NoTasks  == {}
OneNode  == {n1}
TwoNodes == {n1, n2}
OneStopper == {s1}
Always    == (t1 :> "always")
OnFailure == (t1 :> "on-failure")
NoOwnCap  == (t1 :> 0)
NodeSymmetry == Permutations(TwoNodes)
NoFaults == {}
LossFaults  == {"lost", "unreachable", "rejected", "start"}
\* No reply and no write is lost.
HeardFaults == {"unreachable", "rejected", "starved", "start"}
=============================================================================
