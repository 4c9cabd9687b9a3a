-------------------------------- MODULE Data --------------------------------
(***************************************************************************)
(* What the parts of the manager compute with: lists and powers of two.    *)
(***************************************************************************)
EXTENDS Naturals, Sequences, FiniteSets

\* The elements of q at the positions in S, in order: one sequence.
Kept(q, S) ==
    {[k \in DOMAIN f |-> q[f[k]]] :
        f \in {g \in [1 .. Cardinality(S) -> S] : /\ \A i, j \in DOMAIN g : i < j => g[i] < g[j]
                                                 /\ \A x \in S : \E i \in DOMAIN g : g[i] = x}}

\* Power2[k] is 2 ^ k, in a form that can be reasoned about.
Power2[k \in Nat] == IF k = 0 THEN 1 ELSE 2 * Power2[k - 1]
=============================================================================
