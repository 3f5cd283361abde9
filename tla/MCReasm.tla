------------------------------- MODULE MCReasm -------------------------------
(* Reasm at sizes where a plan is shuffled and segments and packet buffers   *)
(* run out, under four kinds of traffic: one flow for two turns of its plan;  *)
(* two flows of one tenant, which fill a bucket; one flow each of two        *)
(* tenants, whose handlers race; three flows of one tenant, the last of      *)
(* which finds the bucket full.                                              *)
EXTENDS Reasm, TLC

CONSTANTS f1, f2, f3, t1, t2

MCHash == [f \in Flows |-> 0]
Symmetry == Permutations(Flows) \cup Permutations(Tenants)

\* The flows of that many tenants, each with the given bound.
Traffic(tenants, flows, bound) ==
    [t \in Tenants |-> [f \in Flows |-> IF t \in tenants /\ f \in flows THEN bound ELSE 0]]

MCTraffics ==
    {Traffic({t}, fs, 6) : t \in Tenants, fs \in kSubset(2, Flows)}
        \cup {Traffic(Tenants, {f}, 6) : f \in Flows}
        \cup {Traffic({t}, {f}, 9) : t \in Tenants, f \in Flows}
        \cup {Traffic({t}, Flows, 4) : t \in Tenants}

=============================================================================
