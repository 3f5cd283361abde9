------------------------------ MODULE MCWorker ------------------------------
(* Worker with two workers and two tenants, each bound to a worker of its    *)
(* own at first; in the second run both are bound to w1 for good.            *)
EXTENDS Worker, TLC

CONSTANTS w1, w2, t1, t2

MCHomeWid == (t1 :> w1) @@ (t2 :> w2)
MCOneHome == (t1 :> w1) @@ (t2 :> w1)
Symmetry == Permutations(Mbufs)

=============================================================================
