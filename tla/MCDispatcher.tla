---------------------------- MODULE MCDispatcher ----------------------------
(* Dispatcher with two workers and two tenants, both bound to worker 0; the  *)
(* quota of tenant 1 can be exceeded.  The liveness run gives both tenants a  *)
(* quota that no slot reaches, as the quotas of main.c are on a slow link.   *)
EXTENDS Dispatcher, TLC

MCHomeWid == [t \in 0 .. 1 |-> 0]
MCMaxNb == [t \in 0 .. 1 |-> IF t = 0 THEN 3 ELSE 1]
MCAmpleNb == [t \in 0 .. 1 |-> 3]
Symmetry == Permutations(Mbufs)

=============================================================================
