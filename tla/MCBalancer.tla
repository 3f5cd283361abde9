----------------------------- MODULE MCBalancer -----------------------------
(* Balancer with two workers and two tenants, both bound to worker 1 at      *)
(* first.  A slot carries more than MaxLoad packets, enough for both tenants *)
(* to leave an overloaded worker one after the other.                        *)
EXTENDS Balancer

MCHomeWid == [t \in 0 .. 1 |-> 1]

=============================================================================
