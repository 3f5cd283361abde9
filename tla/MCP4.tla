-------------------------------- MODULE MCP4 --------------------------------
(* P4Dispatcher with two contexts, two workers and two tenants, both bound   *)
(* to worker 0 as tenants 0 and 4 are: the second row has no initializer,    *)
(* its quota is 0.  A slot can carry enough packets to overload a worker.    *)
EXTENDS P4Dispatcher, TLC

MCHomeWid == [t \in 0 .. 1 |-> 0]
MCMaxNb == [t \in 0 .. 1 |-> IF t = 0 THEN 2 ELSE 0]

\* The contexts run the same code and their names are compared nowhere else.
MCSymmetry == Permutations(Contexts)

=============================================================================
