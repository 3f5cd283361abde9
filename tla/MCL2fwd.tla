------------------------------- MODULE MCL2fwd -------------------------------
(* L2fwd with three ports and two cores, the second of which is the master,  *)
(* in every arrangement of ports and cores the options give.                 *)
EXTENDS L2fwd

CONSTANTS a, b, d

MCKind == [m \in Packets |-> IF m = a THEN "arp" ELSE IF m = b THEN "marked" ELSE "plain"]
MCMaskArgs == {{}, {1}, {0, 1}, {0, 2}, {0, 1, 2}, {3}, {4}, {0, 4}}

=============================================================================
