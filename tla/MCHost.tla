-------------------------------- MODULE MCHost --------------------------------
(* Host with two devices and masks of three bits: all of them, one, one that *)
(* is not there, a number with something after it, and no number at all.     *)
EXTENDS Host

Arg(bits, rest) == [bits |-> bits, rest |-> rest]
MCMaskArgs == {Arg({0, 1}, FALSE), Arg({0, 2}, FALSE), Arg({0}, TRUE), Arg({}, TRUE)}

Num(value, rest) == [value |-> value, rest |-> rest]
MCTenantArgs == {Num(0, TRUE), Num(1, FALSE), Num(3, FALSE), Num(7, FALSE)}
MCPeriodArgs == {Num(0, FALSE), Num(0, TRUE), Num(7, FALSE)}

MCLcoreCounts == [hardware |-> {1, 3}, software |-> {1, 4}]

=============================================================================
