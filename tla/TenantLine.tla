----------------------------- MODULE TenantLine -----------------------------
(***************************************************************************)
(* What the workers promise a tenant, whatever they share: its packets     *)
(* form a line, the network function serves the line a full batch at a     *)
(* time from the front, and only what it has served leaves.  A packet that *)
(* does not complete a batch waits: the code has no time limit for it.     *)
(***************************************************************************)
EXTENDS Integers, Sequences

CONSTANTS Tenants, Mbufs, Batch

VARIABLE line  \* [Tenants -> Seq(Mbufs)]: each tenant's packets, oldest first

InLine(m) == \E t \in Tenants : \E i \in DOMAIN line[t] : line[t][i] = m

Init == line = [t \in Tenants |-> <<>>]

Join(m, t) ==
    /\ ~InLine(m)
    /\ line' = [line EXCEPT ![t] = Append(@, m)]

Serve(t) ==
    /\ Len(line[t]) >= Batch
    /\ line' = [line EXCEPT ![t] = SubSeq(@, Batch + 1, Len(@))]

Next ==
    \/ \E m \in Mbufs, t \in Tenants : Join(m, t)
    \/ \E t \in Tenants : Serve(t)

Spec == Init /\ [][Next]_line

=============================================================================
