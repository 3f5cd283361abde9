----------------------------- MODULE WorkerLine -----------------------------
(***************************************************************************)
(* What the dispatcher promises the workers as long as no tenant exceeds   *)
(* its quota, whatever lies between them: an mbuf is free, in the line of  *)
(* one worker or out with a worker; a line is served from the front, a     *)
(* burst at a time, in the order the packets were received; and packets    *)
(* are lost only at the end of a line longer than the ring, which is then  *)
(* cut to what the ring holds.                                             *)
(***************************************************************************)
EXTENDS Integers, Sequences, Functions

CONSTANTS Workers, Mbufs, Batch, Room

VARIABLES
    free,  \* the mbufs a port may receive into
    line,  \* [Workers -> Seq(Mbufs)]: the packets for each worker, oldest first
    out    \* the mbufs workers have taken and not given back

Init ==
    /\ free = Mbufs
    /\ line = [w \in Workers |-> <<>>]
    /\ out = {}

\* A packet is received and waits; never do more than a ring and a batch wait.
Wait(m, w) ==
    /\ m \in free
    /\ Len(line[w]) + 1 < Room + Batch
    /\ line' = [line EXCEPT ![w] = Append(@, m)]
    /\ free' = free \ {m}
    /\ UNCHANGED out

\* A packet is received, and the line is cut to the ring.
Cut(m, w) ==
    LET all == Append(line[w], m)
    IN  /\ m \in free
        /\ Len(all) > Room
        /\ line' = [line EXCEPT ![w] = SubSeq(all, 1, Room)]
        /\ free' = (free \ {m}) \cup Range(SubSeq(all, Room + 1, Len(all)))
        /\ UNCHANGED out

Take(w) ==
    \E n \in 1 .. Len(line[w]) :
        /\ n <= Batch
        /\ line' = [line EXCEPT ![w] = SubSeq(@, n + 1, Len(@))]
        /\ out' = out \cup Range(SubSeq(line[w], 1, n))
        /\ UNCHANGED free

GiveBack(m) ==
    /\ m \in out
    /\ out' = out \ {m}
    /\ free' = free \cup {m}
    /\ UNCHANGED line

Next ==
    \/ \E m \in Mbufs, w \in Workers : Wait(m, w) \/ Cut(m, w)
    \/ \E w \in Workers : Take(w)
    \/ \E m \in Mbufs : GiveBack(m)

Spec == Init /\ [][Next]_<<free, line, out>>

=============================================================================
