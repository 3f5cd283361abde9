------------------------------- MODULE Custody -------------------------------
(***************************************************************************)
(* Counting the copies of a packet buffer.  An mbuf is a pointer, so it    *)
(* may be in several places at once, or several times in one: in the       *)
(* pool, a bag, and in queues and buffers, which are sequences.            *)
(***************************************************************************)
EXTENDS Integers, Sequences, FiniteSets

Places(m, s) == {i \in DOMAIN s : s[i] = m}

Occurrences(m, s) == Cardinality(Places(m, s))

\* The mbufs of s put in the bag b, one copy for each time they occur.
Put(b, s) == [m \in DOMAIN b |-> b[m] + Occurrences(m, s)]

\* How often m is at the places of s that kept leaves out.
Dropped(m, s, kept) ==
    Cardinality({i \in DOMAIN s : s[i] = m /\ ~\E j \in DOMAIN kept : kept[j] = i})

\* Where m is in a family of sequences, and how often.
Positions(m, queues) ==
    UNION {{q} \X Places(m, queues[q]) : q \in DOMAIN queues}

Queued(m, queues) == Cardinality(Positions(m, queues))

\* The members of s that are in P, in their order.
Select(s, P) ==
    LET sel[i \in 0 .. Len(s)] ==
          IF i = 0 THEN <<>>
          ELSE IF s[i] \in P THEN Append(sel[i - 1], s[i]) ELSE sel[i - 1]
    IN  sel[Len(s)]

=============================================================================
