----------------------------- MODULE Dispatcher -----------------------------
(***************************************************************************)
(* What dispatcher_thread (mtnf/framework_software/main.c) does with the   *)
(* packet buffers: a received mbuf is metered and bound (module Balancer), *)
(* put in the q_buffer of its tenant's worker and, 32 at a time, moved to  *)
(* that worker's ring; what the ring has no room for is freed.  The        *)
(* workers are seen from outside only: they take a burst from their ring   *)
(* and sooner or later the mbuf is back in the pool (module Worker has the *)
(* inside).  A free puts an mbuf in the pool whoever else holds it, so the *)
(* pool counts copies.                                                     *)
(***************************************************************************)
EXTENDS Balancer, Custody

CONSTANTS
    Mbufs,           \* the mbufs of pktmbuf_pool
    MaxNb,           \* column 3 of tenants_table: packets a tenant may send in a slot
    MAX_PKT_BUFFER,  \* packets moved to a ring at a time (MAX_PKT_BURST as well)
    RingSize,        \* capacity of a ring
    CopyBound        \* bound: copies of an mbuf that are followed

ASSUME DispatcherAssumption ==
    /\ Mbufs # {}
    /\ MaxNb \in [Tenants -> Nat]
    /\ MAX_PKT_BUFFER \in Nat \ {0}
    /\ RingSize \in Nat \ {0}
    /\ CopyBound \in Nat \ {0}

VARIABLES
    q_buffers,  \* [Workers -> Seq(Mbufs)]: the first num slots of q_buffers[wid]
    rings,      \* [Workers -> Seq(Mbufs)]
    pool,       \* [Mbufs -> Nat]: copies of the mbuf in pktmbuf_pool
    held,       \* [Mbufs -> Nat]: copies a worker has taken and not given back
    quotaFrees  \* history: how often main.c:183 freed the mbuf and went on with it

queueVars == <<q_buffers, rings, pool, held, quotaFrees>>
vars == <<timeslot, tenants_table, workers_table, q_buffers, rings, pool, held,
          quotaFrees>>

(* The slots of a q_buffer and of a ring are never overrun: between packets  *)
(* a q_buffer holds less than a full batch, whichever worker the tenants of  *)
(* a batch have moved to meanwhile.                                          *)
QueuesAreBounded ==
    \A w \in Workers :
        /\ Len(q_buffers[w]) < MAX_PKT_BUFFER
        /\ Len(rings[w]) <= RingSize

DispatcherTypeOK ==
    /\ BalancerTypeOK
    /\ QueuesAreBounded
    /\ q_buffers \in [Workers -> Seq(Mbufs)]
    /\ rings \in [Workers -> Seq(Mbufs)]
    /\ pool \in [Mbufs -> Nat]
    /\ held \in [Mbufs -> Nat]
    /\ quotaFrees \in [Mbufs -> Nat]

Init ==
    /\ BalancerInit
    /\ q_buffers = [w \in Workers |-> <<>>]
    /\ rings = [w \in Workers |-> <<>>]
    /\ pool = [m \in Mbufs |-> 1]
    /\ held = [m \in Mbufs |-> 0]
    /\ quotaFrees = [m \in Mbufs |-> 0]

-----------------------------------------------------------------------------

\* Copies of an mbuf, wherever they are.
Copies(m) == pool[m] + Queued(m, q_buffers) + Queued(m, rings) + held[m]

-----------------------------------------------------------------------------
(* The dispatcher: one received packet *)

\* The check of main.c:182, made only on the path of SameSlot.
OverQuota(t) ==
    /\ tenants_table[t].slot = timeslot
    /\ (tenants_table[t].nb + 1) % U32 > MaxNb[t]

\* rte_ring_enqueue_burst takes what fits, from the front; the rest is freed.
Fits(w) == LET room == RingSize - Len(rings[w])
           IN  IF room < MAX_PKT_BUFFER THEN room ELSE MAX_PKT_BUFFER

\* A bug: what the ring has no room for is forgotten.
FlushLeaking(w, batch, free) ==
    /\ rings' = [rings EXCEPT ![w] = @ \o SubSeq(batch, 1, Fits(w))]
    /\ pool' = free
    /\ q_buffers' = [q_buffers EXCEPT ![w] = <<>>]

\* A bug: the count of the q_buffer is not reset.
FlushUnreset(w, batch, free) ==
    /\ rings' = [rings EXCEPT ![w] = @ \o SubSeq(batch, 1, Fits(w))]
    /\ pool' = Put(free, SubSeq(batch, Fits(w) + 1, Len(batch)))
    /\ q_buffers' = [q_buffers EXCEPT ![w] = batch]

\* A bug: the first packets of the batch are given up instead of the last.
FlushLatest(w, batch, free) ==
    LET left == Len(batch) - Fits(w)
    IN  /\ rings' = [rings EXCEPT ![w] = @ \o SubSeq(batch, left + 1, Len(batch))]
        /\ pool' = Put(free, SubSeq(batch, 1, left))
        /\ q_buffers' = [q_buffers EXCEPT ![w] = <<>>]

Flush(w, batch, free) ==
    /\ rings' = [rings EXCEPT ![w] = @ \o SubSeq(batch, 1, Fits(w))]
    /\ pool' = Put(free, SubSeq(batch, Fits(w) + 1, Len(batch)))
    /\ q_buffers' = [q_buffers EXCEPT ![w] = <<>>]

Buffer(w, batch, free) ==
    /\ q_buffers' = [q_buffers EXCEPT ![w] = batch]
    /\ pool' = free
    /\ UNCHANGED rings

(***************************************************************************)
(* A port receives a packet into mbuf m of the pool and the classifier     *)
(* finds tenant t.  The packet goes to the worker read before a migration. *)
(* A packet over the quota is freed and queued all the same: main.c:183    *)
(* does not leave the loop body.                                           *)
(***************************************************************************)
Dispatch(m, t) ==
    LET w == Wid(t)
        over == IF OverQuota(t) THEN 1 ELSE 0
        free == [pool EXCEPT ![m] = @ - 1 + over]
        batch == Append(q_buffers[w], m)
    IN  /\ pool[m] > 0
        /\ Copies(m) < CopyBound
        /\ Packet(t)
        /\ quotaFrees' = [quotaFrees EXCEPT ![m] = @ + over]
        /\ IF Len(batch) = MAX_PKT_BUFFER THEN Flush(w, batch, free)
                                          ELSE Buffer(w, batch, free)
        /\ UNCHANGED held

(***************************************************************************)
(* The rest of the system: workers, ports and the clock                    *)
(***************************************************************************)
\* rte_ring_dequeue_burst of worker_thread.
TakeBurst(w) ==
    LET n == IF Len(rings[w]) < MAX_PKT_BUFFER THEN Len(rings[w])
                                              ELSE MAX_PKT_BUFFER
    IN  /\ n > 0
        /\ held' = Put(held, SubSeq(rings[w], 1, n))
        /\ rings' = [rings EXCEPT ![w] = SubSeq(@, n + 1, Len(@))]
        /\ UNCHANGED <<q_buffers, pool, quotaFrees>>
        /\ UNCHANGED balancerVars

\* A network function or a failed transmission frees the packet, or the port
\* has sent it.
GiveBack(m) ==
    /\ held[m] > 0
    /\ held' = [held EXCEPT ![m] = @ - 1]
    /\ pool' = [pool EXCEPT ![m] = @ + 1]
    /\ UNCHANGED <<q_buffers, rings, quotaFrees>>
    /\ UNCHANGED balancerVars

NextSlot == Tick /\ UNCHANGED queueVars

Next ==
    \/ \E m \in Mbufs, t \in Tenants : Dispatch(m, t)
    \/ \E w \in Workers : TakeBurst(w)
    \/ \E m \in Mbufs : GiveBack(m)
    \/ NextSlot

Spec == Init /\ [][Next]_vars

(***************************************************************************)
(* A worker polls its ring and a port completes what it was given: neither *)
(* waits for the dispatcher.  Nothing obliges packets to arrive.           *)
(***************************************************************************)
Fairness ==
    /\ \A w \in Workers : WF_vars(TakeBurst(w))
    /\ \A m \in Mbufs : WF_vars(GiveBack(m))

FairSpec == Spec /\ Fairness

-----------------------------------------------------------------------------
(* Properties *)

(* No mbuf is lost and none is duplicated by batching, enqueueing, partial   *)
(* enqueueing and freeing: the one way an mbuf comes to be in two places is  *)
(* the free of main.c:183, and each such free adds exactly one copy.         *)
CopiesAreAccountedFor ==
    \A m \in Mbufs : Copies(m) = 1 + quotaFrees[m]

\* The mbufs of which there is a copy.
Holding(bag) == {m \in Mbufs : bag[m] > 0}

Line == INSTANCE WorkerLine WITH Batch <- MAX_PKT_BUFFER, Room <- RingSize,
                                 free <- Holding(pool), out <- Holding(held),
                                 line <- [w \in Workers |-> rings[w] \o q_buffers[w]]

(* As long as no tenant exceeds its quota the dispatcher implements the line *)
(* of each worker, through two queues and a batch that may be cut: an mbuf   *)
(* has one owner, a worker gets its packets in the order they were received, *)
(* and only the latest of a line longer than the ring are given up.          *)
MbufsAreHandedOver == Line!Spec

(* The partial batches that wait in the q_buffers without a time limit never *)
(* exhaust a pool with more mbufs than they can hold: the dispatcher can     *)
(* always receive again.                                                     *)
PoolRecovers == []<>(\E m \in Mbufs : pool[m] > 0)

=============================================================================
