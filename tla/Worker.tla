------------------------------- MODULE Worker -------------------------------
(***************************************************************************)
(* The worker threads (worker_thread of mtnf/framework_software/main.c)    *)
(* and the tenant buffers and locks they share (mtnf_packets_handler of    *)
(* mtnf_tenant.c), one shared-memory access per step.  Each worker polls   *)
(* its own ring, but t_buffers and tenant_lock are indexed by tenant: once *)
(* the dispatcher has bound a tenant to another worker while the first     *)
(* still has packets of it, two workers are in the same buffer, and the    *)
(* lock, a plain bool tested and then set, is all that is between them.    *)
(*                                                                         *)
(* The dispatcher is seen from outside: it puts a packet on the ring of    *)
(* the worker its tenant is bound to (Arrive), frees it if the tenant is   *)
(* over its quota and puts it there all the same (ArriveOverQuota), so     *)
(* that a packet may be received into an mbuf that is still queued         *)
(* (Overwrite), and may change a binding (Rebind); module Dispatcher has   *)
(* its inside.                                                             *)
(***************************************************************************)
EXTENDS Custody

CONSTANTS
    Workers,
    Tenants,
    Mbufs,
    HomeWid,           \* the worker each tenant is bound to at first
    MayMove,           \* the tenants the dispatcher may bind to another worker
    MayExceed,         \* the tenants that may exceed their quota
    MAX_PKT_BUFFER,    \* packets handed to the network function at a time
    MBUFS_PER_TENANT,  \* slots of a tenant buffer
    SharedBound,       \* bound: arrivals are followed until so many are shared
    FreeBound,         \* bound: over-quota arrivals, until one mbuf had so many
    NoMbuf             \* a slot never written

ASSUME WorkerAssumption ==
    /\ IsFiniteSet(Workers)
    /\ IsFiniteSet(Tenants)
    /\ Tenants # {}
    /\ HomeWid \in [Tenants -> Workers]
    /\ MayMove \subseteq Tenants
    /\ MAX_PKT_BUFFER \in Nat \ {0}
    /\ MBUFS_PER_TENANT \in Nat
    /\ MBUFS_PER_TENANT >= MAX_PKT_BUFFER
    /\ SharedBound \in Nat \ {0}
    /\ MayExceed \subseteq Tenants
    /\ FreeBound \in Nat
    /\ NoMbuf \notin Mbufs

VARIABLES
    wid,          \* the dispatcher's binding of each tenant
    tos,          \* the tenant id in the ToS field of the packet in each mbuf
    pool,         \* [Mbufs -> Nat]: copies of each mbuf in pktmbuf_pool
    rings,        \* [Workers -> Seq(Mbufs)]
    pkts,         \* what each worker has dequeued and not yet buffered
    buffer_slot,  \* t_buffers[tid].buffer_slot
    num,          \* t_buffers[tid].num
    tenant_lock,  \* [Tenants -> BOOLEAN]
    pc,           \* where each worker is
    tid,          \* each worker's tenant_id
    reg,          \* each worker's copy of num, then nb_handler
    shared,       \* history: tenants that two workers had packets of at once
    quotaFrees    \* history: how often an mbuf was freed over a quota and queued

vars == <<wid, tos, pool, rings, pkts, buffer_slot, num, tenant_lock, pc, tid,
          reg, shared, quotaFrees>>

dispatcherVars == <<wid, tos, shared, quotaFrees>>
bufferVars == <<buffer_slot, num, tenant_lock>>

Slots == 0 .. MBUFS_PER_TENANT - 1

\* "hung": spinning on a lock it read once; "overrun": past the last slot.
Labels == {"poll", "next", "store", "count", "spin", "acquire", "enter",
           "handler", "unlock", "reset", "tx", "hung", "overrun"}

TypeOK ==
    /\ wid \in [Tenants -> Workers]
    /\ tos \in [Mbufs -> Tenants]
    /\ pool \in [Mbufs -> Nat]
    /\ rings \in [Workers -> Seq(Mbufs)]
    /\ pkts \in [Workers -> Seq(Mbufs)]
    /\ buffer_slot \in [Tenants -> [Slots -> Mbufs \cup {NoMbuf}]]
    /\ num \in [Tenants -> 0 .. MBUFS_PER_TENANT]
    /\ tenant_lock \in [Tenants -> BOOLEAN]
    /\ pc \in [Workers -> Labels]
    /\ tid \in [Workers -> Tenants]
    /\ reg \in [Workers -> 0 .. MBUFS_PER_TENANT]
    /\ shared \subseteq Tenants
    /\ quotaFrees \in [Mbufs -> Nat]

Init ==
    /\ wid = HomeWid
    /\ tos \in [Mbufs -> {CHOOSE t \in Tenants : TRUE}]
    /\ pool = [m \in Mbufs |-> 1]
    /\ rings = [w \in Workers |-> <<>>]
    /\ pkts = [w \in Workers |-> <<>>]
    /\ buffer_slot = [t \in Tenants |-> [i \in Slots |-> NoMbuf]]
    /\ num = [t \in Tenants |-> 0]
    /\ tenant_lock = [t \in Tenants |-> FALSE]
    /\ pc = [w \in Workers |-> "poll"]
    /\ tid \in [Workers -> {CHOOSE t \in Tenants : TRUE}]
    /\ reg = [w \in Workers |-> 0]
    /\ shared = {}
    /\ quotaFrees = [m \in Mbufs |-> 0]

-----------------------------------------------------------------------------
(* Helpers *)

GoTo(w, label) == pc' = [pc EXCEPT ![w] = label]

\* Tenant t's mbufs in a sequence, in order.
Of(t, s) == Select(s, {m \in Mbufs : tos[m] = t})

\* Worker w has a packet of t on its ring or in hand, or is at work on t's
\* buffer.
IsFor(t, s) == \E i \in DOMAIN s : tos[s[i]] = t
Busy(w, t) == pc[w] \notin {"poll", "next"} /\ tid[w] = t
Has(w, t) == Busy(w, t) \/ IsFor(t, rings[w]) \/ IsFor(t, pkts[w])

AtTwo(t) == \E v, w \in Workers : v # w /\ Has(v, t) /\ Has(w, t)

\* The first n slots of t's buffer.
Front(t, n) == [i \in 1 .. n |-> buffer_slot[t][i - 1]]

\* The ways to keep n of k places, in their order.
Kept(n, k) ==
    {kept \in [1 .. n -> 1 .. k] :
        \A i, j \in 1 .. n : i < j => kept[i] < kept[j]}

-----------------------------------------------------------------------------
(* The dispatcher, from outside *)

\* Whatever changes the ToS fields or puts an mbuf on a ring adds to shared.
NoteShared == shared' = shared \cup {t \in Tenants : AtTwo(t)'}

(* A packet of tenant t is received into mbuf m, whose ToS field is written, *)
(* and, by way of the q_buffer, reaches the ring of the worker t is bound to.*)
Enqueue(m, t) ==
    /\ pool[m] > 0
    /\ Cardinality(shared) < SharedBound
    /\ tos' = [tos EXCEPT ![m] = t]
    /\ rings' = [rings EXCEPT ![wid[t]] = Append(@, m)]
    /\ UNCHANGED <<wid, pkts, pc, tid, reg>>
    /\ UNCHANGED bufferVars
    /\ NoteShared

Arrive(m, t) ==
    /\ Enqueue(m, t)
    /\ pool' = [pool EXCEPT ![m] = @ - 1]
    /\ UNCHANGED quotaFrees

(* A packet over the quota of its tenant is freed and enqueued all the same: *)
(* main.c:183 does not leave the loop body.  (If the ring refuses it, it is  *)
(* freed once more, which leaves the pool as after a network function that   *)
(* drops it.)                                                                *)
ArriveOverQuota(m, t) ==
    /\ t \in MayExceed
    /\ \A x \in Mbufs : quotaFrees[x] < FreeBound
    /\ Enqueue(m, t)
    /\ quotaFrees' = [quotaFrees EXCEPT ![m] = @ + 1]
    /\ UNCHANGED pool

(* A port receives into an mbuf that is in the pool and still in a queue:    *)
(* the packet a worker is about to get has another tenant.                   *)
Overwrite(m, t) ==
    /\ pool[m] > 0
    /\ Queued(m, rings) + Queued(m, pkts) > 0
    /\ Cardinality(shared) < SharedBound
    /\ tos' = [tos EXCEPT ![m] = t]
    /\ UNCHANGED <<wid, pool, rings, pkts, pc, tid, reg, quotaFrees>>
    /\ UNCHANGED bufferVars
    /\ NoteShared

(* A migration: the packets already on their way stay where they are.        *)
Rebind(t, w) ==
    /\ t \in MayMove
    /\ wid[t] # w
    /\ wid' = [wid EXCEPT ![t] = w]
    /\ UNCHANGED <<tos, pool, rings, pkts, pc, tid, reg, shared, quotaFrees>>
    /\ UNCHANGED bufferVars

-----------------------------------------------------------------------------
(* worker_thread: the poll loop and the loop over a burst *)

Dequeue(w) ==
    LET n == IF Len(rings[w]) < MAX_PKT_BUFFER THEN Len(rings[w])
                                              ELSE MAX_PKT_BUFFER
    IN  /\ pc[w] = "poll"
        /\ n > 0
        /\ pkts' = [pkts EXCEPT ![w] = SubSeq(rings[w], 1, n)]
        /\ rings' = [rings EXCEPT ![w] = SubSeq(@, n + 1, Len(@))]
        /\ GoTo(w, "next")
        /\ UNCHANGED <<pool, tid, reg>>
        /\ UNCHANGED dispatcherVars
        /\ UNCHANGED bufferVars

BurstDone(w) ==
    /\ pc[w] = "next"
    /\ pkts[w] = <<>>
    /\ GoTo(w, "poll")
    /\ UNCHANGED <<pool, rings, pkts, tid, reg>>
    /\ UNCHANGED dispatcherVars
    /\ UNCHANGED bufferVars

\* buffer_slot[num++] = pkts[i] reads num, writes the slot and writes num.
ReadNum(w) ==
    /\ pc[w] = "next"
    /\ pkts[w] # <<>>
    /\ tid' = [tid EXCEPT ![w] = tos[Head(pkts[w])]]
    /\ reg' = [reg EXCEPT ![w] = num[tos[Head(pkts[w])]]]
    /\ GoTo(w, "store")
    /\ UNCHANGED <<pool, rings, pkts>>
    /\ UNCHANGED dispatcherVars
    /\ UNCHANGED bufferVars

\* Nothing checks the index: past the last slot the step has no defined effect.
StoreSlot(w) ==
    /\ pc[w] = "store"
    /\ IF reg[w] \in Slots
       THEN /\ buffer_slot' =
                 [buffer_slot EXCEPT ![tid[w]][reg[w]] = Head(pkts[w])]
            /\ GoTo(w, "count")
       ELSE /\ GoTo(w, "overrun")
            /\ UNCHANGED buffer_slot
    /\ UNCHANGED <<pool, rings, pkts, tid, reg, num, tenant_lock>>
    /\ UNCHANGED dispatcherVars

\* A bug: the batch is one packet too long.
WriteNumLate(w) ==
    /\ pc[w] = "count"
    /\ num' = [num EXCEPT ![tid[w]] = reg[w] + 1]
    /\ pkts' = [pkts EXCEPT ![w] = Tail(@)]
    /\ GoTo(w, IF reg[w] = MAX_PKT_BUFFER THEN "spin" ELSE "next")
    /\ UNCHANGED <<pool, rings, tid, reg, buffer_slot, tenant_lock>>
    /\ UNCHANGED dispatcherVars

\* The comparison with MAX_PKT_BUFFER uses the value just written.
WriteNum(w) ==
    /\ pc[w] = "count"
    /\ num' = [num EXCEPT ![tid[w]] = reg[w] + 1]
    /\ pkts' = [pkts EXCEPT ![w] = Tail(@)]
    /\ GoTo(w, IF reg[w] + 1 = MAX_PKT_BUFFER THEN "spin" ELSE "next")
    /\ UNCHANGED <<pool, rings, tid, reg, buffer_slot, tenant_lock>>
    /\ UNCHANGED dispatcherVars

-----------------------------------------------------------------------------
(* mtnf_packets_handler, called with a full buffer *)

\* while (tenant_lock[id]);  The flag is neither volatile nor atomic: a worker
\* that finds it TRUE reads it again, which changes nothing, or, the compiler
\* having moved the read out of the loop, never does.
Test(w) ==
    /\ pc[w] = "spin"
    /\ IF tenant_lock[tid[w]] THEN GoTo(w, "hung") ELSE GoTo(w, "acquire")
    /\ UNCHANGED <<pool, rings, pkts, tid, reg>>
    /\ UNCHANGED dispatcherVars
    /\ UNCHANGED bufferVars

Acquire(w) ==
    /\ pc[w] = "acquire"
    /\ tenant_lock' = [tenant_lock EXCEPT ![tid[w]] = TRUE]
    /\ GoTo(w, "enter")
    /\ UNCHANGED <<pool, rings, pkts, tid, reg, buffer_slot, num>>
    /\ UNCHANGED dispatcherVars

\* buffer->num is read for the call of the network function.
Enter(w) ==
    /\ pc[w] = "enter"
    /\ reg' = [reg EXCEPT ![w] = num[tid[w]]]
    /\ GoTo(w, "handler")
    /\ UNCHANGED <<pool, rings, pkts, tid>>
    /\ UNCHANGED dispatcherVars
    /\ UNCHANGED bufferVars

\* The slots of t's buffer when what a network function passes of a batch has
\* moved to the front, and the pool when the rest is freed.
Compacted(t, batch, n, kept) ==
    [i \in Slots |-> IF i < n THEN batch[kept[i + 1]] ELSE buffer_slot[t][i]]
Freed(batch, kept) == [m \in Mbufs |-> pool[m] + Dropped(m, batch, kept)]

(* A network function passes some of the packets, moves them to the front of *)
(* the buffer and frees the others (mtnf_firewall_handler); most pass all.   *)
Handler(w) ==
    LET t == tid[w]
        batch == Front(t, reg[w])
    IN  /\ pc[w] = "handler"
        /\ \E n \in 0 .. reg[w] : \E kept \in Kept(n, reg[w]) :
             /\ buffer_slot' =
                   [buffer_slot EXCEPT ![t] = Compacted(t, batch, n, kept)]
             /\ pool' = Freed(batch, kept)
             /\ reg' = [reg EXCEPT ![w] = n]
        /\ GoTo(w, "unlock")
        /\ UNCHANGED <<rings, pkts, tid, num, tenant_lock>>
        /\ UNCHANGED dispatcherVars

\* A bug: an early return when the network function passes nothing.
UnlockIfPassed(w) ==
    /\ pc[w] = "unlock"
    /\ tenant_lock' = [tenant_lock EXCEPT ![tid[w]] = @ /\ reg[w] = 0]
    /\ GoTo(w, "reset")
    /\ UNCHANGED <<pool, rings, pkts, tid, reg, buffer_slot, num>>
    /\ UNCHANGED dispatcherVars

Unlock(w) ==
    /\ pc[w] = "unlock"
    /\ tenant_lock' = [tenant_lock EXCEPT ![tid[w]] = FALSE]
    /\ GoTo(w, "reset")
    /\ UNCHANGED <<pool, rings, pkts, tid, reg, buffer_slot, num>>
    /\ UNCHANGED dispatcherVars

\* A bug: the packets the network function passed are taken off the count.
ResetByPassed(w) ==
    /\ pc[w] = "reset"
    /\ num' = [num EXCEPT ![tid[w]] = @ - reg[w]]
    /\ GoTo(w, "tx")
    /\ UNCHANGED <<pool, rings, pkts, tid, reg, buffer_slot, tenant_lock>>
    /\ UNCHANGED dispatcherVars

\* buffer->num = 0 comes after the unlock.
Reset(w) ==
    /\ pc[w] = "reset"
    /\ num' = [num EXCEPT ![tid[w]] = 0]
    /\ GoTo(w, "tx")
    /\ UNCHANGED <<pool, rings, pkts, tid, reg, buffer_slot, tenant_lock>>
    /\ UNCHANGED dispatcherVars

\* A bug: what the port does not take is not freed.
TransmitLeaking(w) ==
    /\ pc[w] = "tx"
    /\ \E n \in 0 .. reg[w] : pool' = Put(pool, Front(tid[w], n))
    /\ GoTo(w, "next")
    /\ UNCHANGED <<rings, pkts, tid, reg>>
    /\ UNCHANGED dispatcherVars
    /\ UNCHANGED bufferVars

\* Sent, or freed because the port took fewer: back in the pool either way.
Transmit(w) ==
    /\ pc[w] = "tx"
    /\ pool' = Put(pool, Front(tid[w], reg[w]))
    /\ GoTo(w, "next")
    /\ UNCHANGED <<rings, pkts, tid, reg>>
    /\ UNCHANGED dispatcherVars
    /\ UNCHANGED bufferVars

Step(w) ==
    \/ Dequeue(w) \/ BurstDone(w)
    \/ ReadNum(w) \/ StoreSlot(w) \/ WriteNum(w)
    \/ Test(w) \/ Acquire(w) \/ Enter(w) \/ Handler(w)
    \/ Unlock(w) \/ Reset(w) \/ Transmit(w)

Next ==
    \/ \E m \in Mbufs, t \in Tenants :
          Arrive(m, t) \/ ArriveOverQuota(m, t) \/ Overwrite(m, t)
    \/ \E t \in Tenants, w \in Workers : Rebind(t, w)
    \/ \E w \in Workers : Step(w)

Spec == Init /\ [][Next]_vars

(***************************************************************************)
(* A worker is a thread with a core of its own: each of its steps that can *)
(* be taken is taken.  Nothing obliges packets to arrive.                  *)
(***************************************************************************)
FairSpec == Spec /\ \A w \in Workers : WF_vars(Step(w))

-----------------------------------------------------------------------------
(* Properties *)

Inside(w, t) == tid[w] = t /\ pc[w] \in {"enter", "handler", "unlock"}

(* Between the call of the network function and the transmission, what the   *)
(* worker has of t is in the slots but no longer counted by num.             *)
Serves(w, t) == tid[w] = t /\ pc[w] \in {"unlock", "reset", "tx"}

(* The packets in t's buffer.                                                *)
Buffered(t) ==
    IF \E w \in Workers : Serves(w, t)
    THEN Front(t, reg[CHOOSE w \in Workers : Serves(w, t)])
    ELSE Front(t, num[t])

Copies(m) ==
    pool[m] + Queued(m, rings) + Queued(m, pkts)
        + Queued(m, [t \in Tenants |-> Buffered(t)])

(* As long as no tenant ever had packets at two workers at once, the buffers *)
(* need no lock: no worker ever finds one taken, spins for good or runs past *)
(* the last slot, and the network function always gets one full batch.       *)
HandlerIsExclusive ==
    shared = {} => \A w \in Workers :
        /\ pc[w] \notin {"hung", "overrun"}
        /\ \A v \in Workers \ {w} : Inside(w, tid[w]) => ~Inside(v, tid[w])
        /\ pc[w] \in {"spin", "acquire"} => ~tenant_lock[tid[w]]
        /\ pc[w] \in {"spin", "acquire", "enter"} => num[tid[w]] = MAX_PKT_BUFFER

(* Under the same condition the workers lose and duplicate no mbuf in        *)
(* dequeueing, buffering, filtering, compaction and transmission, although   *)
(* the buffer is reset after the unlock and sent after that: an mbuf is in   *)
(* as many places as the dispatcher has put it, which is one, and one more   *)
(* for each time it freed it over a quota and queued it all the same.        *)
MbufsAreConserved ==
    shared = {} => \A m \in Mbufs : Copies(m) = 1 + quotaFrees[m]

(* A lock is never left behind, even by workers that got in together: it is  *)
(* TRUE only while one of them is between taking and releasing it.           *)
LockHasHolder ==
    \A t \in Tenants : tenant_lock[t] => \E w \in Workers : Inside(w, t)

(* Where a tenant's packets are, oldest first: in its buffer unless they     *)
(* have just been served, then in its worker's hand and on the ring.         *)
LineOf(t) ==
    (IF \E w \in Workers : Serves(w, t) THEN <<>> ELSE Front(t, num[t]))
        \o Of(t, pkts[wid[t]]) \o Of(t, rings[wid[t]])

Line == INSTANCE TenantLine WITH Batch <- MAX_PKT_BUFFER,
                                 line <- [t \in Tenants |-> LineOf(t)]

(* With every tenant at its own worker and within its quota, the workers     *)
(* implement the line of each tenant: order is kept from the ring to the     *)
(* network function through the buffer that is indexed by tenant, and        *)
(* batches are served whole.                                                 *)
ServesTheLine == Line!Spec

(* Under these conditions a tenant with a full batch in line is served, even *)
(* if packets of other tenants keep its worker busy.                         *)
FullBatchIsServed ==
    \A t \in Tenants :
        Len(LineOf(t)) >= MAX_PKT_BUFFER
          ~> \E w \in Workers : tid[w] = t /\ pc[w] = "unlock"

=============================================================================
