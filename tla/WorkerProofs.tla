----------------------------- MODULE WorkerProofs -----------------------------
(* Proofs about Worker for any number of workers, tenants and mbufs, any     *)
(* sizes, and tenants that move and exceed their quotas at will.             *)
EXTENDS Worker, CustodyProofs

-----------------------------------------------------------------------------
(* The lock *)

(* A lock without a holder is excluded by what is written next to it alone:  *)
(* where each worker is, its tenant_id and the locks.  Of their types only   *)
(* the domains are needed.                                                   *)
LockInv ==
    /\ DOMAIN pc = Workers
    /\ DOMAIN tid = Workers
    /\ DOMAIN tenant_lock = Tenants
    /\ LockHasHolder

(* At first every lock is free.                                              *)
LEMMA InitLockInv == Init => LockInv
  BY WorkerAssumption DEF Init, LockInv, LockHasHolder

(* A step that changes neither a lock nor who is inside keeps the invariant. *)
LEMMA OutsideStep ==
    ASSUME LockInv, NEW w \in Workers, NEW label,
           ~Inside(w, tid[w]),
           label \notin {"enter", "handler", "unlock"},
           pc' = [pc EXCEPT ![w] = label],
           DOMAIN tid' = Workers,
           \A v \in Workers \ {w} : tid'[v] = tid[v],
           tenant_lock' = tenant_lock
    PROVE  LockInv'
<1>1. DOMAIN pc' = Workers /\ DOMAIN tenant_lock' = Tenants
  BY DEF LockInv
<1>2. ASSUME NEW t \in Tenants, tenant_lock'[t]
      PROVE  \E v \in Workers : Inside(v, t)'
  <2>1. PICK v \in Workers : Inside(v, t)
    BY <1>2 DEF LockInv, LockHasHolder
  <2>2. v # w
    BY <2>1 DEF Inside
  <2>3. Inside(v, t)'
    BY <2>1, <2>2 DEF Inside, LockInv
  <2> QED
    BY <2>3
<1> QED
  BY <1>1, <1>2 DEF LockInv, LockHasHolder

(* A step from one place between taking and releasing the lock to another.   *)
LEMMA InsideStep ==
    ASSUME LockInv, NEW w \in Workers, NEW label,
           label \in {"enter", "handler", "unlock"},
           pc' = [pc EXCEPT ![w] = label],
           tid' = tid,
           tenant_lock' = tenant_lock
    PROVE  LockInv'
<1>1. ASSUME NEW t \in Tenants, tenant_lock'[t]
      PROVE  \E v \in Workers : Inside(v, t)'
  <2>1. PICK v \in Workers : Inside(v, t)
    BY <1>1 DEF LockInv, LockHasHolder
  <2>2. Inside(v, t)'
    BY <2>1 DEF Inside, LockInv
  <2> QED
    BY <2>2
<1> QED
  BY <1>1 DEF LockInv, LockHasHolder

(* Taking the lock makes the worker its holder.                              *)
LEMMA AcquireStep ==
    ASSUME LockInv, NEW w \in Workers, Acquire(w)
    PROVE  LockInv'
<1>1. DOMAIN pc' = Workers /\ DOMAIN tid' = Workers /\ DOMAIN tenant_lock' = Tenants
  BY DEF Acquire, GoTo, LockInv
<1>2. ASSUME NEW t \in Tenants, tenant_lock'[t]
      PROVE  \E v \in Workers : Inside(v, t)'
  <2>1. CASE t = tid[w]
    <3>1. Inside(w, t)'
      BY <2>1 DEF Acquire, GoTo, Inside, LockInv
    <3> QED
      BY <3>1
  <2>2. CASE t # tid[w]
    <3>1. tenant_lock[t]
      BY <1>2, <2>2 DEF Acquire, LockInv
    <3>2. PICK v \in Workers : Inside(v, t)
      BY <3>1 DEF LockInv, LockHasHolder
    <3>3. Inside(v, t)'
      BY <2>2, <3>2 DEF Acquire, GoTo, Inside, LockInv
    <3> QED
      BY <3>3
  <2> QED
    BY <2>1, <2>2
<1> QED
  BY <1>1, <1>2 DEF LockInv, LockHasHolder

(* Releasing it frees the lock, whoever else believes to hold it.            *)
LEMMA UnlockStep ==
    ASSUME LockInv, NEW w \in Workers, Unlock(w)
    PROVE  LockInv'
<1>1. DOMAIN pc' = Workers /\ DOMAIN tid' = Workers /\ DOMAIN tenant_lock' = Tenants
  BY DEF Unlock, GoTo, LockInv
<1>2. ASSUME NEW t \in Tenants, tenant_lock'[t]
      PROVE  \E v \in Workers : Inside(v, t)'
  <2>1. t # tid[w] /\ tenant_lock[t]
    BY <1>2 DEF Unlock, LockInv
  <2>2. PICK v \in Workers : Inside(v, t)
    BY <2>1 DEF LockInv, LockHasHolder
  <2>3. Inside(v, t)'
    BY <2>1, <2>2 DEF Unlock, GoTo, Inside, LockInv
  <2> QED
    BY <2>3
<1> QED
  BY <1>1, <1>2 DEF LockInv, LockHasHolder

LEMMA StepLockInv ==
    ASSUME LockInv, [Next]_vars
    PROVE  LockInv'
<1>1. ASSUME NEW w \in Workers, Step(w)
      PROVE  LockInv'
  <2>1. CASE Dequeue(w)
    BY <2>1, OutsideStep DEF Dequeue, GoTo, Inside, LockInv, dispatcherVars, bufferVars
  <2>2. CASE BurstDone(w)
    BY <2>2, OutsideStep DEF BurstDone, GoTo, Inside, LockInv, dispatcherVars, bufferVars
  <2>3. CASE ReadNum(w)
    BY <2>3, OutsideStep DEF ReadNum, GoTo, Inside, LockInv, dispatcherVars, bufferVars
  <2>4. CASE StoreSlot(w)
    BY <2>4, OutsideStep DEF StoreSlot, GoTo, Inside, LockInv, dispatcherVars, bufferVars
  <2>5. CASE WriteNum(w)
    BY <2>5, OutsideStep DEF WriteNum, GoTo, Inside, LockInv, dispatcherVars, bufferVars
  <2>6. CASE Test(w)
    BY <2>6, OutsideStep DEF Test, GoTo, Inside, LockInv, dispatcherVars, bufferVars
  <2>7. CASE Acquire(w)
    BY <2>7, AcquireStep
  <2>8. CASE Enter(w)
    BY <2>8, InsideStep DEF Enter, GoTo, dispatcherVars, bufferVars
  <2>9. CASE Handler(w)
    BY <2>9, InsideStep DEF Handler, GoTo, dispatcherVars, bufferVars
  <2>10. CASE Unlock(w)
    BY <2>10, UnlockStep
  <2>11. CASE Reset(w)
    BY <2>11, OutsideStep DEF Reset, GoTo, Inside, LockInv, dispatcherVars, bufferVars
  <2>12. CASE Transmit(w)
    BY <2>12, OutsideStep DEF Transmit, GoTo, Inside, LockInv, dispatcherVars, bufferVars
  <2> QED
    BY <1>1, <2>1, <2>2, <2>3, <2>4, <2>5, <2>6, <2>7, <2>8, <2>9, <2>10, <2>11,
       <2>12 DEF Step
<1>2. ASSUME UNCHANGED <<pc, tid, tenant_lock>>
      PROVE  LockInv'
  BY <1>2 DEF LockInv, LockHasHolder, Inside
<1>3. ASSUME NEW m \in Mbufs, NEW t \in Tenants,
             Arrive(m, t) \/ ArriveOverQuota(m, t) \/ Overwrite(m, t)
      PROVE  LockInv'
  BY <1>2, <1>3 DEF Arrive, ArriveOverQuota, Enqueue, Overwrite, bufferVars
<1>4. ASSUME NEW t \in Tenants, NEW w \in Workers, Rebind(t, w)
      PROVE  LockInv'
  BY <1>2, <1>4 DEF Rebind, bufferVars
<1>5. CASE UNCHANGED vars
  BY <1>2, <1>5 DEF vars
<1> QED
  BY <1>1, <1>3, <1>4, <1>5 DEF Next

(* A tenant lock is never left behind, for any number of workers and tenants *)
(* and although the lock does not exclude: workers that got in together      *)
(* release it, and whoever acquires it last is still inside.                 *)
THEOREM LocksHaveHolders == Spec => []LockHasHolder
<1>1. Spec => []LockInv
  BY InitLockInv, StepLockInv, PTL DEF Spec
<1> QED
  BY <1>1, PTL DEF LockInv

-----------------------------------------------------------------------------
(* Types *)

(* What the types rest on: a worker that stores a packet has one in hand,    *)
(* and counts it in a slot that exists; one that polls has none.             *)
WorkerTypes ==
    /\ TypeOK
    /\ \A w \in Workers :
          /\ pc[w] = "poll" => pkts[w] = <<>>
          /\ pc[w] \in {"store", "count"} => pkts[w] # <<>>
          /\ pc[w] = "count" => reg[w] \in Slots

(* The zeroed buffers and idle workers have the types.                       *)
LEMMA InitTypes == Init => WorkerTypes
<1> SUFFICES ASSUME Init PROVE WorkerTypes
  OBVIOUS
<1> USE WorkerAssumption DEF Init
<1>1. (CHOOSE t \in Tenants : TRUE) \in Tenants
  OBVIOUS
<1>2. tos \in [Mbufs -> Tenants] /\ tid \in [Workers -> Tenants]
  BY <1>1
<1>3. <<>> \in Seq(Mbufs)
  OBVIOUS
<1> QED
  BY <1>2, <1>3 DEF WorkerTypes, TypeOK, Labels, Slots

(* A tenant's buffer is a sequence for as many packets as it has slots.      *)
LEMMA FrontType ==
    ASSUME NEW t \in Tenants, NEW n \in 0 .. MBUFS_PER_TENANT,
           buffer_slot \in [Tenants -> [Slots -> Mbufs \cup {NoMbuf}]]
    PROVE  /\ Front(t, n) \in Seq(Mbufs \cup {NoMbuf})
           /\ Len(Front(t, n)) = n
           /\ \A i \in 1 .. n : Front(t, n)[i] = buffer_slot[t][i - 1]
<1>1. \A i \in 1 .. n : i - 1 \in Slots
  BY WorkerAssumption DEF Slots
<1>2. Front(t, n) \in [1 .. n -> Mbufs \cup {NoMbuf}]
  BY <1>1 DEF Front
<1>3. n \in Nat
  BY WorkerAssumption
<1> QED
  BY <1>2, <1>3 DEF Front

(* The dispatcher's steps.                                                   *)
LEMMA EnqueueTypes ==
    ASSUME WorkerTypes, NEW m \in Mbufs, NEW t \in Tenants, Enqueue(m, t),
           pool' \in [Mbufs -> Nat], quotaFrees' \in [Mbufs -> Nat]
    PROVE  WorkerTypes'
<1>1. rings \in [Workers -> Seq(Mbufs)] /\ wid[t] \in Workers
  BY DEF WorkerTypes, TypeOK
<1>2. /\ rings' = [rings EXCEPT ![wid[t]] = Append(rings[wid[t]], m)]
      /\ tos' = [tos EXCEPT ![m] = t]
      /\ shared' = shared \cup {u \in Tenants : AtTwo(u)'}
      /\ UNCHANGED <<wid, pkts, pc, tid, reg, buffer_slot, num, tenant_lock>>
  BY DEF Enqueue, NoteShared, bufferVars
<1>3. rings' \in [Workers -> Seq(Mbufs)]
  <2>1. Append(rings[wid[t]], m) \in Seq(Mbufs)
    BY <1>1
  <2> QED
    BY <1>1, <1>2, <2>1
<1> QED
  BY <1>2, <1>3 DEF WorkerTypes, TypeOK

\* What a packet takes from the pool, or the quota has it given back.
LEMMA ArriveTakes ==
    ASSUME WorkerTypes, NEW x \in Mbufs, NEW t \in Tenants,
           Arrive(x, t) \/ ArriveOverQuota(x, t)
    PROVE  /\ Enqueue(x, t)
           /\ pool' \in [Mbufs -> Nat] /\ quotaFrees' \in [Mbufs -> Nat]
           /\ \A m \in Mbufs :
                 pool'[m] + (IF x = m THEN 1 ELSE 0) + quotaFrees[m]
                   = pool[m] + quotaFrees'[m]
<1>1. /\ pool \in [Mbufs -> Nat] /\ quotaFrees \in [Mbufs -> Nat]
      /\ Enqueue(x, t) /\ pool[x] > 0
  BY DEF Arrive, ArriveOverQuota, Enqueue, WorkerTypes, TypeOK
<1>2. CASE Arrive(x, t)
  BY <1>1, <1>2 DEF Arrive
<1>3. CASE ArriveOverQuota(x, t)
  BY <1>1, <1>3 DEF ArriveOverQuota
<1> QED
  BY <1>1, <1>2, <1>3

LEMMA OverwriteTypes ==
    ASSUME WorkerTypes, NEW m \in Mbufs, NEW t \in Tenants, Overwrite(m, t)
    PROVE  WorkerTypes'
<1>1. /\ tos' = [tos EXCEPT ![m] = t]
      /\ shared' = shared \cup {u \in Tenants : AtTwo(u)'}
      /\ UNCHANGED <<wid, pool, rings, pkts, pc, tid, reg, quotaFrees,
                     buffer_slot, num, tenant_lock>>
  BY DEF Overwrite, NoteShared, bufferVars
<1> QED
  BY <1>1 DEF WorkerTypes, TypeOK

LEMMA DequeueTypes ==
    ASSUME WorkerTypes, NEW w \in Workers, Dequeue(w)
    PROVE  WorkerTypes'
<1> DEFINE n == IF Len(rings[w]) < MAX_PKT_BUFFER THEN Len(rings[w])
                                                  ELSE MAX_PKT_BUFFER
           burst == SubSeq(rings[w], 1, n)
           left == SubSeq(rings[w], n + 1, Len(rings[w]))
<1> USE WorkerAssumption
<1>1. rings[w] \in Seq(Mbufs)
  BY DEF WorkerTypes, TypeOK
<1>2. n \in 0 .. Len(rings[w])
  BY <1>1
<1>3. /\ pkts' = [pkts EXCEPT ![w] = burst]
      /\ rings' = [rings EXCEPT ![w] = left]
      /\ pc' = [pc EXCEPT ![w] = "next"]
      /\ UNCHANGED <<wid, tos, pool, buffer_slot, num, tenant_lock, tid, reg,
                     shared, quotaFrees>>
  BY DEF Dequeue, GoTo, dispatcherVars, bufferVars
<1> HIDE DEF n
<1>4. burst \in Seq(Mbufs) /\ left \in Seq(Mbufs)
  BY <1>1, <1>2, OccurrencesOfCut
<1> HIDE DEF burst, left
<1> QED
  BY <1>3, <1>4 DEF WorkerTypes, TypeOK, Labels

LEMMA StoreTypes ==
    ASSUME WorkerTypes, NEW w \in Workers,
           BurstDone(w) \/ ReadNum(w) \/ StoreSlot(w)
    PROVE  WorkerTypes'
<1> USE DEF WorkerTypes, TypeOK, GoTo, dispatcherVars, bufferVars, Labels
<1>1. CASE BurstDone(w)
  BY <1>1 DEF BurstDone
<1>2. CASE ReadNum(w)
  <2>1. Head(pkts[w]) \in Mbufs
    BY <1>2 DEF ReadNum
  <2> QED
    BY <1>2, <2>1 DEF ReadNum
<1>3. CASE StoreSlot(w)
  <2>1. Head(pkts[w]) \in Mbufs
    BY <1>3 DEF StoreSlot
  <2>2. CASE reg[w] \in Slots
    <3>1. buffer_slot' =
            [buffer_slot EXCEPT ![tid[w]][reg[w]] = Head(pkts[w])]
      BY <1>3, <2>2 DEF StoreSlot
    <3>2. buffer_slot' \in [Tenants -> [Slots -> Mbufs \cup {NoMbuf}]]
      BY <2>1, <2>2, <3>1
    <3> QED
      BY <1>3, <2>2, <3>2 DEF StoreSlot
  <2>3. CASE reg[w] \notin Slots
    BY <1>3, <2>3 DEF StoreSlot
  <2> QED
    BY <2>2, <2>3
<1> QED
  BY <1>1, <1>2, <1>3

LEMMA WriteNumTypes ==
    ASSUME WorkerTypes, NEW w \in Workers, WriteNum(w)
    PROVE  WorkerTypes'
<1> USE WorkerAssumption DEF WorkerTypes, TypeOK
<1>1. pc[w] = "count" /\ pkts[w] # <<>> /\ reg[w] \in Slots
  BY DEF WriteNum
<1>2. Tail(pkts[w]) \in Seq(Mbufs)
  BY <1>1
<1>3. reg[w] + 1 \in 0 .. MBUFS_PER_TENANT
  <2> DEFINE r == reg[w]
  <2>1. r \in 0 .. MBUFS_PER_TENANT - 1
    BY <1>1 DEF Slots
  <2> HIDE DEF r
  <2>2. r + 1 \in 0 .. MBUFS_PER_TENANT
    BY <2>1
  <2> QED
    BY <2>2 DEF r
<1>4. /\ num' = [num EXCEPT ![tid[w]] = reg[w] + 1]
      /\ pkts' = [pkts EXCEPT ![w] = Tail(pkts[w])]
      /\ UNCHANGED <<wid, tos, pool, rings, buffer_slot, tenant_lock, tid, reg,
                     shared, quotaFrees>>
  BY DEF WriteNum, dispatcherVars
<1>5. /\ num' \in [Tenants -> 0 .. MBUFS_PER_TENANT]
      /\ pkts' \in [Workers -> Seq(Mbufs)]
      /\ \A v \in Workers \ {w} : pkts'[v] = pkts[v]
  BY <1>2, <1>3, <1>4
<1>6. /\ pc' \in [Workers -> Labels]
      /\ pc'[w] \in {"spin", "next"}
      /\ \A v \in Workers \ {w} : pc'[v] = pc[v]
  BY DEF WriteNum, GoTo, Labels
<1> QED
  BY <1>4, <1>5, <1>6

(* The steps of mtnf_packets_handler but the network function.               *)
LEMMA LockTypes ==
    ASSUME WorkerTypes, NEW w \in Workers,
           Test(w) \/ Acquire(w) \/ Enter(w) \/ Unlock(w) \/ Reset(w)
    PROVE  WorkerTypes'
<1> USE WorkerAssumption
    DEF WorkerTypes, TypeOK, GoTo, dispatcherVars, bufferVars, Labels
<1>1. CASE Test(w)
  <2>1. pc' = [pc EXCEPT ![w] = "hung"] \/ pc' = [pc EXCEPT ![w] = "acquire"]
    BY <1>1 DEF Test
  <2>2. UNCHANGED <<wid, tos, pool, rings, pkts, buffer_slot, num, tenant_lock,
                    tid, reg, shared, quotaFrees>>
    BY <1>1 DEF Test
  <2>3. /\ pc' \in [Workers -> Labels]
        /\ pc'[w] \notin {"poll", "store", "count"}
        /\ \A v \in Workers \ {w} : pc'[v] = pc[v]
    BY <2>1
  <2> QED
    BY <2>2, <2>3
<1>2. CASE Acquire(w)
  BY <1>2 DEF Acquire
<1>3. CASE Enter(w)
  BY <1>3 DEF Enter
<1>4. CASE Unlock(w)
  BY <1>4 DEF Unlock
<1>5. CASE Reset(w)
  <2>1. 0 \in 0 .. MBUFS_PER_TENANT
    OBVIOUS
  <2> QED
    BY <1>5, <2>1 DEF Reset
<1> QED
  BY <1>1, <1>2, <1>3, <1>4, <1>5

(* The compacted buffer has slots of the same type.                          *)
LEMMA CompactedType ==
    ASSUME WorkerTypes, NEW t \in Tenants, NEW k \in 0 .. MBUFS_PER_TENANT,
           NEW n \in 0 .. k, NEW kept \in Kept(n, k)
    PROVE  /\ Compacted(t, Front(t, k), n, kept)
                \in [Slots -> Mbufs \cup {NoMbuf}]
           /\ Freed(Front(t, k), kept) \in [Mbufs -> Nat]
<1> DEFINE batch == Front(t, k)
<1>1. buffer_slot \in [Tenants -> [Slots -> Mbufs \cup {NoMbuf}]]
      /\ pool \in [Mbufs -> Nat]
  BY DEF WorkerTypes, TypeOK
<1>2. /\ batch \in Seq(Mbufs \cup {NoMbuf}) /\ Len(batch) = k
      /\ DOMAIN batch = 1 .. k
  BY <1>1, FrontType
<1> HIDE DEF batch
<1>3. ASSUME NEW i \in Slots, i < n
      PROVE  batch[kept[i + 1]] \in Mbufs \cup {NoMbuf}
  <2>1. i + 1 \in 1 .. n
    BY <1>3, WorkerAssumption DEF Slots
  <2>2. kept[i + 1] \in 1 .. k
    BY <2>1 DEF Kept
  <2> QED
    BY <1>2, <2>2
<1>4. \A i \in Slots : buffer_slot[t][i] \in Mbufs \cup {NoMbuf}
  BY <1>1
<1>5. Compacted(t, batch, n, kept) \in [Slots -> Mbufs \cup {NoMbuf}]
  BY <1>3, <1>4 DEF Compacted
<1>6. ASSUME NEW m \in Mbufs
      PROVE  pool[m] + Dropped(m, batch, kept) \in Nat
  <2>1. Dropped(m, batch, kept) \in Nat
    BY <1>2, DroppedIsNatural
  <2>2. pool[m] \in Nat
    BY <1>1
  <2> QED
    BY <2>1, <2>2
<1>7. Freed(batch, kept) \in [Mbufs -> Nat]
  BY <1>6 DEF Freed
<1> QED
  BY <1>5, <1>7 DEF batch

LEMMA HandlerTypes ==
    ASSUME WorkerTypes, NEW w \in Workers, Handler(w)
    PROVE  WorkerTypes'
<1> DEFINE t == tid[w]
           k == reg[w]
<1>1. t \in Tenants /\ k \in 0 .. MBUFS_PER_TENANT
  BY DEF WorkerTypes, TypeOK
<1> DEFINE Effect(n, kept) ==
             /\ buffer_slot' =
                   [buffer_slot EXCEPT ![t] = Compacted(t, Front(t, k), n, kept)]
             /\ pool' = Freed(Front(t, k), kept)
             /\ reg' = [reg EXCEPT ![w] = n]
<1>a. PICK n \in 0 .. k : \E kept \in Kept(n, k) : Effect(n, kept)
  BY DEF Handler
<1>2. PICK kept \in Kept(n, k) : Effect(n, kept)
  BY <1>a
<1>3. n \in 0 .. MBUFS_PER_TENANT
  BY <1>1, WorkerAssumption
<1>4. /\ Compacted(t, Front(t, k), n, kept)
           \in [Slots -> Mbufs \cup {NoMbuf}]
      /\ pool' \in [Mbufs -> Nat]
  BY <1>1, <1>2, CompactedType
<1>5. buffer_slot' \in [Tenants -> [Slots -> Mbufs \cup {NoMbuf}]]
  BY <1>1, <1>2, <1>4 DEF WorkerTypes, TypeOK
<1>6. /\ reg' \in [Workers -> 0 .. MBUFS_PER_TENANT]
      /\ pc' = [pc EXCEPT ![w] = "unlock"]
      /\ \A v \in Workers \ {w} : reg'[v] = reg[v]
      /\ UNCHANGED <<wid, tos, rings, pkts, num, tenant_lock, tid, shared,
                     quotaFrees>>
  BY <1>2, <1>3 DEF Handler, GoTo, dispatcherVars, WorkerTypes, TypeOK
<1> QED
  BY <1>4, <1>5, <1>6 DEF WorkerTypes, TypeOK, Labels

LEMMA TransmitTypes ==
    ASSUME WorkerTypes, NEW w \in Workers, Transmit(w)
    PROVE  WorkerTypes'
<1>1. Front(tid[w], reg[w]) \in Seq(Mbufs \cup {NoMbuf})
  BY FrontType DEF WorkerTypes, TypeOK
<1>2. pool' \in [Mbufs -> Nat]
  BY <1>1, PutIsBag DEF Transmit, WorkerTypes, TypeOK
<1> QED
  BY <1>2 DEF Transmit, GoTo, dispatcherVars, bufferVars, WorkerTypes, TypeOK,
              Labels

LEMMA StepTypes == WorkerTypes /\ [Next]_vars => WorkerTypes'
<1> SUFFICES ASSUME WorkerTypes, [Next]_vars PROVE WorkerTypes'
  OBVIOUS
<1>1. ASSUME NEW m \in Mbufs, NEW t \in Tenants,
             Arrive(m, t) \/ ArriveOverQuota(m, t) \/ Overwrite(m, t)
      PROVE  WorkerTypes'
  BY <1>1, ArriveTakes, EnqueueTypes, OverwriteTypes
<1>2. ASSUME NEW t \in Tenants, NEW w \in Workers, Rebind(t, w)
      PROVE  WorkerTypes'
  BY <1>2 DEF Rebind, bufferVars, WorkerTypes, TypeOK
<1>3. ASSUME NEW w \in Workers, Step(w)
      PROVE  WorkerTypes'
  BY <1>3, DequeueTypes, StoreTypes, WriteNumTypes, LockTypes, HandlerTypes,
     TransmitTypes DEF Step
<1>4. CASE UNCHANGED vars
  BY <1>4 DEF vars, WorkerTypes, TypeOK
<1> QED
  BY <1>1, <1>2, <1>3, <1>4 DEF Next

(* The state keeps its types, whoever shares a buffer with whom: no worker   *)
(* counts a packet past the last slot of a buffer or without one in hand.    *)
THEOREM WorkerStaysTyped == Spec => []TypeOK
<1>1. Spec => []WorkerTypes
  BY InitTypes, StepTypes, PTL DEF Spec
<1> QED
  BY <1>1, PTL DEF WorkerTypes

-----------------------------------------------------------------------------
(* A tenant at one worker at a time *)

(* Between the packet that fills t's buffer and the reset of its count.      *)
AtBatch(w, t) ==
    /\ tid[w] = t
    /\ pc[w] \in {"spin", "acquire", "enter", "handler", "unlock", "reset"}

(* No two workers have packets of one tenant.                                *)
Alone ==
    \A v, w \in Workers, t \in Tenants : Has(v, t) /\ Has(w, t) => v = w

(* What a worker that is alone with its tenant finds at each place.          *)
Stage(w) ==
    LET t == tid[w]
    IN  /\ pc[w] \notin {"hung", "overrun"}
        /\ pc[w] \in {"store", "count"} => reg[w] = num[t]
        /\ pc[w] = "count" => buffer_slot[t][reg[w]] = Head(pkts[w])
        /\ pc[w] \in {"spin", "acquire"} => ~tenant_lock[t]
        /\ AtBatch(w, t) => num[t] = MAX_PKT_BUFFER
        /\ pc[w] = "handler" => reg[w] = MAX_PKT_BUFFER
        /\ pc[w] = "tx" => num[t] = 0

(* A buffer that no worker serves is not full.                               *)
Fresh ==
    \A t \in Tenants :
        (\A w \in Workers : ~AtBatch(w, t)) => num[t] < MAX_PKT_BUFFER

Solo ==
    /\ Alone
    /\ \A w \in Workers : Stage(w)
    /\ Fresh
    /\ \A m \in Mbufs : Copies(m) = 1 + quotaFrees[m]

(* A part of a sequence has no tenant the sequence does not have.            *)
LEMMA IsForPart ==
    ASSUME NEW t, NEW s, NEW r, \A i \in DOMAIN r : \E j \in DOMAIN s : r[i] = s[j],
           IsFor(t, r)
    PROVE  IsFor(t, s)
BY DEF IsFor

(* A step of a worker gives no worker a tenant it had not.                   *)
LEMMA StepGivesNoTenant ==
    ASSUME WorkerTypes, NEW w \in Workers, Step(w)
    PROVE  \A v \in Workers, t \in Tenants : Has(v, t)' => Has(v, t)
<1> USE DEF Has, Busy, IsFor
<1>1. CASE Dequeue(w)
  <2> DEFINE n == IF Len(rings[w]) < MAX_PKT_BUFFER THEN Len(rings[w])
                                                    ELSE MAX_PKT_BUFFER
             burst == SubSeq(rings[w], 1, n)
             left == SubSeq(rings[w], n + 1, Len(rings[w]))
  <2>1. rings \in [Workers -> Seq(Mbufs)] /\ pkts \in [Workers -> Seq(Mbufs)]
        /\ pc \in [Workers -> Labels]
    BY DEF WorkerTypes, TypeOK
  <2>2. n \in 0 .. Len(rings[w])
    BY <2>1, WorkerAssumption
  <2>3. /\ pkts' = [pkts EXCEPT ![w] = burst]
        /\ rings' = [rings EXCEPT ![w] = left]
        /\ pc' = [pc EXCEPT ![w] = "next"]
        /\ UNCHANGED <<tos, tid>>
    BY <1>1 DEF Dequeue, GoTo, dispatcherVars
  <2> HIDE DEF n
  <2>4. /\ \A i \in DOMAIN burst : \E j \in DOMAIN rings[w] : burst[i] = rings[w][j]
        /\ \A i \in DOMAIN left : \E j \in DOMAIN rings[w] : left[i] = rings[w][j]
    BY <2>1, <2>2, PartsOfCut
  <2> HIDE DEF burst, left
  <2>5. ASSUME NEW v \in Workers, NEW t \in Tenants, Has(v, t)'
        PROVE  Has(v, t)
    <3>1. CASE v # w
      BY <2>1, <2>3, <2>5, <3>1
    <3>2. CASE v = w
      <4>1. IsFor(t, burst) \/ IsFor(t, left)
        BY <2>1, <2>3, <2>5, <3>2
      <4>2. IsFor(t, rings[w])
        BY <2>4, <4>1, IsForPart
      <4> QED
        BY <3>2, <4>2
    <3> QED
      BY <3>1, <3>2
  <2> QED
    BY <2>5
<1>2. CASE WriteNum(w)
  <2>1. pkts \in [Workers -> Seq(Mbufs)] /\ pkts[w] # <<>> /\ pc[w] = "count"
        /\ pc \in [Workers -> Labels]
    BY <1>2 DEF WriteNum, WorkerTypes, TypeOK
  <2>2. /\ pkts' = [pkts EXCEPT ![w] = Tail(pkts[w])]
        /\ \A v \in Workers \ {w} : pc'[v] = pc[v]
        /\ UNCHANGED <<tos, tid, rings>>
    BY <1>2, <2>1 DEF WriteNum, GoTo, dispatcherVars
  <2>3. \A i \in DOMAIN Tail(pkts[w]) :
           \E j \in DOMAIN pkts[w] : Tail(pkts[w])[i] = pkts[w][j]
    BY <2>1, PartsOfTail
  <2>4. ASSUME NEW v \in Workers, NEW t \in Tenants, Has(v, t)'
        PROVE  Has(v, t)
    <3>1. CASE v # w
      BY <2>1, <2>2, <2>4, <3>1
    <3>2. CASE v = w
      <4>1. tid[w] = t \/ IsFor(t, rings[w]) \/ IsFor(t, Tail(pkts[w]))
        BY <2>1, <2>2, <2>4, <3>2
      <4>2. IsFor(t, Tail(pkts[w])) => IsFor(t, pkts[w])
        BY <2>3, IsForPart
      <4> QED
        BY <2>1, <3>2, <4>1, <4>2
    <3> QED
      BY <3>1, <3>2
  <2> QED
    BY <2>4
<1>3. CASE ReadNum(w)
  <2>1. pkts \in [Workers -> Seq(Mbufs)] /\ pkts[w] # <<>> /\ pc[w] = "next"
        /\ pc \in [Workers -> Labels] /\ tid \in [Workers -> Tenants]
    BY <1>3 DEF ReadNum, WorkerTypes, TypeOK
  <2>2. Head(pkts[w]) = pkts[w][1] /\ 1 \in DOMAIN pkts[w]
    BY <2>1
  <2>3. IsFor(tos[Head(pkts[w])], pkts[w])
    BY <2>2
  <2>4. /\ tid' = [tid EXCEPT ![w] = tos[Head(pkts[w])]]
        /\ pc' = [pc EXCEPT ![w] = "store"]
        /\ UNCHANGED <<tos, rings, pkts>>
    BY <1>3 DEF ReadNum, GoTo, dispatcherVars
  <2>5. ASSUME NEW v \in Workers, NEW t \in Tenants, Has(v, t)'
        PROVE  Has(v, t)
    <3>1. CASE v # w
      BY <2>1, <2>4, <2>5, <3>1
    <3>2. CASE v = w
      BY <2>1, <2>3, <2>4, <2>5, <3>2
    <3> QED
      BY <3>1, <3>2
  <2> QED
    BY <2>5
<1>4. ASSUME pc' = [pc EXCEPT ![w] = "poll"] \/ pc[w] \notin {"poll", "next"},
             \A v \in Workers \ {w} : pc'[v] = pc[v],
             UNCHANGED <<tos, rings, pkts, tid>>
      PROVE  \A v \in Workers, t \in Tenants : Has(v, t)' => Has(v, t)
  <2>1. pc \in [Workers -> Labels]
    BY DEF WorkerTypes, TypeOK
  <2>2. ASSUME NEW v \in Workers, NEW t \in Tenants, Has(v, t)'
        PROVE  Has(v, t)
    <3>1. CASE v # w
      BY <1>4, <2>1, <2>2, <3>1
    <3>2. CASE v = w
      BY <1>4, <2>1, <2>2, <3>2
    <3> QED
      BY <3>1, <3>2
  <2> QED
    BY <2>2
<1>5. CASE BurstDone(w)
  BY <1>4, <1>5 DEF BurstDone, GoTo, dispatcherVars, WorkerTypes, TypeOK
<1>6. CASE \/ StoreSlot(w) \/ Test(w) \/ Acquire(w) \/ Enter(w) \/ Handler(w)
           \/ Unlock(w) \/ Reset(w) \/ Transmit(w)
  <2>1. /\ pc[w] \notin {"poll", "next"}
        /\ \A v \in Workers \ {w} : pc'[v] = pc[v]
        /\ UNCHANGED <<tos, rings, pkts, tid>>
    BY <1>6 DEF StoreSlot, Test, Acquire, Enter, Handler, Unlock, Reset, Transmit,
                GoTo, dispatcherVars, WorkerTypes, TypeOK
  <2> QED
    BY <1>4, <2>1
<1> QED
  BY <1>1, <1>2, <1>3, <1>5, <1>6 DEF Step

LEMMA StepStaysAlone ==
    ASSUME WorkerTypes, Alone, NEW w \in Workers, Step(w)
    PROVE  Alone'
BY StepGivesNoTenant DEF Alone

(* What the other workers found stays so: a step of w changes the buffers of *)
(* tenants it has, which they have not.                                      *)
LEMMA OthersStage ==
    ASSUME WorkerTypes, Alone, NEW w \in Workers, tos' = tos,
           NEW v \in Workers \ {w},
           pc'[v] = pc[v], tid'[v] = tid[v], reg'[v] = reg[v], pkts'[v] = pkts[v],
           \A u \in Tenants :
              \/ Has(w, u)
              \/ /\ num'[u] = num[u] /\ buffer_slot'[u] = buffer_slot[u]
                 /\ tenant_lock'[u] = tenant_lock[u],
           Stage(v)
    PROVE  Stage(v)'
<1>1. CASE pc[v] \in {"poll", "next"}
  BY <1>1 DEF Stage, AtBatch
<1>2. CASE pc[v] \notin {"poll", "next"}
  <2>1. tid[v] \in Tenants
    BY DEF WorkerTypes, TypeOK
  <2>2. Has(v, tid[v])
    BY <1>2 DEF Has, Busy
  <2>3. ~Has(w, tid[v])
    BY <2>1, <2>2 DEF Alone
  <2>4. /\ num'[tid[v]] = num[tid[v]]
        /\ buffer_slot'[tid[v]] = buffer_slot[tid[v]]
        /\ tenant_lock'[tid[v]] = tenant_lock[tid[v]]
    BY <2>1, <2>3
  <2> QED
    BY <2>4 DEF Stage, AtBatch
<1> QED
  BY <1>1, <1>2

(* What a step of w leaves alone.                                            *)
LEMMA StepIsLocal ==
    ASSUME WorkerTypes, NEW w \in Workers, Step(w)
    PROVE  /\ tos' = tos /\ shared' = shared /\ quotaFrees' = quotaFrees
           /\ \A v \in Workers \ {w} :
                 /\ pc'[v] = pc[v] /\ tid'[v] = tid[v] /\ reg'[v] = reg[v]
                 /\ pkts'[v] = pkts[v] /\ rings'[v] = rings[v]
           /\ \A u \in Tenants :
                 \/ Has(w, u)
                 \/ /\ num'[u] = num[u] /\ buffer_slot'[u] = buffer_slot[u]
                    /\ tenant_lock'[u] = tenant_lock[u]
<1> USE DEF WorkerTypes, TypeOK, GoTo, dispatcherVars, bufferVars, Has, Busy
<1>1. CASE Dequeue(w)
  BY <1>1 DEF Dequeue
<1>2. CASE BurstDone(w)
  BY <1>2 DEF BurstDone
<1>3. CASE ReadNum(w)
  BY <1>3 DEF ReadNum
<1>4. CASE StoreSlot(w)
  BY <1>4 DEF StoreSlot
<1>5. CASE WriteNum(w)
  BY <1>5 DEF WriteNum
<1>6. CASE Test(w)
  BY <1>6 DEF Test
<1>7. CASE Acquire(w)
  BY <1>7 DEF Acquire
<1>8. CASE Enter(w)
  BY <1>8 DEF Enter
<1>9. CASE Handler(w)
  <2>1. PICK n \in 0 .. reg[w] : \E new :
           /\ buffer_slot' = [buffer_slot EXCEPT ![tid[w]] = new]
           /\ reg' = [reg EXCEPT ![w] = n]
    BY <1>9 DEF Handler
  <2> QED
    BY <1>9, <2>1 DEF Handler
<1>10. CASE Unlock(w)
  BY <1>10 DEF Unlock
<1>11. CASE Reset(w)
  BY <1>11 DEF Reset
<1>12. CASE Transmit(w)
  BY <1>12 DEF Transmit
<1> QED
  BY <1>1, <1>2, <1>3, <1>4, <1>5, <1>6, <1>7, <1>8, <1>9, <1>10, <1>11, <1>12
     DEF Step

(* A worker that has a packet of a tenant finds room in its buffer, unless   *)
(* it is at work on a batch itself.                                          *)
LEMMA FindsRoom ==
    ASSUME WorkerTypes, Alone, Fresh, NEW w \in Workers, NEW t \in Tenants,
           Has(w, t), ~AtBatch(w, t)
    PROVE  num[t] < MAX_PKT_BUFFER
<1>1. \A v \in Workers : ~AtBatch(v, t)
  BY DEF Alone, Has, Busy, AtBatch
<1> QED
  BY <1>1 DEF Fresh

(* A worker that is alone with its tenant never finds its lock taken.        *)
LEMMA FindsUnlocked ==
    ASSUME LockInv, Alone, NEW w \in Workers, NEW t \in Tenants, Has(w, t),
           ~Inside(w, t)
    PROVE  ~tenant_lock[t]
<1>1. ASSUME tenant_lock[t] PROVE FALSE
  <2>1. PICK v \in Workers : Inside(v, t)
    BY <1>1 DEF LockInv, LockHasHolder
  <2>2. Has(v, t)
    BY <2>1 DEF Inside, Has, Busy
  <2> QED
    BY <2>1, <2>2 DEF Alone
<1> QED
  BY <1>1

(* A step of w leads from what it found to what it finds next.               *)
LEMMA OwnStage ==
    ASSUME WorkerTypes, LockInv, Alone, Fresh, NEW w \in Workers, Step(w),
           Stage(w)
    PROVE  Stage(w)'
<1> USE DEF WorkerTypes, TypeOK, Stage, AtBatch, GoTo, dispatcherVars, bufferVars
<1>1. CASE Dequeue(w)
  BY <1>1 DEF Dequeue
<1>2. CASE BurstDone(w)
  BY <1>2 DEF BurstDone
<1>3. CASE ReadNum(w)
  BY <1>3 DEF ReadNum
<1>4. CASE StoreSlot(w)
  <2> DEFINE t == tid[w]
  <2>1. t \in Tenants /\ pc[w] = "store" /\ reg[w] = num[t]
    BY <1>4 DEF StoreSlot
  <2>2. Has(w, t) /\ ~AtBatch(w, t)
    BY <2>1 DEF Has, Busy
  <2>3. num[t] < MAX_PKT_BUFFER
    BY <2>1, <2>2, FindsRoom
  <2>4. reg[w] \in Slots
    <3> DEFINE r == reg[w]
    <3>1. r \in 0 .. MBUFS_PER_TENANT /\ r < MAX_PKT_BUFFER
      BY <2>1, <2>3
    <3> HIDE DEF r
    <3>2. r \in Slots
      BY <3>1, WorkerAssumption DEF Slots
    <3> QED
      BY <3>2 DEF r
  <2>5. /\ buffer_slot' = [buffer_slot EXCEPT ![tid[w]][reg[w]] = Head(pkts[w])]
        /\ pc' = [pc EXCEPT ![w] = "count"]
        /\ UNCHANGED <<pool, rings, pkts, tid, reg, num, tenant_lock, tos>>
    BY <1>4, <2>4 DEF StoreSlot
  <2>6. /\ buffer_slot'[t][reg[w]] = Head(pkts[w])
        /\ pc'[w] = "count"
    BY <2>1, <2>4, <2>5
  <2> QED
    BY <2>1, <2>5, <2>6
<1>5. CASE WriteNum(w)
  <2> DEFINE t == tid[w]
  <2>1. t \in Tenants /\ pc[w] = "count" /\ reg[w] = num[t]
    BY <1>5 DEF WriteNum
  <2>2. Has(w, t) /\ ~AtBatch(w, t) /\ ~Inside(w, t)
    BY <2>1 DEF Has, Busy, Inside
  <2>3. ~tenant_lock[t]
    BY <2>1, <2>2, FindsUnlocked
  <2>4. /\ num' = [num EXCEPT ![t] = reg[w] + 1]
        /\ pc' = [pc EXCEPT ![w] =
                    IF reg[w] + 1 = MAX_PKT_BUFFER THEN "spin" ELSE "next"]
        /\ UNCHANGED <<pool, rings, tid, reg, buffer_slot, tenant_lock, tos>>
    BY <1>5 DEF WriteNum
  <2>5. CASE reg[w] + 1 = MAX_PKT_BUFFER
    BY <2>1, <2>3, <2>4, <2>5
  <2>6. CASE reg[w] + 1 # MAX_PKT_BUFFER
    BY <2>1, <2>4, <2>6
  <2> QED
    BY <2>5, <2>6
<1>6. CASE Test(w)
  BY <1>6 DEF Test
<1>7. CASE Acquire(w)
  BY <1>7 DEF Acquire
<1>8. CASE Enter(w)
  BY <1>8 DEF Enter
<1>9. CASE Handler(w)
  BY <1>9 DEF Handler
<1>10. CASE Unlock(w)
  BY <1>10 DEF Unlock
<1>11. CASE Reset(w)
  BY <1>11 DEF Reset
<1>12. CASE Transmit(w)
  BY <1>12 DEF Transmit
<1> QED
  BY <1>1, <1>2, <1>3, <1>4, <1>5, <1>6, <1>7, <1>8, <1>9, <1>10, <1>11, <1>12
     DEF Step

(* A buffer becomes full only at the hands of a worker that then serves it.  *)
LEMMA FreshStays ==
    ASSUME WorkerTypes, Fresh, NEW w \in Workers,
           \A v \in Workers \ {w} : pc'[v] = pc[v] /\ tid'[v] = tid[v],
           \A u \in Tenants : \/ num'[u] < MAX_PKT_BUFFER
                              \/ AtBatch(w, u)'
                              \/ num'[u] = num[u] /\ ~AtBatch(w, u)
    PROVE  Fresh'
<1>1. ASSUME NEW u \in Tenants, \A v \in Workers : ~AtBatch(v, u)'
      PROVE  num'[u] < MAX_PKT_BUFFER
  <2>1. CASE num'[u] = num[u] /\ ~AtBatch(w, u)
    <3>1. \A v \in Workers : ~AtBatch(v, u)
      BY <1>1, <2>1 DEF AtBatch
    <3> QED
      BY <2>1, <3>1 DEF Fresh
  <2> QED
    BY <1>1, <2>1
<1> QED
  BY <1>1 DEF Fresh

LEMMA StepStaysFresh ==
    ASSUME WorkerTypes, Alone, Fresh, NEW w \in Workers, Step(w), Stage(w)
    PROVE  Fresh'
<1>1. \A v \in Workers \ {w} : pc'[v] = pc[v] /\ tid'[v] = tid[v]
  BY StepIsLocal
<1>2. CASE \/ Dequeue(w) \/ BurstDone(w) \/ ReadNum(w) \/ StoreSlot(w)
           \/ Transmit(w)
  <2>1. num' = num /\ \A u \in Tenants : ~AtBatch(w, u)
    BY <1>2 DEF Dequeue, BurstDone, ReadNum, StoreSlot, Transmit, AtBatch,
                bufferVars
  <2> QED
    BY <1>1, <2>1, FreshStays
<1>3. CASE Test(w) \/ Acquire(w) \/ Enter(w) \/ Handler(w) \/ Unlock(w)
  <2>1. /\ num' = num /\ tid' = tid
        /\ pc'[w] \in {"acquire", "enter", "handler", "unlock", "reset"}
    BY <1>3 DEF Test, Acquire, Enter, Handler, Unlock, GoTo, bufferVars, Stage,
                WorkerTypes, TypeOK
  <2>2. \A u \in Tenants : AtBatch(w, u)' \/ ~AtBatch(w, u)
    BY <2>1 DEF AtBatch
  <2> QED
    BY <1>1, <2>1, <2>2, FreshStays
<1>4. CASE WriteNum(w)
  <2> DEFINE t == tid[w]
             r == reg[w]
  <2>1. /\ t \in Tenants /\ pc[w] = "count" /\ r = num[t] /\ r \in Nat
        /\ num \in [Tenants -> 0 .. MBUFS_PER_TENANT]
        /\ tid \in [Workers -> Tenants] /\ pc \in [Workers -> Labels]
    <3>1. r \in 0 .. MBUFS_PER_TENANT
      BY DEF WorkerTypes, TypeOK
    <3>2. r \in Nat
      BY <3>1, WorkerAssumption
    <3>3. pc[w] = "count" /\ r = num[t]
      BY <1>4 DEF WriteNum, Stage
    <3> QED
      BY <3>2, <3>3 DEF WorkerTypes, TypeOK
  <2>2. Has(w, t) /\ \A u \in Tenants : ~AtBatch(w, u)
    BY <2>1 DEF Has, Busy, AtBatch
  <2>3. r < MAX_PKT_BUFFER
    BY <2>1, <2>2, FindsRoom
  <2>4. /\ num' = [num EXCEPT ![t] = r + 1] /\ tid' = tid
        /\ pc' = [pc EXCEPT ![w] =
                    IF r + 1 = MAX_PKT_BUFFER THEN "spin" ELSE "next"]
    BY <1>4 DEF WriteNum, GoTo
  <2>5. num'[t] < MAX_PKT_BUFFER \/ AtBatch(w, t)'
    <3>1. CASE r + 1 = MAX_PKT_BUFFER
      BY <2>1, <2>4, <3>1 DEF AtBatch
    <3>2. CASE r + 1 # MAX_PKT_BUFFER
      <4>1. num'[t] = r + 1
        BY <2>1, <2>4
      <4> HIDE DEF r
      <4>2. r + 1 < MAX_PKT_BUFFER
        BY <2>1, <2>3, <3>2, WorkerAssumption
      <4> QED
        BY <4>1, <4>2
    <3> QED
      BY <3>1, <3>2
  <2>6. \A u \in Tenants \ {t} : num'[u] = num[u]
    BY <2>1, <2>4
  <2>7. \A u \in Tenants : \/ num'[u] < MAX_PKT_BUFFER
                           \/ AtBatch(w, u)'
                           \/ num'[u] = num[u] /\ ~AtBatch(w, u)
    <3> TAKE u \in Tenants
    <3>1. CASE u = t
      BY <2>4, <2>5, <3>1 DEF AtBatch
    <3>2. CASE u # t
      BY <2>2, <2>6, <3>2
    <3> QED
      BY <3>1, <3>2
  <2> QED
    BY <1>1, <2>7, FreshStays
<1>5. CASE Reset(w)
  <2> DEFINE t == tid[w]
  <2>1. t \in Tenants /\ num'[t] = 0 /\ \A u \in Tenants \ {t} : num'[u] = num[u]
    BY <1>5 DEF Reset, WorkerTypes, TypeOK
  <2>2. num'[t] < MAX_PKT_BUFFER
    BY <2>1, WorkerAssumption
  <2>3. \A u \in Tenants \ {t} : ~AtBatch(w, u)
    BY DEF AtBatch
  <2> QED
    BY <1>1, <2>1, <2>2, <2>3, FreshStays
<1> QED
  BY <1>2, <1>3, <1>4, <1>5 DEF Step

-----------------------------------------------------------------------------
(* Every mbuf in one place *)

Buffers == [t \in Tenants |-> Buffered(t)]

(* The packets in t's buffer are those its only server still has, or those   *)
(* that are counted.                                                         *)
ServedOrCounted ==
    \A t \in Tenants :
        /\ \A w \in Workers : Serves(w, t) => Buffered(t) = Front(t, reg[w])
        /\ (\A w \in Workers : ~Serves(w, t)) => Buffered(t) = Front(t, num[t])

LEMMA BufferedIs == Alone => ServedOrCounted
<1> SUFFICES ASSUME Alone, NEW t \in Tenants
             PROVE  /\ \A w \in Workers :
                          Serves(w, t) => Buffered(t) = Front(t, reg[w])
                    /\ (\A w \in Workers : ~Serves(w, t))
                          => Buffered(t) = Front(t, num[t])
  BY DEF ServedOrCounted
<1>1. ASSUME NEW w \in Workers, Serves(w, t)
      PROVE  Buffered(t) = Front(t, reg[w])
  <2> DEFINE v == CHOOSE v \in Workers : Serves(v, t)
  <2>1. v \in Workers /\ Serves(v, t)
    BY <1>1
  <2> HIDE DEF v
  <2>2. v = w
    BY <1>1, <2>1 DEF Serves, Alone, Has, Busy
  <2> QED
    BY <1>1, <2>2 DEF Buffered, v
<1>2. ASSUME \A w \in Workers : ~Serves(w, t)
      PROVE  Buffered(t) = Front(t, num[t])
  BY <1>2 DEF Buffered
<1> QED
  BY <1>1, <1>2

(* The tenants' buffers are a finite family of sequences.                    *)
LEMMA BuffersAreTyped == WorkerTypes => Family(Buffers, Mbufs \cup {NoMbuf})
<1> SUFFICES ASSUME WorkerTypes
             PROVE  Family(Buffers, Mbufs \cup {NoMbuf})
  OBVIOUS
<1>1. ASSUME NEW t \in Tenants
      PROVE  Buffered(t) \in Seq(Mbufs \cup {NoMbuf})
  <2> USE DEF WorkerTypes, TypeOK
  <2>1. CASE \E w \in Workers : Serves(w, t)
    <3> DEFINE v == CHOOSE v \in Workers : Serves(v, t)
    <3>1. v \in Workers
      BY <2>1
    <3> HIDE DEF v
    <3>2. Front(t, reg[v]) \in Seq(Mbufs \cup {NoMbuf})
      BY <3>1, FrontType
    <3> QED
      BY <2>1, <3>2 DEF Buffered, v
  <2>2. CASE ~\E w \in Workers : Serves(w, t)
    <3>1. Front(t, num[t]) \in Seq(Mbufs \cup {NoMbuf})
      BY FrontType
    <3> QED
      BY <2>2, <3>1 DEF Buffered
  <2> QED
    BY <2>1, <2>2
<1>2. DOMAIN Buffers = Tenants /\ \A t \in Tenants : Buffers[t] = Buffered(t)
  BY DEF Buffers
<1> QED
  BY <1>1, <1>2, WorkerAssumption DEF Family

LEMMA QueuesAreTyped ==
    ASSUME WorkerTypes
    PROVE  Family(rings, Mbufs) /\ Family(pkts, Mbufs)
BY WorkerAssumption DEF Family, WorkerTypes, TypeOK

(* The four places, each with a number of copies.                            *)
LEMMA CopiesAreCounted ==
    ASSUME WorkerTypes, NEW m \in Mbufs
    PROVE  /\ Copies(m) = pool[m] + Queued(m, rings) + Queued(m, pkts)
                            + Queued(m, Buffers)
           /\ pool[m] \in Nat /\ Queued(m, rings) \in Nat
           /\ Queued(m, pkts) \in Nat /\ Queued(m, Buffers) \in Nat
<1>1. pool[m] \in Nat
  BY DEF WorkerTypes, TypeOK
<1>2. Queued(m, rings) \in Nat /\ Queued(m, pkts) \in Nat
  BY QueuesAreTyped, QueuedIsNatural
<1>3. Queued(m, Buffers) \in Nat
  BY BuffersAreTyped, QueuedIsNatural
<1> QED
  BY <1>1, <1>2, <1>3 DEF Copies, Buffers

(* Replacing one of the sequences changes the copies of its place by what    *)
(* the new one has more.                                                     *)
LEMMA RingChanges ==
    ASSUME WorkerTypes, NEW m \in Mbufs, NEW w \in Workers,
           NEW new \in Seq(Mbufs), rings' = Updated(rings, w, new)
    PROVE  /\ Queued(m, rings') \in Nat
           /\ Queued(m, rings') + Occurrences(m, rings[w])
                = Queued(m, rings) + Occurrences(m, new)
<1>1. Family(rings, Mbufs) /\ w \in DOMAIN rings
  BY QueuesAreTyped DEF WorkerTypes, TypeOK
<1>2. /\ Queued(m, Updated(rings, w, new)) \in Nat
      /\ Queued(m, Updated(rings, w, new)) + Occurrences(m, rings[w])
           = Queued(m, rings) + Occurrences(m, new)
  BY <1>1, QueuedUpdate
<1> QED
  BY <1>2

LEMMA PktsChange ==
    ASSUME WorkerTypes, NEW m \in Mbufs, NEW w \in Workers,
           NEW new \in Seq(Mbufs), pkts' = Updated(pkts, w, new)
    PROVE  /\ Queued(m, pkts') \in Nat
           /\ Queued(m, pkts') + Occurrences(m, pkts[w])
                = Queued(m, pkts) + Occurrences(m, new)
<1>1. Family(pkts, Mbufs) /\ w \in DOMAIN pkts
  BY QueuesAreTyped DEF WorkerTypes, TypeOK
<1>2. /\ Queued(m, Updated(pkts, w, new)) \in Nat
      /\ Queued(m, Updated(pkts, w, new)) + Occurrences(m, pkts[w])
           = Queued(m, pkts) + Occurrences(m, new)
  BY <1>1, QueuedUpdate
<1> QED
  BY <1>2

LEMMA BufferChanges ==
    ASSUME WorkerTypes, NEW m \in Mbufs, NEW t \in Tenants,
           NEW new \in Seq(Mbufs \cup {NoMbuf}),
           Buffers' = Updated(Buffers, t, new)
    PROVE  /\ Queued(m, Buffers') \in Nat
           /\ Queued(m, Buffers') + Occurrences(m, Buffered(t))
                = Queued(m, Buffers) + Occurrences(m, new)
<1>1. Family(Buffers, Mbufs \cup {NoMbuf}) /\ t \in DOMAIN Buffers
  BY BuffersAreTyped DEF Buffers
<1>2. /\ Queued(m, Updated(Buffers, t, new)) \in Nat
      /\ Queued(m, Updated(Buffers, t, new)) + Occurrences(m, Buffers[t])
           = Queued(m, Buffers) + Occurrences(m, new)
  BY <1>1, QueuedUpdate
<1>3. Buffers[t] = Buffered(t)
  BY DEF Buffers
<1> QED
  BY <1>2, <1>3

LEMMA CopiesAfter ==
    ASSUME NEW m
    PROVE  Copies(m)' = pool'[m] + Queued(m, rings') + Queued(m, pkts')
                          + Queued(m, Buffers')
BY DEF Copies, Buffers, Queued, Positions, Places

(* A buffer whose slots, count and server stay has the same packets.         *)
LEMMA BufferedStays ==
    ASSUME Alone, Alone', NEW w \in Workers, NEW u \in Tenants,
           \A v \in Workers \ {w} :
              pc'[v] = pc[v] /\ tid'[v] = tid[v] /\ reg'[v] = reg[v],
           Serves(w, u)' <=> Serves(w, u), Serves(w, u) => reg'[w] = reg[w],
           Serves(w, u) \/ num'[u] = num[u], buffer_slot'[u] = buffer_slot[u]
    PROVE  Buffered(u)' = Buffered(u)
<1>1. \A v \in Workers : Serves(v, u)' <=> Serves(v, u)
  BY DEF Serves
<1>2. ServedOrCounted /\ ServedOrCounted'
  BY BufferedIs, PTL
<1>3. CASE \E v \in Workers : Serves(v, u)
  <2>1. PICK v \in Workers : Serves(v, u)
    BY <1>3
  <2>2. Buffered(u) = Front(u, reg[v])
    BY <1>2, <2>1 DEF ServedOrCounted
  <2>3. Serves(v, u)' /\ reg'[v] = reg[v]
    BY <1>1, <2>1
  <2>4. Buffered(u)' = Front(u, reg[v])'
    BY <1>2, <2>3 DEF ServedOrCounted
  <2>5. Front(u, reg[v])' = Front(u, reg[v])
    BY <2>3 DEF Front
  <2> QED
    BY <2>2, <2>4, <2>5
<1>4. CASE ~\E v \in Workers : Serves(v, u)
  <2>1. Buffered(u) = Front(u, num[u])
    BY <1>2, <1>4 DEF ServedOrCounted
  <2>2. Buffered(u)' = Front(u, num[u])'
    BY <1>1, <1>2, <1>4 DEF ServedOrCounted
  <2>3. Front(u, num[u])' = Front(u, num[u])
    BY <1>4 DEF Front
  <2> QED
    BY <2>1, <2>2, <2>3
<1> QED
  BY <1>3, <1>4

(* When w changes the buffer of its tenant, the other buffers stay.          *)
LEMMA OneBufferChanges ==
    ASSUME WorkerTypes, Alone, Alone', NEW w \in Workers, Step(w), tid' = tid,
           NEW t \in Tenants, t = tid[w],
           \A u \in Tenants \ {t} :
              num'[u] = num[u] /\ buffer_slot'[u] = buffer_slot[u],
           NEW new, Buffered(t)' = new
    PROVE  Buffers' = Updated(Buffers, t, new)
<1>1. ASSUME NEW u \in Tenants \ {t}
      PROVE  Buffered(u)' = Buffered(u)
  <2>1. \A v \in Workers \ {w} :
           pc'[v] = pc[v] /\ tid'[v] = tid[v] /\ reg'[v] = reg[v]
    BY StepIsLocal
  <2>2. ~Serves(w, u) /\ ~Serves(w, u)'
    BY DEF Serves
  <2> QED
    BY <2>1, <2>2, BufferedStays
<1>2. Buffers' = [u \in Tenants |-> Buffered(u)']
  BY DEF Buffers
<1>3. Updated(Buffers, t, new)
        = [u \in Tenants |-> IF u = t THEN new ELSE Buffered(u)]
  BY DEF Buffers, Updated
<1> QED
  BY <1>1, <1>2, <1>3

(* Storing a packet past the counted ones changes none of them.              *)
LEMMA StoreKeepsBuffers ==
    ASSUME WorkerTypes, Alone, Alone', NEW w \in Workers, StoreSlot(w), Stage(w)
    PROVE  Buffers' = Buffers
<1>0. PICK t \in Tenants : t = tid[w]
  BY DEF WorkerTypes, TypeOK
<1>1. /\ pc[w] = "store" /\ reg[w] = num[t]
      /\ num \in [Tenants -> 0 .. MBUFS_PER_TENANT]
      /\ tid \in [Workers -> Tenants] /\ pc \in [Workers -> Labels]
      /\ buffer_slot \in [Tenants -> [Slots -> Mbufs \cup {NoMbuf}]]
  BY <1>0 DEF StoreSlot, Stage, WorkerTypes, TypeOK
<1>2. /\ UNCHANGED <<tid, reg, num>>
      /\ pc'[w] \in {"count", "overrun"}
      /\ \A v \in Workers \ {w} : pc'[v] = pc[v]
      /\ \A u \in Tenants, i \in Slots :
            u # t \/ i # reg[w] => buffer_slot'[u][i] = buffer_slot[u][i]
      /\ \A u \in Tenants : u # t => buffer_slot'[u] = buffer_slot[u]
  BY <1>0, <1>1 DEF StoreSlot, GoTo, dispatcherVars
<1>3. ServedOrCounted /\ ServedOrCounted'
  BY BufferedIs, PTL
<1>4. ASSUME NEW u \in Tenants, u # t
      PROVE  Buffered(u)' = Buffered(u)
  <2>1. ~Serves(w, u) /\ ~Serves(w, u)'
    BY <1>0, <1>2, <1>4 DEF Serves
  <2> QED
    BY <1>2, <1>4, <2>1, BufferedStays
<1>5. Buffered(t)' = Buffered(t)
  <2>1. \A v \in Workers : ~Serves(v, t)
    BY <1>0, <1>1 DEF Serves, Alone, Has, Busy
  <2>2. \A v \in Workers : ~Serves(v, t)'
    BY <1>2, <2>1 DEF Serves
  <2>3. Buffered(t) = Front(t, num[t]) /\ Buffered(t)' = Front(t, num[t])'
    BY <1>1, <1>2, <1>3, <2>1, <2>2 DEF ServedOrCounted
  <2>4. ASSUME NEW i \in 1 .. num[t]
        PROVE  buffer_slot'[t][i - 1] = buffer_slot[t][i - 1]
    <3> DEFINE n == num[t]
    <3>1. n \in 0 .. MBUFS_PER_TENANT
      BY <1>1
    <3> HIDE DEF n
    <3>2. i - 1 \in Slots /\ i - 1 # n
      BY <2>4, <3>1, WorkerAssumption DEF Slots, n
    <3> QED
      BY <1>1, <1>2, <3>2 DEF n
  <2>5. Front(t, num[t])' = Front(t, num[t])
    BY <1>2, <2>4 DEF Front
  <2> QED
    BY <2>3, <2>5
<1> QED
  BY <1>4, <1>5 DEF Buffers

(* Only counting a packet, filtering and transmitting change what is in the  *)
(* buffers: releasing the lock and resetting the count do not.               *)
LEMMA BuffersStay ==
    ASSUME WorkerTypes, Alone, Alone', NEW w \in Workers, Stage(w),
           \/ Dequeue(w) \/ BurstDone(w) \/ ReadNum(w) \/ StoreSlot(w)
           \/ Test(w) \/ Acquire(w) \/ Enter(w) \/ Unlock(w) \/ Reset(w)
    PROVE  Buffers' = Buffers
<1>1. ASSUME NEW u \in Tenants,
             Serves(w, u)' <=> Serves(w, u), Serves(w, u) => reg'[w] = reg[w],
             Serves(w, u) \/ num'[u] = num[u], buffer_slot'[u] = buffer_slot[u]
      PROVE  Buffered(u)' = Buffered(u)
  <2>1. Step(w)
    BY DEF Step
  <2>2. \A v \in Workers \ {w} :
           pc'[v] = pc[v] /\ tid'[v] = tid[v] /\ reg'[v] = reg[v]
    BY <2>1, StepIsLocal
  <2> QED
    BY <1>1, <2>2, BufferedStays
<1>2. CASE \/ Dequeue(w) \/ BurstDone(w) \/ ReadNum(w) \/ Test(w) \/ Acquire(w)
           \/ Enter(w)
  <2>1. /\ UNCHANGED <<buffer_slot, num>>
        /\ pc[w] \in {"poll", "next", "spin", "acquire", "enter"}
        /\ pc'[w] \in {"poll", "next", "store", "hung", "acquire", "enter",
                       "handler"}
    BY <1>2 DEF Dequeue, BurstDone, ReadNum, Test, Acquire, Enter, GoTo,
                bufferVars, WorkerTypes, TypeOK
  <2>2. \A u \in Tenants : ~Serves(w, u) /\ ~Serves(w, u)'
    BY <2>1 DEF Serves
  <2> QED
    BY <1>1, <2>1, <2>2 DEF Buffers
<1>3. CASE StoreSlot(w)
  BY <1>3, StoreKeepsBuffers
<1>4. CASE Unlock(w) \/ Reset(w)
  <2>1. /\ UNCHANGED <<buffer_slot, tid, reg>>
        /\ pc[w] \in {"unlock", "reset"} /\ pc'[w] \in {"reset", "tx"}
        /\ \A u \in Tenants : tid[w] = u \/ num'[u] = num[u]
    BY <1>4 DEF Unlock, Reset, GoTo, WorkerTypes, TypeOK
  <2>2. \A u \in Tenants : /\ Serves(w, u)' <=> Serves(w, u)
                           /\ Serves(w, u) \/ num'[u] = num[u]
    BY <2>1 DEF Serves
  <2> QED
    BY <1>1, <2>1, <2>2 DEF Buffers
<1> QED
  BY <1>2, <1>3, <1>4

(* Dequeueing moves the copies of a burst from the ring to the worker's hand. *)
LEMMA DequeueKeepsCopies ==
    ASSUME WorkerTypes, Alone, Alone', NEW w \in Workers, Dequeue(w), Stage(w),
           NEW m \in Mbufs
    PROVE  Copies(m)' = Copies(m)
<1> DEFINE n == IF Len(rings[w]) < MAX_PKT_BUFFER THEN Len(rings[w])
                                                  ELSE MAX_PKT_BUFFER
           burst == SubSeq(rings[w], 1, n)
           left == SubSeq(rings[w], n + 1, Len(rings[w]))
<1>1. rings[w] \in Seq(Mbufs) /\ pkts[w] = <<>> /\ w \in DOMAIN rings
      /\ w \in DOMAIN pkts
  BY DEF Dequeue, WorkerTypes, TypeOK
<1>2. n \in 0 .. Len(rings[w])
  BY <1>1, WorkerAssumption
<1>3. /\ pkts' = Updated(pkts, w, burst) /\ rings' = Updated(rings, w, left)
      /\ pool' = pool
  BY DEF Dequeue, Updated
<1> HIDE DEF n
<1>4. /\ burst \in Seq(Mbufs) /\ left \in Seq(Mbufs)
      /\ Occurrences(m, rings[w]) = Occurrences(m, burst) + Occurrences(m, left)
  BY <1>1, <1>2, OccurrencesOfCut
<1> HIDE DEF burst, left
<1>5. /\ Queued(m, rings') \in Nat
      /\ Queued(m, rings') + Occurrences(m, rings[w])
           = Queued(m, rings) + Occurrences(m, left)
  BY <1>3, <1>4, RingChanges
<1>6. /\ Queued(m, pkts') \in Nat
      /\ Queued(m, pkts') + Occurrences(m, pkts[w])
           = Queued(m, pkts) + Occurrences(m, burst)
  BY <1>3, <1>4, PktsChange
<1>7. Occurrences(m, pkts[w]) = 0
  BY <1>1, OccurrencesOfEmpty
<1>8. Occurrences(m, burst) \in Nat /\ Occurrences(m, left) \in Nat
  BY <1>4, PlacesAreFinite
<1>9. Buffers' = Buffers
  BY BuffersStay
<1> DEFINE b == Occurrences(m, burst)
           l == Occurrences(m, left)
           r0 == Queued(m, rings)
           r1 == Queued(m, rings')
           p0 == Queued(m, pkts)
           p1 == Queued(m, pkts')
           f == Queued(m, Buffers)
           c == pool[m]
<1>10. /\ r1 + (b + l) = r0 + l /\ p1 + 0 = p0 + b
       /\ b \in Nat /\ l \in Nat /\ r0 \in Nat /\ r1 \in Nat
       /\ p0 \in Nat /\ p1 \in Nat /\ f \in Nat /\ c \in Nat
  BY <1>4, <1>5, <1>6, <1>7, <1>8, CopiesAreCounted
<1>11. Copies(m) = c + r0 + p0 + f
  BY CopiesAreCounted
<1>12. Copies(m)' = c + r1 + p1 + f
  BY <1>3, <1>9, CopiesAfter
<1> HIDE DEF b, l, r0, r1, p0, p1, f, c
<1> QED
  BY <1>10, <1>11, <1>12

(* A slot more is a packet more at the end.                                  *)
LEMMA FrontGrows ==
    ASSUME NEW t \in Tenants, NEW n \in Slots,
           buffer_slot \in [Tenants -> [Slots -> Mbufs \cup {NoMbuf}]]
    PROVE  Front(t, n + 1) = Append(Front(t, n), buffer_slot[t][n])
<1> DEFINE held == Mbufs \cup {NoMbuf}
           x == buffer_slot[t][n]
<1>1. x \in held
  OBVIOUS
<1>2. n \in Nat /\ n \in 0 .. MBUFS_PER_TENANT /\ n + 1 \in 0 .. MBUFS_PER_TENANT
  BY WorkerAssumption DEF Slots
<1>3. /\ Front(t, n) \in Seq(held) /\ Len(Front(t, n)) = n
      /\ Front(t, n + 1) \in Seq(held) /\ Len(Front(t, n + 1)) = n + 1
      /\ \A i \in 1 .. n : Front(t, n)[i] = buffer_slot[t][i - 1]
      /\ \A i \in 1 .. n + 1 : Front(t, n + 1)[i] = buffer_slot[t][i - 1]
  BY <1>2, FrontType
<1>4. Front(t, n + 1)[n + 1] = x
  <2>1. n + 1 \in 1 .. n + 1 /\ (n + 1) - 1 = n
    BY <1>2
  <2> QED
    BY <1>3, <2>1
<1> HIDE DEF x, held
<1>5. /\ Append(Front(t, n), x) \in Seq(held)
      /\ Len(Append(Front(t, n), x)) = n + 1
      /\ \A i \in 1 .. n : Append(Front(t, n), x)[i] = Front(t, n)[i]
      /\ Append(Front(t, n), x)[n + 1] = x
  BY <1>1, <1>2, <1>3
<1>6. \A i \in 1 .. n + 1 : Front(t, n + 1)[i] = Append(Front(t, n), x)[i]
  <2> TAKE i \in 1 .. n + 1
  <2>1. CASE i = n + 1
    BY <1>4, <1>5, <2>1
  <2>2. CASE i # n + 1
    <3>1. i \in 1 .. n
      BY <1>2, <2>2
    <3> QED
      BY <1>3, <1>5, <3>1
  <2> QED
    BY <2>1, <2>2
<1>7. Front(t, n + 1) = Append(Front(t, n), x)
  BY <1>3, <1>5, <1>6, SeqEqual
<1> QED
  BY <1>7 DEF x

(* Counting a packet moves it from the worker's hand to the buffer.          *)
LEMMA WriteNumKeepsCopies ==
    ASSUME WorkerTypes, Alone, Alone', NEW w \in Workers, WriteNum(w), Stage(w),
           NEW m \in Mbufs
    PROVE  Copies(m)' = Copies(m)
<1>1. PICK t \in Tenants : t = tid[w]
  BY DEF WorkerTypes, TypeOK
<1>2. PICK n \in 0 .. MBUFS_PER_TENANT : n = reg[w]
  BY DEF WorkerTypes, TypeOK
<1> DEFINE hand == pkts[w]
           x == Head(hand)
           held == Mbufs \cup {NoMbuf}
<1>3. /\ pc[w] = "count" /\ hand \in Seq(Mbufs) /\ hand # <<>> /\ n \in Slots
      /\ num[t] = n /\ buffer_slot[t][n] = x /\ w \in DOMAIN pkts
      /\ num \in [Tenants -> 0 .. MBUFS_PER_TENANT]
      /\ buffer_slot \in [Tenants -> [Slots -> held]]
      /\ pc \in [Workers -> Labels]
  BY <1>1, <1>2 DEF WriteNum, Stage, WorkerTypes, TypeOK
<1>4. /\ num' = [num EXCEPT ![t] = n + 1]
      /\ pkts' = Updated(pkts, w, Tail(hand))
      /\ pc'[w] \in {"spin", "next"}
      /\ UNCHANGED <<pool, rings, tid, reg, buffer_slot, tos>>
  BY <1>1, <1>2, <1>3 DEF WriteNum, GoTo, dispatcherVars, Updated
<1>5. Step(w) /\ \A v \in Workers \ {w} : pc'[v] = pc[v]
  BY StepIsLocal DEF Step
<1>6. /\ x \in Mbufs /\ Tail(hand) \in Seq(Mbufs)
      /\ Occurrences(m, hand)
           = Occurrences(m, Tail(hand)) + (IF x = m THEN 1 ELSE 0)
  BY <1>3, OccurrencesOfTail
<1>7. Buffered(t) = Front(t, n) /\ Buffered(t)' = Append(Front(t, n), x)
  <2>1. \A v \in Workers : ~Serves(v, t)
    BY <1>1, <1>3 DEF Serves, Alone, Has, Busy
  <2>2. \A v \in Workers : ~Serves(v, t)'
    BY <1>4, <1>5, <2>1 DEF Serves
  <2>3. ServedOrCounted /\ ServedOrCounted'
    BY BufferedIs, PTL
  <2>4. Buffered(t) = Front(t, num[t]) /\ Buffered(t)' = Front(t, num[t])'
    BY <2>1, <2>2, <2>3 DEF ServedOrCounted
  <2>5. num'[t] = n + 1
    BY <1>3, <1>4
  <2>6. Front(t, num[t])' = Front(t, n + 1)
    BY <1>4, <2>5 DEF Front
  <2>9. Front(t, n + 1) = Append(Front(t, n), x)
    BY <1>3, FrontGrows
  <2> QED
    BY <1>3, <2>4, <2>6, <2>9
<1> HIDE DEF x, hand, held
<1>8. Buffers' = Updated(Buffers, t, Append(Front(t, n), x))
  <2>1. \A u \in Tenants \ {t} :
           num'[u] = num[u] /\ buffer_slot'[u] = buffer_slot[u]
    BY <1>3, <1>4
  <2> QED
    BY <1>1, <1>4, <1>5, <1>7, <2>1, OneBufferChanges
<1>9. /\ Front(t, n) \in Seq(held) /\ Append(Front(t, n), x) \in Seq(held)
      /\ Occurrences(m, Append(Front(t, n), x))
           = Occurrences(m, Front(t, n)) + (IF x = m THEN 1 ELSE 0)
      /\ Occurrences(m, Front(t, n)) \in Nat
  <2>1. Front(t, n) \in Seq(held) /\ x \in held
    BY <1>3, <1>6, FrontType DEF held
  <2>2. Append(Front(t, n), x) \in Seq(held)
    BY <2>1
  <2>3. Occurrences(m, Append(Front(t, n), x))
          = Occurrences(m, Front(t, n)) + (IF x = m THEN 1 ELSE 0)
    BY <2>1, OccurrencesOfAppend
  <2>4. Occurrences(m, Front(t, n)) \in Nat
    BY <2>1, PlacesAreFinite
  <2> QED
    BY <2>1, <2>2, <2>3, <2>4
<1>11. /\ Queued(m, Buffers') \in Nat
       /\ Queued(m, Buffers') + Occurrences(m, Front(t, n))
            = Queued(m, Buffers) + Occurrences(m, Append(Front(t, n), x))
  <2>1. /\ Queued(m, Buffers') \in Nat
        /\ Queued(m, Buffers') + Occurrences(m, Buffered(t))
             = Queued(m, Buffers) + Occurrences(m, Append(Front(t, n), x))
    BY <1>8, <1>9, BufferChanges DEF held
  <2> QED
    BY <1>7, <2>1
<1>12. /\ Queued(m, pkts') \in Nat
       /\ Queued(m, pkts') + Occurrences(m, hand)
            = Queued(m, pkts) + Occurrences(m, Tail(hand))
  BY <1>4, <1>6, PktsChange DEF hand
<1>13. Occurrences(m, Tail(hand)) \in Nat
  BY <1>6, PlacesAreFinite
<1> DEFINE o == IF x = m THEN 1 ELSE 0
           h == Occurrences(m, Tail(hand))
           f == Occurrences(m, Front(t, n))
           r0 == Queued(m, rings)
           p0 == Queued(m, pkts)
           p1 == Queued(m, pkts')
           b0 == Queued(m, Buffers)
           b1 == Queued(m, Buffers')
           c == pool[m]
<1>14. /\ p1 + (h + o) = p0 + h /\ b1 + f = b0 + (f + o)
       /\ o \in Nat /\ h \in Nat /\ f \in Nat /\ r0 \in Nat /\ p0 \in Nat
       /\ p1 \in Nat /\ b0 \in Nat /\ b1 \in Nat /\ c \in Nat
  BY <1>6, <1>9, <1>11, <1>12, <1>13, CopiesAreCounted
<1>15. Copies(m) = c + r0 + p0 + b0
  BY CopiesAreCounted
<1>16. Copies(m)' = c + r0 + p1 + b1
  BY <1>4, CopiesAfter
<1> HIDE DEF o, h, f, r0, p0, p1, b0, b1, c
<1> QED
  BY <1>14, <1>15, <1>16

(* What the network function keeps stays in the buffer, what it drops goes   *)
(* to the pool.                                                              *)
LEMMA HandlerKeepsCopies ==
    ASSUME WorkerTypes, Alone, Alone', NEW w \in Workers, Handler(w), Stage(w),
           NEW m \in Mbufs
    PROVE  Copies(m)' = Copies(m)
<1>1. PICK t \in Tenants : t = tid[w]
  BY DEF WorkerTypes, TypeOK
<1>2. PICK k \in 0 .. MBUFS_PER_TENANT : k = reg[w]
  BY DEF WorkerTypes, TypeOK
<1> DEFINE held == Mbufs \cup {NoMbuf}
           batch == Front(t, k)
           Effect(n, kept) ==
             /\ buffer_slot' =
                   [buffer_slot EXCEPT ![t] = Compacted(t, batch, n, kept)]
             /\ pool' = Freed(batch, kept)
             /\ reg' = [reg EXCEPT ![w] = n]
<1>3. PICK n \in 0 .. k : \E kept \in Kept(n, k) : Effect(n, kept)
  BY <1>1, <1>2 DEF Handler
<1>4. PICK kept \in Kept(n, k) : Effect(n, kept)
  BY <1>3
<1>5. /\ pc[w] = "handler" /\ num[t] = k
      /\ UNCHANGED <<num, tid, rings, pkts>>
      /\ pc'[w] = "unlock"
      /\ Step(w) /\ \A v \in Workers \ {w} : pc'[v] = pc[v]
      /\ pool \in [Mbufs -> Nat] /\ reg \in [Workers -> 0 .. MBUFS_PER_TENANT]
      /\ buffer_slot \in [Tenants -> [Slots -> held]]
  BY <1>1, <1>2 DEF Handler, Stage, AtBatch, GoTo, Step, WorkerTypes, TypeOK
<1>6. /\ batch \in Seq(held) /\ Len(batch) = k /\ n \in 0 .. MBUFS_PER_TENANT
      /\ k \in Nat /\ n \in Nat
  BY <1>2, <1>3, <1>5, FrontType, WorkerAssumption
<1>7. Buffered(t) = batch /\ Buffered(t)' = Front(t, n)'
  <2>1. \A v \in Workers : ~Serves(v, t)
    BY <1>1, <1>5 DEF Serves, Alone, Has, Busy
  <2>2. Serves(w, t)' /\ reg'[w] = n
    BY <1>1, <1>4, <1>5 DEF Serves
  <2>3. ServedOrCounted /\ ServedOrCounted'
    BY BufferedIs, PTL
  <2>4. Buffered(t) = Front(t, num[t]) /\ Buffered(t)' = Front(t, reg[w])'
    BY <2>1, <2>2, <2>3 DEF ServedOrCounted
  <2>5. Front(t, reg[w])' = Front(t, n)'
    BY <2>2 DEF Front
  <2> QED
    BY <1>5, <2>4, <2>5
<1> DEFINE passed == [i \in 1 .. n |-> batch[kept[i]]]
<1>8. /\ kept \in [1 .. n -> 1 .. k]
      /\ \A i, j \in 1 .. n : i < j => kept[i] < kept[j]
  BY <1>4 DEF Kept
<1>9. passed \in Seq(held) /\ Len(passed) = n
  <2>1. \A i \in 1 .. n : batch[kept[i]] \in held
    <3> HIDE DEF batch
    <3> QED
      BY <1>6, <1>8
  <2> QED
    BY <1>6, <2>1
<1>10. Front(t, n)' = passed
  <2>1. Front(t, n)' = [i \in 1 .. n |-> buffer_slot'[t][i - 1]]
    BY DEF Front
  <2>2. buffer_slot'[t] = Compacted(t, batch, n, kept)
    BY <1>4, <1>5
  <2>3. ASSUME NEW i \in 1 .. n
        PROVE  Compacted(t, batch, n, kept)[i - 1] = batch[kept[i]]
    <3>1. i - 1 \in Slots /\ i - 1 < n /\ (i - 1) + 1 = i
      BY <1>6, WorkerAssumption DEF Slots
    <3> QED
      BY <3>1 DEF Compacted
  <2> QED
    BY <2>1, <2>2, <2>3
<1> HIDE DEF held, batch, passed
<1>11. Buffers' = Updated(Buffers, t, passed)
  <2>1. \A u \in Tenants \ {t} :
           num'[u] = num[u] /\ buffer_slot'[u] = buffer_slot[u]
    BY <1>4, <1>5
  <2> QED
    BY <1>1, <1>5, <1>7, <1>10, <2>1, OneBufferChanges
<1>12. /\ Dropped(m, batch, kept) \in Nat
       /\ Occurrences(m, batch)
            = Occurrences(m, passed) + Dropped(m, batch, kept)
  <2>1. \A i, j \in 1 .. n : kept[i] = kept[j] => i = j
    <3> SUFFICES ASSUME NEW i \in 1 .. n, NEW j \in 1 .. n, kept[i] = kept[j],
                        i # j
                 PROVE  FALSE
      OBVIOUS
    <3>1. kept[i] \in 1 .. k /\ kept[j] \in 1 .. k
      BY <1>8
    <3>2. i < j \/ j < i
      BY <1>6
    <3> QED
      BY <1>6, <1>8, <3>1, <3>2
  <2>2. \A i \in 1 .. n : passed[i] = batch[kept[i]]
    BY DEF passed
  <2>3. n \in 0 .. Len(batch) /\ kept \in [1 .. n -> 1 .. Len(batch)]
    BY <1>6, <1>8
  <2>4. Passes(passed, batch, n, kept)
    BY <1>6, <1>9, <2>1, <2>2, <2>3 DEF Passes
  <2> QED
    BY <1>6, <1>9, <2>4, OccurrencesOfKept
<1>13. /\ Queued(m, Buffers') \in Nat
       /\ Queued(m, Buffers') + Occurrences(m, batch)
            = Queued(m, Buffers) + Occurrences(m, passed)
  <2>1. /\ Queued(m, Buffers') \in Nat
        /\ Queued(m, Buffers') + Occurrences(m, Buffered(t))
             = Queued(m, Buffers) + Occurrences(m, passed)
    BY <1>9, <1>11, BufferChanges DEF held
  <2> QED
    BY <1>7, <2>1
<1>14. Occurrences(m, passed) \in Nat
  BY <1>9, PlacesAreFinite
<1>15. pool'[m] = pool[m] + Dropped(m, batch, kept)
  BY <1>4 DEF Freed
<1> DEFINE d == Dropped(m, batch, kept)
           o == Occurrences(m, passed)
           r == Queued(m, rings)
           p == Queued(m, pkts)
           b0 == Queued(m, Buffers)
           b1 == Queued(m, Buffers')
           c == pool[m]
<1>16. /\ b1 + (o + d) = b0 + o
       /\ o \in Nat /\ d \in Nat /\ r \in Nat /\ p \in Nat
       /\ b0 \in Nat /\ b1 \in Nat /\ c \in Nat
  BY <1>12, <1>13, <1>14, CopiesAreCounted
<1>17. Copies(m) = c + r + p + b0
  BY CopiesAreCounted
<1>18. Copies(m)' = (c + d) + r + p + b1
  BY <1>5, <1>15, CopiesAfter
<1> HIDE DEF d, o, r, p, b0, b1, c
<1> QED
  BY <1>16, <1>17, <1>18

(* What is transmitted, or freed because the port took fewer, leaves the     *)
(* buffer for the pool.                                                      *)
LEMMA TransmitKeepsCopies ==
    ASSUME WorkerTypes, Alone, Alone', NEW w \in Workers, Transmit(w), Stage(w),
           NEW m \in Mbufs
    PROVE  Copies(m)' = Copies(m)
<1>1. PICK t \in Tenants : t = tid[w]
  BY DEF WorkerTypes, TypeOK
<1> DEFINE batch == Front(t, reg[w])
           held == Mbufs \cup {NoMbuf}
<1>2. /\ pc[w] = "tx" /\ num[t] = 0 /\ pool' = Put(pool, batch)
      /\ UNCHANGED <<rings, pkts, tid, reg, num, buffer_slot>>
      /\ pc'[w] = "next"
      /\ Step(w) /\ \A v \in Workers \ {w} : pc'[v] = pc[v]
      /\ pool \in [Mbufs -> Nat] /\ reg[w] \in 0 .. MBUFS_PER_TENANT
      /\ buffer_slot \in [Tenants -> [Slots -> held]]
  BY <1>1 DEF Transmit, Stage, GoTo, Step, WorkerTypes, TypeOK, bufferVars
<1>3. batch \in Seq(held)
  BY <1>2, FrontType
<1>4. Buffered(t) = batch /\ Buffered(t)' = <<>>
  <2>1. Serves(w, t)
    BY <1>1, <1>2 DEF Serves
  <2>2. \A v \in Workers : ~Serves(v, t)'
    BY <1>1, <1>2 DEF Serves, Alone, Has, Busy
  <2>3. ServedOrCounted /\ ServedOrCounted'
    BY BufferedIs, PTL
  <2>4. Buffered(t) = batch /\ Buffered(t)' = Front(t, num[t])'
    BY <2>1, <2>2, <2>3 DEF ServedOrCounted
  <2>5. Front(t, num[t])' = <<>>
    BY <1>2 DEF Front
  <2> QED
    BY <2>4, <2>5
<1> HIDE DEF batch
<1>5. Buffers' = Updated(Buffers, t, <<>>)
  BY <1>1, <1>2, <1>4, OneBufferChanges
<1>6. <<>> \in Seq(held) /\ Occurrences(m, <<>>) = 0
  BY OccurrencesOfEmpty
<1>7. /\ Queued(m, Buffers') \in Nat
      /\ Queued(m, Buffers') + Occurrences(m, batch) = Queued(m, Buffers) + 0
  <2>1. /\ Queued(m, Buffers') \in Nat
        /\ Queued(m, Buffers') + Occurrences(m, Buffered(t))
             = Queued(m, Buffers) + Occurrences(m, <<>>)
    BY <1>5, <1>6, BufferChanges
  <2> QED
    BY <1>4, <1>6, <2>1
<1>8. pool'[m] = pool[m] + Occurrences(m, batch)
  BY <1>2, <1>3, PutIsBag
<1>9. Occurrences(m, batch) \in Nat
  BY <1>3, PlacesAreFinite
<1> DEFINE o == Occurrences(m, batch)
           r == Queued(m, rings)
           p == Queued(m, pkts)
           b0 == Queued(m, Buffers)
           b1 == Queued(m, Buffers')
           c == pool[m]
<1>10. /\ b1 + o = b0 + 0
       /\ o \in Nat /\ r \in Nat /\ p \in Nat
       /\ b0 \in Nat /\ b1 \in Nat /\ c \in Nat
  BY <1>7, <1>9, CopiesAreCounted
<1>11. Copies(m) = c + r + p + b0
  BY CopiesAreCounted
<1>12. Copies(m)' = (c + o) + r + p + b1
  BY <1>2, <1>8, CopiesAfter
<1> HIDE DEF o, r, p, b0, b1, c
<1> QED
  BY <1>10, <1>11, <1>12

(* No step of a worker loses or duplicates an mbuf.                          *)
LEMMA StepKeepsCopies ==
    ASSUME WorkerTypes, Alone, Alone', NEW w \in Workers, Step(w), Stage(w),
           NEW m \in Mbufs
    PROVE  Copies(m)' = Copies(m)
<1>1. CASE \/ BurstDone(w) \/ ReadNum(w) \/ StoreSlot(w) \/ Test(w)
           \/ Acquire(w) \/ Enter(w) \/ Unlock(w) \/ Reset(w)
  <2>1. Buffers' = Buffers
    BY <1>1, BuffersStay
  <2>2. UNCHANGED <<pool, rings, pkts>>
    BY <1>1 DEF BurstDone, ReadNum, StoreSlot, Test, Acquire, Enter, Unlock,
                Reset
  <2> QED
    BY <2>1, <2>2, CopiesAfter, CopiesAreCounted
<1>2. CASE Dequeue(w)
  BY <1>2, DequeueKeepsCopies
<1>3. CASE WriteNum(w)
  BY <1>3, WriteNumKeepsCopies
<1>4. CASE Handler(w)
  BY <1>4, HandlerKeepsCopies
<1>5. CASE Transmit(w)
  BY <1>5, TransmitKeepsCopies
<1> QED
  BY <1>1, <1>2, <1>3, <1>4, <1>5 DEF Step

\* Who has packets of what is written down.
LEMMA NotedAlone ==
    ASSUME NoteShared, shared' = {}
    PROVE  Alone'
<1>1. \A t \in Tenants : ~AtTwo(t)'
  BY DEF NoteShared
<1> QED
  BY <1>1 DEF Alone, AtTwo

(* A packet on a ring is a copy more there; as long as its tenant, and those *)
(* of the packets still queued in the mbuf, are at one worker, nothing else  *)
(* changes for the workers.                                                  *)
LEMMA EnqueueKeepsSolo ==
    ASSUME WorkerTypes, Solo, NEW x \in Mbufs, NEW t \in Tenants, Enqueue(x, t),
           pool' \in [Mbufs -> Nat], quotaFrees' \in [Mbufs -> Nat],
           \A m \in Mbufs :
              pool'[m] + (IF x = m THEN 1 ELSE 0) + quotaFrees[m]
                = pool[m] + quotaFrees'[m],
           shared' = {}
    PROVE  Solo'
<1>1. PICK w \in Workers : w = wid[t]
  BY DEF WorkerTypes, TypeOK
<1>2. /\ rings' = Updated(rings, w, Append(rings[w], x))
      /\ UNCHANGED <<pkts, pc, tid, reg, buffer_slot, num, tenant_lock>>
  BY <1>1 DEF Enqueue, bufferVars, Updated
<1>3. /\ rings \in [Workers -> Seq(Mbufs)] /\ pool \in [Mbufs -> Nat]
      /\ quotaFrees \in [Mbufs -> Nat]
  BY DEF WorkerTypes, TypeOK
<1>4. /\ Fresh /\ (\A v \in Workers : Stage(v))
      /\ \A m \in Mbufs : Copies(m) = 1 + quotaFrees[m]
  BY DEF Solo
<1>5. Alone'
  BY NotedAlone DEF Enqueue
<1>6. Fresh'
  BY <1>2, <1>4 DEF Fresh, AtBatch
<1>7. \A v \in Workers : Stage(v)'
  BY <1>2, <1>4 DEF Stage, AtBatch
<1>8. Buffers' = Buffers
  <2>1. \A u \in Tenants : Buffered(u)' = Buffered(u)
    BY <1>2 DEF Buffered, Serves, Front
  <2> QED
    BY <2>1 DEF Buffers
<1>9. ASSUME NEW m \in Mbufs
      PROVE  Copies(m)' = 1 + quotaFrees'[m]
  <2> DEFINE o == IF x = m THEN 1 ELSE 0
  <2>1. rings[w] \in Seq(Mbufs) /\ Append(rings[w], x) \in Seq(Mbufs)
    BY <1>3
  <2>2. Occurrences(m, Append(rings[w], x)) = Occurrences(m, rings[w]) + o
    BY <2>1, OccurrencesOfAppend
  <2>3. /\ Queued(m, rings') \in Nat
        /\ Queued(m, rings') + Occurrences(m, rings[w])
             = Queued(m, rings) + Occurrences(m, Append(rings[w], x))
    BY <1>2, <2>1, RingChanges
  <2>4. Occurrences(m, rings[w]) \in Nat
    BY <2>1, PlacesAreFinite
  <2> DEFINE q == Occurrences(m, rings[w])
             r0 == Queued(m, rings)
             r1 == Queued(m, rings')
             p == Queued(m, pkts)
             b == Queued(m, Buffers)
             c0 == pool[m]
             c1 == pool'[m]
             f0 == quotaFrees[m]
             f1 == quotaFrees'[m]
  <2>5. /\ c1 + o + f0 = c0 + f1 /\ r1 + q = r0 + (q + o)
        /\ c0 + r0 + p + b = 1 + f0
        /\ o \in Nat /\ q \in Nat /\ r0 \in Nat /\ r1 \in Nat /\ p \in Nat
        /\ b \in Nat /\ c0 \in Nat /\ c1 \in Nat /\ f0 \in Nat /\ f1 \in Nat
    <3>1. c0 \in Nat /\ c1 \in Nat /\ f0 \in Nat /\ f1 \in Nat /\ o \in Nat
      BY <1>3
    <3> QED
      BY <1>4, <2>2, <2>3, <2>4, <3>1, CopiesAreCounted
  <2>6. Copies(m)' = c1 + r1 + p + b
    BY <1>2, <1>8, CopiesAfter
  <2> HIDE DEF o, q, r0, r1, p, b, c0, c1, f0, f1
  <2>7. Copies(m)' = 1 + f1
    BY <2>5, <2>6
  <2> QED
    BY <2>7 DEF f1
<1> QED
  BY <1>5, <1>6, <1>7, <1>9 DEF Solo

(* A change of a binding moves no packet, and neither does what a port       *)
(* writes into an mbuf that is still queued.                                 *)
LEMMA UnmovedKeepsSolo ==
    ASSUME Solo, Alone', UNCHANGED <<pool, rings, pkts, buffer_slot, num,
                                     tenant_lock, pc, tid, reg, quotaFrees>>
    PROVE  Solo'
<1>1. Fresh' /\ \A w \in Workers : Stage(w)'
  BY DEF Solo, Fresh, Stage, AtBatch
<1>2. ASSUME NEW m \in Mbufs
      PROVE  Copies(m)' = 1 + quotaFrees'[m]
  <2>1. \A u \in Tenants : Buffered(u)' = Buffered(u)
    BY DEF Buffered, Serves, Front
  <2>2. Buffers' = Buffers
    BY <2>1 DEF Buffers
  <2>3. Copies(m) = pool[m] + Queued(m, rings) + Queued(m, pkts)
                      + Queued(m, Buffers)
    BY DEF Copies, Buffers
  <2> QED
    BY <2>2, <2>3, CopiesAfter DEF Solo
<1> QED
  BY <1>1, <1>2 DEF Solo

\* If the ToS fields stay as well, so does who has packets of what.
LEMMA RebindKeepsSolo ==
    ASSUME Solo, UNCHANGED <<tos, pool, rings, pkts, buffer_slot, num,
                             tenant_lock, pc, tid, reg, quotaFrees>>
    PROVE  Solo'
<1>1. Alone'
  BY DEF Solo, Alone, Has, Busy, IsFor
<1> QED
  BY <1>1, UnmovedKeepsSolo

-----------------------------------------------------------------------------
(* Safety as long as no tenant is at two workers *)

WorkerInvariant ==
    /\ WorkerTypes
    /\ LockInv
    /\ shared = {} => Solo

LEMMA InitSolo == Init => WorkerInvariant
<1> SUFFICES ASSUME Init PROVE WorkerInvariant
  OBVIOUS
<1>1. WorkerTypes /\ LockInv
  BY InitTypes, InitLockInv
<1>2. Alone /\ (\A w \in Workers : Stage(w)) /\ Fresh
  BY WorkerAssumption
     DEF Init, Alone, Has, Busy, IsFor, Stage, AtBatch, Fresh
<1>3. ASSUME NEW m \in Mbufs
      PROVE  Copies(m) = 1 + quotaFrees[m]
  <2>1. Queued(m, rings) = 0 /\ Queued(m, pkts) = 0
    BY QueuedNowhere DEF Init
  <2>2. \A t \in DOMAIN Buffers : Buffers[t] = <<>>
    BY DEF Init, Buffers, Buffered, Serves, Front
  <2>3. Queued(m, Buffers) = 0
    BY <2>2, QueuedNowhere
  <2>4. Copies(m) = pool[m] + Queued(m, rings) + Queued(m, pkts)
                      + Queued(m, Buffers)
    BY DEF Copies, Buffers
  <2>5. pool[m] = 1 /\ quotaFrees[m] = 0
    BY DEF Init
  <2> QED
    BY <2>1, <2>3, <2>4, <2>5
<1> QED
  BY <1>1, <1>2, <1>3 DEF WorkerInvariant, Solo

LEMMA StepSolo ==
    ASSUME WorkerInvariant, [Next]_vars
    PROVE  WorkerInvariant'
<1>1. WorkerTypes /\ LockInv
  BY DEF WorkerInvariant
<1>2. WorkerTypes' /\ LockInv'
  BY <1>1, StepTypes, StepLockInv
<1>3. ASSUME shared' = {}
      PROVE  Solo'
  <2>1. shared = {}
    <3>1. shared \subseteq shared'
      BY <1>1, StepIsLocal
         DEF Next, vars, Arrive, ArriveOverQuota, Enqueue, Overwrite, NoteShared,
             Rebind
    <3> QED
      BY <1>3, <3>1
  <2>2. Solo
    BY <2>1 DEF WorkerInvariant
  <2>3. ASSUME NEW m \in Mbufs, NEW t \in Tenants,
               Arrive(m, t) \/ ArriveOverQuota(m, t)
        PROVE  Solo'
    <3>1. /\ Enqueue(m, t)
          /\ pool' \in [Mbufs -> Nat] /\ quotaFrees' \in [Mbufs -> Nat]
          /\ \A x \in Mbufs :
                pool'[x] + (IF m = x THEN 1 ELSE 0) + quotaFrees[x]
                  = pool[x] + quotaFrees'[x]
      BY <1>1, <2>3, ArriveTakes
    <3> QED
      BY <1>1, <1>3, <2>2, <3>1, EnqueueKeepsSolo
  <2>7. ASSUME NEW m \in Mbufs, NEW t \in Tenants, Overwrite(m, t)
        PROVE  Solo'
    <3>1. Alone'
      BY <1>3, <2>7, NotedAlone DEF Overwrite
    <3> QED
      BY <2>2, <2>7, <3>1, UnmovedKeepsSolo DEF Overwrite, bufferVars
  <2>4. ASSUME NEW t \in Tenants, NEW w \in Workers, Rebind(t, w)
        PROVE  Solo'
    BY <2>2, <2>4, RebindKeepsSolo DEF Rebind, bufferVars
  <2>5. ASSUME NEW w \in Workers, Step(w)
        PROVE  Solo'
    <3>1. /\ Alone /\ Fresh /\ (\A v \in Workers : Stage(v))
          /\ \A m \in Mbufs : Copies(m) = 1 + quotaFrees[m]
      BY <2>2 DEF Solo
    <3>2. Alone'
      BY <1>1, <2>5, <3>1, StepStaysAlone
    <3>3. Fresh'
      BY <1>1, <2>5, <3>1, StepStaysFresh
    <3>4. ASSUME NEW v \in Workers
          PROVE  Stage(v)'
      <4>1. CASE v = w
        BY <1>1, <2>5, <3>1, <4>1, OwnStage
      <4>2. CASE v # w
        BY <1>1, <2>5, <3>1, <4>2, StepIsLocal, OthersStage
      <4> QED
        BY <4>1, <4>2
    <3>5. \A m \in Mbufs : Copies(m)' = 1 + quotaFrees'[m]
      <4>1. \A m \in Mbufs : Copies(m)' = Copies(m)
        BY <1>1, <2>5, <3>1, <3>2, StepKeepsCopies
      <4>2. quotaFrees' = quotaFrees
        BY <1>1, <2>5, StepIsLocal
      <4> QED
        BY <3>1, <4>1, <4>2
    <3> QED
      BY <3>2, <3>3, <3>4, <3>5 DEF Solo
  <2>6. CASE UNCHANGED vars
    BY <2>2, <2>6, RebindKeepsSolo DEF vars
  <2> QED
    BY <2>3, <2>4, <2>5, <2>6, <2>7 DEF Next
<1> QED
  BY <1>2, <1>3 DEF WorkerInvariant

(* As long as no tenant ever had packets at two workers at once, the lock is *)
(* not needed: one worker at most is in a tenant's handler, it never finds   *)
(* the lock taken, and the network function gets exactly one full batch.     *)
THEOREM HandlersStayExclusive == Spec => []HandlerIsExclusive
<1>1. Spec => []WorkerInvariant
  BY InitSolo, StepSolo, PTL DEF Spec
<1>2. WorkerInvariant => HandlerIsExclusive
  <2> SUFFICES ASSUME WorkerTypes, Solo
               PROVE  \A w \in Workers :
                        /\ pc[w] \notin {"hung", "overrun"}
                        /\ \A v \in Workers \ {w} :
                              Inside(w, tid[w]) => ~Inside(v, tid[w])
                        /\ pc[w] \in {"spin", "acquire"} => ~tenant_lock[tid[w]]
                        /\ pc[w] \in {"spin", "acquire", "enter"}
                              => num[tid[w]] = MAX_PKT_BUFFER
    BY DEF WorkerInvariant, HandlerIsExclusive
  <2> TAKE w \in Workers
  <2>1. tid[w] \in Tenants
    BY DEF WorkerTypes, TypeOK
  <2>2. \A v \in Workers \ {w} : Inside(w, tid[w]) => ~Inside(v, tid[w])
    BY <2>1 DEF Solo, Alone, Has, Busy, Inside
  <2> QED
    BY <2>2 DEF Solo, Stage, AtBatch
<1> QED
  BY <1>1, <1>2, PTL

(* Under the same condition the workers lose and duplicate no mbuf, whatever *)
(* the batch, the buffer and the number of workers and tenants: it is in the *)
(* pool, on a ring, in a worker's hand or in a tenant's buffer once, and     *)
(* once more for each time it was freed over a quota and queued all the same.*)
THEOREM MbufsStayConserved == Spec => []MbufsAreConserved
<1>1. Spec => []WorkerInvariant
  BY InitSolo, StepSolo, PTL DEF Spec
<1>2. WorkerInvariant => MbufsAreConserved
  BY DEF WorkerInvariant, Solo, MbufsAreConserved
<1> QED
  BY <1>1, <1>2, PTL

-----------------------------------------------------------------------------
(* Tenants that stay where they are and within their quotas *)

WithinQuota == \A m \in Mbufs : quotaFrees[m] = 0

\* Every tenant's packets are at the worker it is bound to.
Settled == \A v \in Workers, t \in Tenants : Has(v, t) => v = wid[t]

\* The tenant of the packet a worker is storing is still the one it read.
Stamped ==
    \A w \in Workers :
        pc[w] \in {"store", "count"} => tid[w] = tos[Head(pkts[w])]

BoundInvariant ==
    WorkerInvariant /\ shared = {} /\ WithinQuota /\ Settled /\ Stamped

LEMMA CopiesWithinQuota ==
    Solo /\ WithinQuota => \A m \in Mbufs : Copies(m) = 1
<1> SUFFICES ASSUME Solo, WithinQuota, NEW m \in Mbufs PROVE Copies(m) = 1
  OBVIOUS
<1>1. Copies(m) = 1 + 0
  BY DEF Solo, WithinQuota
<1> QED
  BY <1>1

LEMMA InitBound == Init => BoundInvariant
<1> SUFFICES ASSUME Init PROVE shared = {} /\ WithinQuota /\ Settled /\ Stamped
  BY InitSolo DEF BoundInvariant
<1> QED
  BY DEF Init, WithinQuota, Settled, Stamped, Has, Busy, IsFor

(* A received packet comes from the pool, where its only copy was: no worker *)
(* has the mbuf whose ToS field is written.                                  *)
LEMMA OnlyInPool ==
    ASSUME WorkerTypes, NEW m \in Mbufs, pool[m] > 0, Copies(m) = 1
    PROVE  \A w \in Workers : /\ \A i \in DOMAIN rings[w] : rings[w][i] # m
                              /\ \A i \in DOMAIN pkts[w] : pkts[w][i] # m
<1> TAKE w \in Workers
<1>1. Queued(m, rings) = 0 /\ Queued(m, pkts) = 0
  <2> DEFINE c == pool[m]
             r == Queued(m, rings)
             p == Queued(m, pkts)
             b == Queued(m, Buffers)
  <2>1. /\ c + r + p + b = 1 /\ c > 0
        /\ c \in Nat /\ r \in Nat /\ p \in Nat /\ b \in Nat
    BY CopiesAreCounted
  <2> HIDE DEF c, r, p, b
  <2>2. r = 0 /\ p = 0
    BY <2>1
  <2> QED
    BY <2>2 DEF r, p
<1>2. rings[w] \in Seq(Mbufs) /\ pkts[w] \in Seq(Mbufs)
      /\ w \in DOMAIN rings /\ w \in DOMAIN pkts
  BY DEF WorkerTypes, TypeOK
<1>3. Occurrences(m, rings[w]) = 0
  <2>1. Occurrences(m, rings[w]) <= Queued(m, rings)
    BY <1>2, QueuesAreTyped, QueuedIsNatural
  <2>2. Occurrences(m, rings[w]) \in Nat
    BY <1>2, PlacesAreFinite
  <2> QED
    BY <1>1, <2>1, <2>2
<1>4. Occurrences(m, pkts[w]) = 0
  <2>1. Occurrences(m, pkts[w]) <= Queued(m, pkts)
    BY <1>2, QueuesAreTyped, QueuedIsNatural
  <2>2. Occurrences(m, pkts[w]) \in Nat
    BY <1>2, PlacesAreFinite
  <2> QED
    BY <1>1, <2>1, <2>2
<1> QED
  BY <1>2, <1>3, <1>4, OccursSomewhere

(* A received packet gives its tenant to the worker it is bound to.          *)
LEMMA ArriveGivesOne ==
    ASSUME WorkerTypes, Solo, WithinQuota, NEW x \in Mbufs, NEW t \in Tenants,
           Arrive(x, t)
    PROVE  \A v \in Workers, u \in Tenants :
              Has(v, u)' => Has(v, u) \/ (v = wid[t] /\ u = t)
<1>1. PICK w \in Workers : w = wid[t]
  BY DEF WorkerTypes, TypeOK
<1>2. /\ pool[x] > 0 /\ pool' = [pool EXCEPT ![x] = pool[x] - 1]
      /\ tos' = [tos EXCEPT ![x] = t]
      /\ rings' = Updated(rings, w, Append(rings[w], x))
      /\ UNCHANGED <<pkts, pc, tid, reg, buffer_slot, num, tenant_lock>>
  BY <1>1 DEF Arrive, Enqueue, bufferVars, Updated
<1>3. /\ rings \in [Workers -> Seq(Mbufs)] /\ pkts \in [Workers -> Seq(Mbufs)]
      /\ pool \in [Mbufs -> Nat] /\ tos \in [Mbufs -> Tenants]
  BY DEF WorkerTypes, TypeOK
<1>4. \A m \in Mbufs : Copies(m) = 1
  BY CopiesWithinQuota
<1>5. \A v \in Workers : /\ \A i \in DOMAIN rings[v] : rings[v][i] # x
                         /\ \A i \in DOMAIN pkts[v] : pkts[v][i] # x
  BY <1>2, <1>4, OnlyInPool
<1>6. \A v \in Workers, u \in Tenants : Has(v, u)' => Has(v, u) \/ (v = w /\ u = t)
  <2> SUFFICES ASSUME NEW v \in Workers, NEW u \in Tenants, Has(v, u)',
                      ~Has(v, u)
               PROVE  v = w /\ u = t
    OBVIOUS
  <2>1. \A m \in Mbufs \ {x} : tos'[m] = tos[m]
    BY <1>2, <1>3
  <2>2. ~IsFor(u, pkts[v])'
    <3>1. \A i \in DOMAIN pkts[v] : tos'[pkts[v][i]] = tos[pkts[v][i]]
      BY <1>3, <1>5, <2>1
    <3> QED
      BY <1>2, <3>1 DEF Has, IsFor
  <2>3. ~Busy(v, u)'
    BY <1>2 DEF Has, Busy
  <2>4. IsFor(u, rings[v])'
    BY <2>2, <2>3 DEF Has
  <2>5. \A i \in DOMAIN rings[v] : tos'[rings[v][i]] # u
    <3>1. \A i \in DOMAIN rings[v] : tos'[rings[v][i]] = tos[rings[v][i]]
      BY <1>3, <1>5, <2>1
    <3> QED
      BY <3>1 DEF Has, IsFor
  <2>6. v = w
    BY <1>2, <1>3, <2>4, <2>5 DEF IsFor, Updated
  <2>7. PICK i \in DOMAIN Append(rings[w], x) :
           tos'[Append(rings[w], x)[i]] = u
    BY <1>2, <1>3, <2>4, <2>6 DEF IsFor, Updated
  <2>8. Append(rings[w], x)[i] = x
    <3>1. rings[w] \in Seq(Mbufs)
      BY <1>3
    <3>2. CASE i \in DOMAIN rings[w]
      BY <2>5, <2>6, <2>7, <3>1, <3>2
    <3>3. CASE i \notin DOMAIN rings[w]
      BY <2>7, <3>1, <3>3
    <3> QED
      BY <3>2, <3>3
  <2>9. tos'[x] = t
    BY <1>2, <1>3
  <2> QED
    BY <2>6, <2>7, <2>8, <2>9
<1> QED
  BY <1>1, <1>6

\* Who stores a packet of an mbuf that no port receives into.
LEMMA ArriveStamps ==
    ASSUME WorkerTypes, Solo, WithinQuota, Stamped, NEW x \in Mbufs,
           NEW t \in Tenants, Arrive(x, t)
    PROVE  Stamped'
<1>1. /\ pool[x] > 0 /\ tos' = [tos EXCEPT ![x] = t]
      /\ UNCHANGED <<pkts, pc, tid>>
  BY DEF Arrive, Enqueue
<1>2. /\ pkts \in [Workers -> Seq(Mbufs)] /\ tos \in [Mbufs -> Tenants]
  BY DEF WorkerTypes, TypeOK
<1>3. Copies(x) = 1
  BY CopiesWithinQuota
<1>4. ASSUME NEW v \in Workers, pc[v] \in {"store", "count"}
      PROVE  tid[v] = tos'[Head(pkts[v])]
  <2>1. pkts[v] # <<>> /\ pkts[v] \in Seq(Mbufs)
    BY <1>2, <1>4 DEF WorkerTypes
  <2>2. \A i \in DOMAIN pkts[v] : pkts[v][i] # x
    BY <1>1, <1>3, OnlyInPool
  <2>3. Head(pkts[v]) \in Mbufs /\ Head(pkts[v]) # x
    BY <2>1, <2>2
  <2> QED
    BY <1>1, <1>2, <1>4, <2>3 DEF Stamped
<1> QED
  BY <1>1, <1>4 DEF Stamped

LEMMA StepStamps ==
    ASSUME WorkerTypes, Stamped, NEW w \in Workers, Step(w)
    PROVE  Stamped'
<1>1. /\ tos' = tos
      /\ \A v \in Workers \ {w} :
            pc'[v] = pc[v] /\ tid'[v] = tid[v] /\ pkts'[v] = pkts[v]
  BY StepIsLocal
<1>2. pc'[w] \in {"store", "count"} => tid'[w] = tos[Head(pkts'[w])]
  <2> USE DEF WorkerTypes, TypeOK, GoTo
  <2>1. CASE ReadNum(w)
    BY <2>1 DEF ReadNum
  <2>2. CASE StoreSlot(w)
    BY <2>2 DEF StoreSlot, Stamped
  <2>3. CASE Dequeue(w) \/ BurstDone(w) \/ WriteNum(w) \/ Test(w) \/ Acquire(w)
    BY <2>3 DEF Dequeue, BurstDone, WriteNum, Test, Acquire
  <2>4. CASE Enter(w) \/ Handler(w) \/ Unlock(w) \/ Reset(w) \/ Transmit(w)
    BY <2>4 DEF Enter, Handler, Unlock, Reset, Transmit
  <2> QED
    BY <2>1, <2>2, <2>3, <2>4 DEF Step
<1> QED
  BY <1>1, <1>2 DEF Stamped

\* No port receives into an mbuf that is still queued.
LEMMA NoOverwrite ==
    ASSUME WorkerTypes, Solo, WithinQuota, NEW m \in Mbufs, NEW t \in Tenants
    PROVE  ~Overwrite(m, t)
<1>1. SUFFICES ASSUME pool[m] > 0
               PROVE  ~ (Queued(m, rings) + Queued(m, pkts) > 0)
  BY DEF Overwrite
<1> DEFINE c == pool[m]
           r == Queued(m, rings)
           p == Queued(m, pkts)
           b == Queued(m, Buffers)
<1>2. /\ c + r + p + b = 1 /\ c > 0
      /\ c \in Nat /\ r \in Nat /\ p \in Nat /\ b \in Nat
  BY <1>1, CopiesWithinQuota, CopiesAreCounted
<1> HIDE DEF c, r, p, b
<1>3. ~ (r + p > 0)
  BY <1>2
<1> QED
  BY <1>3 DEF r, p

\* Only a tenant that moves, or a packet received into a queued mbuf, has
\* packets of a tenant at two workers.
LEMMA StepBound ==
    ASSUME MayMove = {}, MayExceed = {}, BoundInvariant, [Next]_vars
    PROVE  BoundInvariant'
<1>1. WorkerTypes /\ Solo /\ shared = {} /\ WithinQuota /\ Settled /\ Stamped
  BY DEF BoundInvariant, WorkerInvariant
<1>2. WorkerInvariant'
  BY StepSolo DEF BoundInvariant
<1>3. ASSUME NEW x \in Mbufs, NEW t \in Tenants, Arrive(x, t)
      PROVE  shared' = {} /\ WithinQuota' /\ Settled' /\ Stamped'
  <2>1. /\ wid' = wid /\ quotaFrees' = quotaFrees
        /\ shared' = shared \cup {u \in Tenants : AtTwo(u)'}
    BY <1>3 DEF Arrive, Enqueue, NoteShared
  <2>2. \A v \in Workers, u \in Tenants :
           Has(v, u)' => Has(v, u) \/ (v = wid[t] /\ u = t)
    BY <1>1, <1>3, ArriveGivesOne
  <2>3. Settled'
    BY <1>1, <2>1, <2>2 DEF Settled
  <2>4. shared' = {}
    BY <1>1, <2>1, <2>3 DEF Settled, AtTwo
  <2>5. Stamped'
    BY <1>1, <1>3, ArriveStamps
  <2> QED
    BY <1>1, <2>1, <2>3, <2>4, <2>5 DEF WithinQuota
<1>4. ASSUME NEW w \in Workers, Step(w)
      PROVE  shared' = {} /\ WithinQuota' /\ Settled' /\ Stamped'
  <2>1. wid' = wid /\ shared' = shared /\ quotaFrees' = quotaFrees
    BY <1>4 DEF Step, Dequeue, BurstDone, ReadNum, StoreSlot, WriteNum, Test, Acquire,
                Enter, Handler, Unlock, Reset, Transmit, dispatcherVars
  <2>2. \A v \in Workers, u \in Tenants : Has(v, u)' => Has(v, u)
    BY <1>1, <1>4, StepGivesNoTenant
  <2>3. Stamped'
    BY <1>1, <1>4, StepStamps
  <2> QED
    BY <1>1, <2>1, <2>2, <2>3 DEF Settled, WithinQuota
<1>5. CASE UNCHANGED vars
  <2>1. wid' = wid /\ shared' = shared /\ WithinQuota' /\ Stamped'
    BY <1>1, <1>5 DEF vars, WithinQuota, Stamped
  <2>2. \A v \in Workers, u \in Tenants : Has(v, u)' => Has(v, u)
    BY <1>5 DEF vars, Has, Busy, IsFor
  <2> QED
    BY <1>1, <1>2, <2>1, <2>2 DEF Settled, BoundInvariant
<1>6. ASSUME NEW t \in Tenants, NEW w \in Workers, Rebind(t, w)
      PROVE  FALSE
  BY <1>6 DEF Rebind
<1>7. ASSUME NEW m \in Mbufs, NEW t \in Tenants,
             ArriveOverQuota(m, t) \/ Overwrite(m, t)
      PROVE  FALSE
  BY <1>1, <1>7, NoOverwrite DEF ArriveOverQuota
<1> QED
  BY <1>2, <1>3, <1>4, <1>5, <1>6, <1>7 DEF Next, BoundInvariant

-----------------------------------------------------------------------------
(* The line of a tenant *)

\* Its three parts.
Waiting(t) ==
    IF \E w \in Workers : Serves(w, t) THEN <<>> ELSE Front(t, num[t])
InHand(t) == Of(t, pkts[wid[t]])
OnRing(t) == Of(t, rings[wid[t]])

Held == Mbufs \cup {NoMbuf}

LEMMA LineParts ==
    ASSUME WorkerTypes, NEW t \in Tenants
    PROVE  /\ LineOf(t) = (Waiting(t) \o InHand(t)) \o OnRing(t)
           /\ Waiting(t) \in Seq(Held) /\ InHand(t) \in Seq(Held)
           /\ OnRing(t) \in Seq(Held)
<1>1. LineOf(t) = (Waiting(t) \o InHand(t)) \o OnRing(t)
  BY DEF LineOf, Waiting, InHand, OnRing
<1>2. PICK w \in Workers : w = wid[t]
  BY DEF WorkerTypes, TypeOK
<1>3. pkts[w] \in Seq(Held) /\ rings[w] \in Seq(Held)
  <2>1. pkts[w] \in Seq(Mbufs) /\ rings[w] \in Seq(Mbufs)
    BY DEF WorkerTypes, TypeOK
  <2> QED
    BY <2>1 DEF Held
<1>4. Of(t, pkts[w]) \in Seq(Held) /\ Of(t, rings[w]) \in Seq(Held)
  BY <1>3, SelectType DEF Of
<1>5. Front(t, num[t]) \in Seq(Held)
  BY FrontType DEF WorkerTypes, TypeOK, Held
<1>6. Waiting(t) \in Seq(Held)
  BY <1>5 DEF Waiting
<1> QED
  BY <1>1, <1>2, <1>4, <1>6 DEF InHand, OnRing

(* The part in the buffer stays as long as its slots and its count do, and   *)
(* whether it has been served.                                               *)
LEMMA WaitingStays ==
    ASSUME NEW t \in Tenants,
           \A v \in Workers : Serves(v, t)' <=> Serves(v, t),
           \/ \E v \in Workers : Serves(v, t)
           \/ /\ num'[t] = num[t]
              /\ \A i \in 1 .. num[t] : buffer_slot'[t][i - 1] = buffer_slot[t][i - 1]
    PROVE  Waiting(t)' = Waiting(t)
<1>1. CASE \E v \in Workers : Serves(v, t)
  BY <1>1 DEF Waiting
<1>2. CASE ~\E v \in Workers : Serves(v, t)
  <2>1. Front(t, num[t])' = Front(t, num[t])
    BY <1>2 DEF Front
  <2> QED
    BY <1>2, <2>1 DEF Waiting
<1> QED
  BY <1>1, <1>2

(* Where a tenant's other packets are, after a step of a worker.             *)
LEMMA PartsAfter ==
    ASSUME tos' = tos, wid' = wid, NEW t \in Tenants
    PROVE  InHand(t)' = Of(t, pkts'[wid[t]]) /\ OnRing(t)' = Of(t, rings'[wid[t]])
BY DEF InHand, OnRing, Of

(* Most steps move no packet from one part of a line to another.             *)
LEMMA QuietStep ==
    ASSUME WorkerTypes, Solo, NEW w \in Workers, NEW u \in Tenants,
           \/ BurstDone(w) \/ ReadNum(w) \/ StoreSlot(w) \/ Test(w) \/ Acquire(w)
           \/ Enter(w) \/ Unlock(w) \/ Reset(w) \/ Transmit(w)
    PROVE  LineOf(u)' = LineOf(u)
<1>1. UNCHANGED <<wid, tos, rings, pkts>> /\ Step(w)
  BY DEF BurstDone, ReadNum, StoreSlot, Test, Acquire, Enter, Unlock, Reset, Transmit,
         dispatcherVars, Step
<1>2. \A v \in Workers \ {w} : pc'[v] = pc[v] /\ tid'[v] = tid[v]
  BY <1>1, StepIsLocal
<1>3. Alone /\ Stage(w)
  BY DEF Solo
<1>4. ASSUME Waiting(u)' = Waiting(u) PROVE LineOf(u)' = LineOf(u)
  <2>1. InHand(u)' = InHand(u) /\ OnRing(u)' = OnRing(u)
    BY <1>1 DEF InHand, OnRing, Of
  <2> QED
    BY <1>4, <2>1 DEF LineOf, Waiting, InHand, OnRing
<1>5. CASE BurstDone(w) \/ ReadNum(w) \/ Test(w) \/ Acquire(w) \/ Enter(w)
  <2>1. /\ UNCHANGED <<buffer_slot, num>>
        /\ pc[w] \in {"next", "spin", "acquire", "enter"}
        /\ pc'[w] \in {"poll", "store", "hung", "acquire", "enter", "handler"}
    BY <1>5 DEF BurstDone, ReadNum, Test, Acquire, Enter, GoTo, bufferVars,
                WorkerTypes, TypeOK
  <2>2. ~Serves(w, u) /\ ~Serves(w, u)'
    BY <2>1 DEF Serves
  <2>3. \A v \in Workers : Serves(v, u)' <=> Serves(v, u)
    BY <1>2, <2>2 DEF Serves
  <2> QED
    BY <1>4, <2>1, <2>3, WaitingStays
<1>6. CASE StoreSlot(w)
  <2>1. PICK t \in Tenants : t = tid[w]
    BY DEF WorkerTypes, TypeOK
  <2>2. PICK n \in 0 .. MBUFS_PER_TENANT : n = num[t]
    BY DEF WorkerTypes, TypeOK
  <2>3. /\ pc[w] = "store" /\ reg[w] = n /\ tid' = tid /\ num' = num
        /\ pc'[w] \in {"count", "overrun"}
        /\ \A i \in Slots : i # n => buffer_slot'[t][i] = buffer_slot[t][i]
        /\ \A s \in Tenants : s # t => buffer_slot'[s] = buffer_slot[s]
    <3>1. /\ pc[w] = "store" /\ reg[w] = n /\ tid' = tid /\ num' = num
          /\ pc'[w] \in {"count", "overrun"}
      BY <1>3, <1>6, <2>1, <2>2 DEF StoreSlot, GoTo, Stage, WorkerTypes, TypeOK
    <3>2. \/ buffer_slot' = [buffer_slot EXCEPT ![t][n] = Head(pkts[w])]
          \/ buffer_slot' = buffer_slot
      BY <1>6, <2>1, <3>1 DEF StoreSlot
    <3>3. buffer_slot \in [Tenants -> [Slots -> Mbufs \cup {NoMbuf}]]
      BY DEF WorkerTypes, TypeOK
    <3> QED
      BY <3>1, <3>2, <3>3
  <2>4. ~Serves(w, u) /\ ~Serves(w, u)'
    BY <2>3 DEF Serves
  <2>5. \A v \in Workers : Serves(v, u)' <=> Serves(v, u)
    BY <1>2, <2>4 DEF Serves
  <2>6. \A i \in 1 .. num[u] : buffer_slot'[u][i - 1] = buffer_slot[u][i - 1]
    <3>1. CASE u = t
      <4>1. \A i \in 1 .. n : i - 1 \in Slots /\ i - 1 # n
        BY WorkerAssumption DEF Slots
      <4> QED
        BY <2>2, <2>3, <3>1, <4>1
    <3>2. CASE u # t
      BY <2>3, <3>2
    <3> QED
      BY <3>1, <3>2
  <2>7. num'[u] = num[u]
    BY <2>3
  <2> QED
    BY <1>4, <2>5, <2>6, <2>7, WaitingStays
<1>7. CASE Unlock(w) \/ Reset(w)
  <2>1. /\ UNCHANGED <<buffer_slot, tid>>
        /\ pc[w] \in {"unlock", "reset"} /\ pc'[w] \in {"reset", "tx"}
        /\ tid[w] = u \/ num'[u] = num[u]
    BY <1>7 DEF Unlock, Reset, GoTo, WorkerTypes, TypeOK
  <2>2. /\ Serves(w, u)' <=> Serves(w, u)
        /\ Serves(w, u) \/ num'[u] = num[u]
    BY <2>1 DEF Serves
  <2>3. \A v \in Workers : Serves(v, u)' <=> Serves(v, u)
    BY <1>2, <2>2 DEF Serves
  <2> QED
    BY <1>4, <2>1, <2>2, <2>3, WaitingStays
<1>8. CASE Transmit(w)
  <2>1. /\ UNCHANGED <<buffer_slot, num, tid>> /\ pc[w] = "tx" /\ pc'[w] = "next"
    BY <1>8 DEF Transmit, GoTo, bufferVars, WorkerTypes, TypeOK
  <2>2. CASE tid[w] = u
    <3>1. Serves(w, u) /\ num[u] = 0
      BY <1>3, <2>1, <2>2 DEF Serves, Stage
    <3>2. \A v \in Workers : ~Serves(v, u)'
      BY <1>2, <1>3, <2>1, <2>2 DEF Serves, Alone, Has, Busy
    <3>3. Waiting(u) = <<>>
      BY <3>1 DEF Waiting
    <3>4. Waiting(u)' = Front(u, num[u])'
      BY <3>2 DEF Waiting
    <3>5. Front(u, num[u])' = <<>>
      BY <2>1, <3>1 DEF Front
    <3> QED
      BY <1>4, <3>3, <3>4, <3>5
  <2>3. CASE tid[w] # u
    <3>1. \A v \in Workers : Serves(v, u)' <=> Serves(v, u)
      BY <1>2, <2>1, <2>3 DEF Serves
    <3> QED
      BY <1>4, <2>1, <3>1, WaitingStays
  <2> QED
    BY <2>2, <2>3
<1> QED
  BY <1>5, <1>6, <1>7, <1>8

(* A tenant's packets in two sequences put together.                         *)
LEMMA OfConcat ==
    ASSUME NEW t, NEW s, NEW r
    PROVE  s \in Seq(Mbufs) /\ r \in Seq(Mbufs)
             => Of(t, s \o r) = Of(t, s) \o Of(t, r)
<1> DEFINE P == {m \in Mbufs : tos[m] = t}
<1> HIDE DEF P
<1>1. s \in Seq(Mbufs) /\ r \in Seq(Mbufs)
        => Select(s \o r, P) = Select(s, P) \o Select(r, P)
  BY SelectOfConcat
<1> QED
  BY <1>1 DEF Of, P

(* Dequeueing a burst takes it from the ring to the worker's empty hand.     *)
LEMMA DequeueKeepsLines ==
    ASSUME WorkerTypes, NEW w \in Workers, NEW u \in Tenants, Dequeue(w)
    PROVE  LineOf(u)' = LineOf(u)
<1> DEFINE n == IF Len(rings[w]) < MAX_PKT_BUFFER THEN Len(rings[w])
                                                  ELSE MAX_PKT_BUFFER
           burst == SubSeq(rings[w], 1, n)
           left == SubSeq(rings[w], n + 1, Len(rings[w]))
<1>1. /\ rings \in [Workers -> Seq(Mbufs)] /\ pkts \in [Workers -> Seq(Mbufs)]
      /\ pc \in [Workers -> Labels] /\ pkts[w] = <<>> /\ wid[u] \in Workers
  BY DEF Dequeue, WorkerTypes, TypeOK
<1>2. n \in 0 .. Len(rings[w])
  BY <1>1, WorkerAssumption
<1>3. /\ pkts' = [pkts EXCEPT ![w] = burst]
      /\ rings' = [rings EXCEPT ![w] = left]
      /\ pc[w] = "poll" /\ pc' = [pc EXCEPT ![w] = "next"]
      /\ UNCHANGED <<tos, wid, tid, num, buffer_slot>>
  BY DEF Dequeue, GoTo, dispatcherVars, bufferVars
<1> HIDE DEF n
<1>4. burst \in Seq(Mbufs) /\ left \in Seq(Mbufs) /\ rings[w] = burst \o left
  <2>1. PICK ring : ring = rings[w] /\ ring \in Seq(Mbufs)
    BY <1>1
  <2>2. 1 \in 1 .. Len(ring) + 1 /\ n \in 1 - 1 .. Len(ring) /\ Len(ring) \in n .. Len(ring)
    BY <1>2, <2>1
  <2>3. SubSeq(ring, 1, n) \o SubSeq(ring, n + 1, Len(ring)) = SubSeq(ring, 1, Len(ring))
    BY <2>1, <2>2, ConcatAdjacentSubSeq
  <2>4. SubSeq(ring, 1, Len(ring)) = ring
    BY <2>1, SubSeqFull
  <2>5. SubSeq(ring, 1, n) \in Seq(Mbufs) /\ SubSeq(ring, n + 1, Len(ring)) \in Seq(Mbufs)
    BY <1>2, <2>1
  <2> QED
    BY <2>1, <2>3, <2>4, <2>5
<1> HIDE DEF burst, left
<1>5. Waiting(u)' = Waiting(u)
  <2>1. \A v \in Workers : Serves(v, u)' <=> Serves(v, u)
    BY <1>1, <1>3 DEF Serves
  <2> QED
    BY <1>3, <2>1, WaitingStays
<1>6. CASE wid[u] = w
  <2>1. InHand(u) = <<>>
    BY <1>1, <1>6, SelectOfNone DEF InHand, Of
  <2>2. InHand(u)' = Of(u, burst) /\ OnRing(u)' = Of(u, left)
    BY <1>1, <1>3, <1>6, PartsAfter
  <2>3. OnRing(u) = Of(u, burst) \o Of(u, left)
    <3>1. Of(u, burst \o left) = Of(u, burst) \o Of(u, left)
      BY <1>4, OfConcat
    <3> QED
      BY <1>4, <1>6, <3>1 DEF OnRing
  <2>4. Of(u, burst) \in Seq(Mbufs) /\ Of(u, left) \in Seq(Mbufs)
    BY <1>4, SelectType DEF Of
  <2>5. Of(u, burst) \in Seq(Held) /\ Of(u, left) \in Seq(Held)
    BY <2>4 DEF Held
  <2>6. Waiting(u) \in Seq(Held) /\ LineOf(u) = (Waiting(u) \o InHand(u)) \o OnRing(u)
    BY LineParts
  <2>7. (Waiting(u) \o <<>>) \o (Of(u, burst) \o Of(u, left))
          = (Waiting(u) \o Of(u, burst)) \o Of(u, left)
    <3>1. PICK a : a = Waiting(u) /\ a \in Seq(Held)
      BY <2>6
    <3>2. PICK x : x = Of(u, burst) /\ x \in Seq(Held)
      BY <2>5
    <3>3. PICK y : y = Of(u, left) /\ y \in Seq(Held)
      BY <2>5
    <3>4. (a \o <<>>) \o (x \o y) = (a \o x) \o y
      BY <3>1, <3>2, <3>3, BurstInLine
    <3> QED
      BY <3>1, <3>2, <3>3, <3>4
  <2>8. LineOf(u)' = (Waiting(u)' \o InHand(u)') \o OnRing(u)'
    BY DEF LineOf, Waiting, InHand, OnRing
  <2> QED
    BY <1>5, <2>1, <2>2, <2>3, <2>6, <2>7, <2>8
<1>7. CASE wid[u] # w
  <2>1. InHand(u)' = InHand(u) /\ OnRing(u)' = OnRing(u)
    BY <1>1, <1>3, <1>7, PartsAfter DEF InHand, OnRing
  <2> QED
    BY <1>5, <2>1 DEF LineOf, Waiting, InHand, OnRing
<1> QED
  BY <1>6, <1>7

(* Counting a packet takes it from the worker's hand to the buffer.          *)
LEMMA WriteNumKeepsLines ==
    ASSUME WorkerTypes, Solo, Settled, Stamped, NEW w \in Workers, NEW u \in Tenants,
           WriteNum(w)
    PROVE  LineOf(u)' = LineOf(u)
<1>1. PICK t \in Tenants : t = tid[w]
  BY DEF WorkerTypes, TypeOK
<1>2. PICK n \in 0 .. MBUFS_PER_TENANT : n = reg[w]
  BY DEF WorkerTypes, TypeOK
<1>3. PICK hand : hand = pkts[w] /\ hand \in Seq(Mbufs) /\ hand # <<>>
  BY DEF WriteNum, WorkerTypes, TypeOK
<1>4. PICK x : x = Head(hand)
  OBVIOUS
<1>5. Alone /\ Stage(w)
  BY DEF Solo
<1>6. /\ pc[w] = "count" /\ n \in Slots /\ num[t] = n /\ buffer_slot[t][n] = x
      /\ tos[x] = t
      /\ num \in [Tenants -> 0 .. MBUFS_PER_TENANT]
      /\ buffer_slot \in [Tenants -> [Slots -> Held]]
      /\ pc \in [Workers -> Labels] /\ pkts \in [Workers -> Seq(Mbufs)]
      /\ wid \in [Tenants -> Workers]
  BY <1>1, <1>2, <1>3, <1>4, <1>5 DEF WriteNum, Stage, Stamped, WorkerTypes, TypeOK, Held
<1>7. /\ num' = [num EXCEPT ![t] = n + 1]
      /\ pkts' = [pkts EXCEPT ![w] = Tail(hand)]
      /\ pc'[w] \in {"spin", "next"}
      /\ \A v \in Workers \ {w} : pc'[v] = pc[v]
      /\ UNCHANGED <<rings, tid, reg, buffer_slot, tos, wid>>
  BY <1>1, <1>2, <1>3, <1>6 DEF WriteNum, GoTo, dispatcherVars
<1>8. /\ x \in Mbufs /\ Tail(hand) \in Seq(Mbufs) /\ hand = <<x>> \o Tail(hand)
  BY <1>3, <1>4, HeadTailProperties
<1>9. /\ InHand(u)' = Of(u, pkts'[wid[u]]) /\ OnRing(u)' = OnRing(u)
  BY <1>7, PartsAfter DEF OnRing
<1>10. \A s \in Tenants : Of(s, hand) = Of(s, <<x>>) \o Of(s, Tail(hand))
  <2>1. PICK one : one = <<x>> /\ one \in Seq(Mbufs)
    <3>1. <<x>> \in Seq(Mbufs)
      BY <1>8
    <3> QED
      BY <3>1
  <2>2. PICK rest : rest = Tail(hand) /\ rest \in Seq(Mbufs)
    BY <1>8
  <2>3. hand = one \o rest
    BY <1>8, <2>1, <2>2
  <2>4. \A s : Of(s, one \o rest) = Of(s, one) \o Of(s, rest)
    BY <2>1, <2>2, OfConcat
  <2> QED
    BY <2>1, <2>2, <2>3, <2>4
<1>11. CASE u = t
  <2>1. wid[t] = w
    BY <1>1, <1>6 DEF Settled, Has, Busy
  <2>2. \A v \in Workers : ~Serves(v, t)
    BY <1>1, <1>5, <1>6 DEF Serves, Alone, Has, Busy
  <2>3. \A v \in Workers : ~Serves(v, t)'
    BY <1>7, <2>2 DEF Serves
  <2>4. Waiting(t) = Front(t, n)
    BY <1>6, <2>2 DEF Waiting
  <2>5. Waiting(t)' = Front(t, n + 1)
    <3>1. Waiting(t)' = Front(t, num[t])'
      BY <2>3 DEF Waiting
    <3>2. num'[t] = n + 1
      BY <1>6, <1>7
    <3>3. Front(t, num[t])' = Front(t, n + 1)
      BY <1>7, <3>2 DEF Front
    <3> QED
      BY <3>1, <3>3
  <2>6. Front(t, n + 1) = Append(Front(t, n), x)
    BY <1>6, FrontGrows DEF Held
  <2>7. Of(t, <<x>>) = <<x>>
    BY <1>6, <1>8, SelectOfOne DEF Of
  <2>8. InHand(t) = <<x>> \o Of(t, Tail(hand)) /\ InHand(t)' = Of(t, Tail(hand))
    BY <1>3, <1>6, <1>7, <1>9, <1>10, <1>11, <2>1, <2>7 DEF InHand
  <2>9. /\ Waiting(t) \in Seq(Held) /\ OnRing(t) \in Seq(Held) /\ x \in Held
        /\ Of(t, Tail(hand)) \in Seq(Held)
    <3>1. Tail(hand) \in Seq(Held)
      BY <1>8 DEF Held
    <3> QED
      BY <1>8, <3>1, LineParts, SelectType DEF Of, Held
  <2>10. (Waiting(t) \o (<<x>> \o Of(t, Tail(hand)))) \o OnRing(t)
           = (Append(Waiting(t), x) \o Of(t, Tail(hand))) \o OnRing(t)
    BY <2>9, CountedInLine
  <2>11. LineOf(t) = (Waiting(t) \o InHand(t)) \o OnRing(t)
    BY LineParts
  <2>12. LineOf(t)' = (Waiting(t)' \o InHand(t)') \o OnRing(t)'
    BY DEF LineOf, Waiting, InHand, OnRing
  <2> QED
    BY <1>9, <1>11, <2>4, <2>5, <2>6, <2>8, <2>10, <2>11, <2>12
<1>12. CASE u # t
  <2>1. ~Serves(w, u) /\ ~Serves(w, u)'
    BY <1>1, <1>6, <1>7 DEF Serves
  <2>2. \A v \in Workers : Serves(v, u)' <=> Serves(v, u)
    BY <1>7, <2>1 DEF Serves
  <2>3. Waiting(u)' = Waiting(u)
    BY <1>6, <1>7, <1>12, <2>2, WaitingStays
  <2>4. Of(u, <<x>>) = <<>>
    BY <1>6, <1>12, SelectOfOne DEF Of
  <2>5. Of(u, Tail(hand)) \in Seq(Mbufs)
    BY <1>8, SelectType DEF Of
  <2>6. Of(u, hand) = Of(u, Tail(hand))
    BY <1>10, <2>4, <2>5, ConcatEmptySeq
  <2>7. InHand(u)' = InHand(u)
    BY <1>3, <1>6, <1>7, <1>9, <2>6 DEF InHand
  <2> QED
    BY <1>9, <2>3, <2>7 DEF LineOf, Waiting, InHand, OnRing
<1> QED
  BY <1>11, <1>12

(* The network function is called with the first full batch of a tenant's    *)
(* line, which leaves the line; the lines of the others stay.                *)
LEMMA HandlerServes ==
    ASSUME WorkerTypes, Solo, NEW w \in Workers, Handler(w), NEW u \in Tenants
    PROVE  /\ u = tid[w] => /\ Len(LineOf(u)) >= MAX_PKT_BUFFER
                            /\ LineOf(u)' = SubSeq(LineOf(u), MAX_PKT_BUFFER + 1,
                                                   Len(LineOf(u)))
           /\ u # tid[w] => LineOf(u)' = LineOf(u)
<1>1. PICK t \in Tenants : t = tid[w]
  BY DEF WorkerTypes, TypeOK
<1>2. Alone /\ Stage(w)
  BY DEF Solo
<1>3. /\ pc[w] = "handler" /\ pc'[w] = "unlock" /\ num[t] = MAX_PKT_BUFFER
      /\ UNCHANGED <<num, tid, rings, pkts, tos, wid>>
      /\ Step(w) /\ num \in [Tenants -> 0 .. MBUFS_PER_TENANT]
  BY <1>1, <1>2 DEF Handler, Stage, AtBatch, GoTo, Step, WorkerTypes, TypeOK,
                    dispatcherVars
<1>4. /\ \A v \in Workers \ {w} : pc'[v] = pc[v] /\ tid'[v] = tid[v]
      /\ \A s \in Tenants : Has(w, s) \/ buffer_slot'[s] = buffer_slot[s]
  BY <1>3, StepIsLocal
<1>5. InHand(u)' = InHand(u) /\ OnRing(u)' = OnRing(u)
  BY <1>3 DEF InHand, OnRing, Of
<1>6. /\ LineOf(u) = (Waiting(u) \o InHand(u)) \o OnRing(u)
      /\ LineOf(u)' = (Waiting(u)' \o InHand(u)') \o OnRing(u)'
      /\ Waiting(u) \in Seq(Held) /\ InHand(u) \in Seq(Held)
      /\ OnRing(u) \in Seq(Held)
  BY LineParts DEF LineOf, Waiting, InHand, OnRing
<1>7. CASE u = t
  <2>1. \A v \in Workers : ~Serves(v, t)
    BY <1>1, <1>2, <1>3 DEF Serves, Alone, Has, Busy
  <2>2. Serves(w, t)'
    BY <1>1, <1>3 DEF Serves
  <2>3. Waiting(t) = Front(t, num[t]) /\ Waiting(t)' = <<>>
    BY <2>1, <2>2 DEF Waiting
  <2>4. Len(Waiting(t)) = MAX_PKT_BUFFER
    BY <1>3, <2>3, FrontType DEF WorkerTypes, TypeOK
  <2>5. PICK a : a = Waiting(u) /\ a \in Seq(Held)
    BY <1>6
  <2>6. PICK b : b = InHand(u) /\ b \in Seq(Held)
    BY <1>6
  <2>7. PICK c : c = OnRing(u) /\ c \in Seq(Held)
    BY <1>6
  <2>8. PICK line : line = (a \o b) \o c
    OBVIOUS
  <2>9. /\ Len(line) >= Len(a)
        /\ SubSeq(line, Len(a) + 1, Len(line)) = (<<>> \o b) \o c
    BY <2>5, <2>6, <2>7, <2>8, ServedInLine
  <2>10. Len(a) = MAX_PKT_BUFFER
    BY <1>7, <2>4, <2>5
  <2>11. LineOf(u) = line /\ LineOf(u)' = (<<>> \o b) \o c
    BY <1>5, <1>6, <1>7, <2>3, <2>5, <2>6, <2>7, <2>8
  <2> QED
    BY <1>1, <1>7, <2>9, <2>10, <2>11
<1>8. CASE u # t
  <2>1. ~Serves(w, u) /\ ~Serves(w, u)'
    BY <1>1, <1>3, <1>8 DEF Serves
  <2>2. \A v \in Workers : Serves(v, u)' <=> Serves(v, u)
    BY <1>4, <2>1 DEF Serves
  <2>3. buffer_slot'[u] = buffer_slot[u]
    <3> USE DEF WorkerTypes, TypeOK
    <3>1. \E new : buffer_slot' = [buffer_slot EXCEPT ![t] = new]
      BY <1>1 DEF Handler
    <3> QED
      BY <1>8, <3>1
  <2>4. Waiting(u)' = Waiting(u)
    BY <1>3, <2>2, <2>3, WaitingStays
  <2> QED
    BY <1>1, <1>5, <1>6, <1>8, <2>4
<1> QED
  BY <1>1, <1>7, <1>8

(* An mbuf with a copy in the pool is in no buffer.                          *)
LEMMA NotBuffered ==
    ASSUME WorkerTypes, NEW m \in Mbufs, pool[m] > 0, Copies(m) = 1, NEW t \in Tenants
    PROVE  \A i \in DOMAIN Buffered(t) : Buffered(t)[i] # m
<1>1. Queued(m, Buffers) = 0
  <2> DEFINE c == pool[m]
             r == Queued(m, rings)
             p == Queued(m, pkts)
             b == Queued(m, Buffers)
  <2>1. /\ c + r + p + b = 1 /\ c > 0
        /\ c \in Nat /\ r \in Nat /\ p \in Nat /\ b \in Nat
    BY CopiesAreCounted
  <2> HIDE DEF c, r, p, b
  <2>2. b = 0
    BY <2>1
  <2> QED
    BY <2>2 DEF b
<1>2. Family(Buffers, Held) /\ t \in DOMAIN Buffers /\ Buffers[t] = Buffered(t)
  BY BuffersAreTyped DEF Held, Buffers
<1>3. Buffers[t] \in Seq(Held)
  BY <1>2 DEF Family
<1>4. Occurrences(m, Buffers[t]) = 0
  <2>1. Occurrences(m, Buffers[t]) <= Queued(m, Buffers)
    BY <1>2, QueuedIsNatural
  <2>2. Occurrences(m, Buffers[t]) \in Nat
    BY <1>3, PlacesAreFinite
  <2> QED
    BY <1>1, <2>1, <2>2
<1> QED
  BY <1>2, <1>3, <1>4, OccursSomewhere

(* It is in no line.                                                         *)
LEMMA NotInLine ==
    ASSUME WorkerTypes, Solo, WithinQuota, NEW m \in Mbufs, pool[m] > 0,
           NEW t \in Tenants
    PROVE  /\ Waiting(t) \in Seq(Held \ {m}) /\ InHand(t) \in Seq(Held \ {m})
           /\ OnRing(t) \in Seq(Held \ {m})
           /\ \A i \in DOMAIN LineOf(t) : LineOf(t)[i] # m
<1> DEFINE others == Held \ {m}
<1>1. Copies(m) = 1
  BY CopiesWithinQuota
<1>2. PICK w \in Workers : w = wid[t]
  BY DEF WorkerTypes, TypeOK
<1>3. pkts[w] \in Seq(others) /\ rings[w] \in Seq(others)
  <2>1. /\ pkts[w] \in Seq(Mbufs) /\ rings[w] \in Seq(Mbufs)
        /\ \A i \in DOMAIN rings[w] : rings[w][i] # m
        /\ \A i \in DOMAIN pkts[w] : pkts[w][i] # m
    BY <1>1, OnlyInPool DEF WorkerTypes, TypeOK
  <2>2. /\ \A i \in DOMAIN rings[w] : rings[w][i] \in others
        /\ \A i \in DOMAIN pkts[w] : pkts[w][i] \in others
    BY <2>1 DEF Held
  <2> QED
    BY <2>1, <2>2
<1> HIDE DEF others
<1>4. InHand(t) \in Seq(others) /\ OnRing(t) \in Seq(others)
  BY <1>2, <1>3, SelectType DEF InHand, OnRing, Of
<1>5. Waiting(t) \in Seq(others)
  <2>1. CASE \E v \in Workers : Serves(v, t)
    BY <2>1 DEF Waiting
  <2>2. CASE ~\E v \in Workers : Serves(v, t)
    <3>1. Waiting(t) = Front(t, num[t]) /\ Buffered(t) = Front(t, num[t])
      BY <2>2 DEF Waiting, Buffered
    <3>2. Waiting(t) \in Seq(Held)
      BY LineParts
    <3>3. \A i \in DOMAIN Waiting(t) : Waiting(t)[i] # m
      BY <1>1, <3>1, NotBuffered
    <3>4. \A i \in DOMAIN Waiting(t) : Waiting(t)[i] \in others
      BY <3>2, <3>3 DEF others
    <3> QED
      BY <3>2, <3>4
  <2> QED
    BY <2>1, <2>2
<1>6. \A i \in DOMAIN LineOf(t) : LineOf(t)[i] # m
  <2>1. LineOf(t) = (Waiting(t) \o InHand(t)) \o OnRing(t)
    BY LineParts
  <2>2. LineOf(t) \in Seq(others)
    BY <1>4, <1>5, <2>1
  <2>3. \A i \in DOMAIN LineOf(t) : LineOf(t)[i] \in others
    BY <2>2
  <2> QED
    BY <2>3 DEF others
<1> QED
  BY <1>4, <1>5, <1>6 DEF others

(* A received packet joins the end of its tenant's line; the lines of the    *)
(* others stay.                                                              *)
LEMMA ArriveJoins ==
    ASSUME WorkerTypes, Solo, WithinQuota, NEW m \in Mbufs, NEW t \in Tenants,
           Arrive(m, t), NEW u \in Tenants
    PROVE  LineOf(u)' = IF u = t THEN Append(LineOf(u), m) ELSE LineOf(u)
<1>1. PICK w \in Workers : w = wid[t]
  BY DEF WorkerTypes, TypeOK
<1>2. PICK v \in Workers : v = wid[u]
  BY DEF WorkerTypes, TypeOK
<1>3. /\ pool[m] > 0 /\ tos' = [tos EXCEPT ![m] = t]
      /\ rings' = [rings EXCEPT ![w] = Append(rings[w], m)]
      /\ UNCHANGED <<wid, pkts, pc, tid, reg, buffer_slot, num>>
  BY <1>1 DEF Arrive, Enqueue, bufferVars
<1>4. /\ rings \in [Workers -> Seq(Mbufs)] /\ pkts \in [Workers -> Seq(Mbufs)]
      /\ tos \in [Mbufs -> Tenants]
  BY DEF WorkerTypes, TypeOK
<1> DEFINE Now == {x \in Mbufs : tos[x] = u}
           After == {x \in Mbufs : tos'[x] = u}
<1>5. ASSUME NEW s, s \in Seq(Mbufs), \A i \in DOMAIN s : s[i] # m
      PROVE  Select(s, After) = Select(s, Now)
  <2>1. Len(s) \in Nat /\ \A i \in 1 .. Len(s) : s[i] \in Now <=> s[i] \in After
    BY <1>3, <1>4, <1>5
  <2> HIDE DEF Now, After
  <2> QED
    BY <2>1, SelectSame
<1>6. m \in After <=> u = t
  BY <1>3, <1>4
<1>7. /\ InHand(u) = Select(pkts[v], Now) /\ OnRing(u) = Select(rings[v], Now)
      /\ InHand(u)' = Select(pkts[v], After) /\ OnRing(u)' = Select(rings'[v], After)
  BY <1>2, <1>3 DEF InHand, OnRing, Of
<1> HIDE DEF Now, After
<1>8. /\ \A i \in DOMAIN rings[v] : rings[v][i] # m
      /\ \A i \in DOMAIN pkts[v] : pkts[v][i] # m
  BY <1>3, OnlyInPool, CopiesWithinQuota
<1>9. InHand(u)' = InHand(u) /\ Select(rings[v], After) = OnRing(u)
  BY <1>4, <1>5, <1>7, <1>8
<1>10. Waiting(u)' = Waiting(u)
  <2>1. \A x \in Workers : Serves(x, u)' <=> Serves(x, u)
    BY <1>3 DEF Serves
  <2> QED
    BY <1>3, <2>1, WaitingStays
<1>11. /\ LineOf(u) = (Waiting(u) \o InHand(u)) \o OnRing(u)
       /\ LineOf(u)' = (Waiting(u)' \o InHand(u)') \o OnRing(u)'
       /\ Waiting(u) \in Seq(Held) /\ InHand(u) \in Seq(Held)
       /\ OnRing(u) \in Seq(Held)
  BY LineParts DEF LineOf, Waiting, InHand, OnRing
<1>12. CASE v = w
  <2>1. PICK ring : ring = rings[w] /\ ring \in Seq(Mbufs)
    BY <1>4
  <2>2. PICK one : one = <<m>> /\ one \in Seq(Mbufs)
    <3>1. <<m>> \in Seq(Mbufs)
      OBVIOUS
    <3> QED
      BY <3>1
  <2>3. Append(ring, m) = ring \o one
    BY <2>1, <2>2, AppendIsConcat
  <2>4. Select(ring \o one, After) = Select(ring, After) \o Select(one, After)
    <3>1. ring \in Seq(Mbufs) /\ one \in Seq(Mbufs)
            => Select(ring \o one, After) = Select(ring, After) \o Select(one, After)
      BY SelectOfConcat
    <3> QED
      BY <2>1, <2>2, <3>1
  <2>5. Select(one, After) = IF u = t THEN one ELSE <<>>
    BY <1>6, <2>2, SelectOfOne
  <2>6. OnRing(u)' = OnRing(u) \o (IF u = t THEN one ELSE <<>>)
    BY <1>3, <1>4, <1>7, <1>9, <1>12, <2>1, <2>3, <2>4, <2>5
  <2>7. CASE u = t
    <3>1. PICK front : front = Waiting(u) \o InHand(u)
      OBVIOUS
    <3>2. front \in Seq(Held)
      BY <1>11, <3>1
    <3>3. PICK back : back = OnRing(u) /\ back \in Seq(Held)
      BY <1>11
    <3>4. m \in Held
      BY DEF Held
    <3>5. Append(front \o back, m) = front \o Append(back, m)
      <4>1. PICK x : x = m /\ x \in Held
        BY <3>4
      <4>2. front \in Seq(Held) /\ back \in Seq(Held) /\ x \in Held
        BY <3>2, <3>3, <4>1
      <4>3. Append(front \o back, x) = front \o Append(back, x)
        BY <4>2, AppendToConcat, Z3
      <4> QED
        BY <4>1, <4>3
    <3>6. Append(back, m) = back \o one
      <4>1. Append(back, m) = back \o <<m>>
        BY <3>3, <3>4, AppendIsConcat
      <4> QED
        BY <2>2, <4>1
    <3>7. OnRing(u)' = Append(back, m)
      BY <2>6, <2>7, <3>3, <3>6
    <3> QED
      BY <1>9, <1>10, <1>11, <2>7, <3>1, <3>3, <3>5, <3>7
  <2>8. CASE u # t
    <3>1. OnRing(u)' = OnRing(u)
      <4>1. OnRing(u)' = OnRing(u) \o <<>>
        BY <2>6, <2>8
      <4>2. OnRing(u) \o <<>> = OnRing(u)
        BY <1>11, ConcatEmptySeq
      <4> QED
        BY <4>1, <4>2
    <3> QED
      BY <1>9, <1>10, <1>11, <2>8, <3>1
  <2> QED
    BY <2>7, <2>8
<1>13. CASE v # w
  <2>1. OnRing(u)' = OnRing(u) /\ u # t
    BY <1>1, <1>2, <1>3, <1>4, <1>7, <1>9, <1>13
  <2> QED
    BY <1>9, <1>10, <1>11, <2>1
<1> QED
  BY <1>12, <1>13

(* The lines start empty.                                                    *)
LEMMA InitLine == Init => Line!Init
<1> SUFFICES ASSUME Init, NEW t \in Tenants PROVE LineOf(t) = <<>>
  BY DEF Line!Init
<1>1. /\ \A w \in Workers : ~Serves(w, t)
      /\ num[t] = 0 /\ wid[t] \in Workers
      /\ pkts[wid[t]] = <<>> /\ rings[wid[t]] = <<>>
  BY WorkerAssumption DEF Init, Serves
<1>2. Waiting(t) = <<>>
  BY <1>1 DEF Waiting, Front
<1>3. InHand(t) = <<>> /\ OnRing(t) = <<>>
  BY <1>1, SelectOfNone DEF InHand, OnRing, Of
<1>4. LineOf(t) = (Waiting(t) \o InHand(t)) \o OnRing(t)
  BY DEF LineOf, Waiting, InHand, OnRing
<1> QED
  BY <1>2, <1>3, <1>4

(* A step of a worker serves a batch or moves no line.                       *)
LEMMA StepServes ==
    ASSUME WorkerTypes, Solo, Settled, Stamped, NEW w \in Workers, Step(w)
    PROVE  Line!Next \/ \A u \in Tenants : LineOf(u)' = LineOf(u)
<1>1. CASE Handler(w)
  <2>1. PICK t \in Tenants : t = tid[w]
    BY DEF WorkerTypes, TypeOK
  <2>2. \A u \in Tenants :
           /\ u = t => /\ Len(LineOf(u)) >= MAX_PKT_BUFFER
                       /\ LineOf(u)' = SubSeq(LineOf(u), MAX_PKT_BUFFER + 1,
                                              Len(LineOf(u)))
           /\ u # t => LineOf(u)' = LineOf(u)
    BY <1>1, <2>1, HandlerServes
  <2>3. Line!Serve(t)
    BY <2>2 DEF Line!Serve
  <2> QED
    BY <2>3 DEF Line!Next
<1>2. ASSUME ~Handler(w), NEW u \in Tenants
      PROVE  LineOf(u)' = LineOf(u)
  BY <1>2, QuietStep, DequeueKeepsLines, WriteNumKeepsLines DEF Step
<1> QED
  BY <1>1, <1>2

(* A step of the system is a step of the lines or a stutter.                 *)
LEMMA StepLine ==
    ASSUME MayMove = {}, MayExceed = {}, BoundInvariant, [Next]_vars
    PROVE  Line!Next \/ \A u \in Tenants : LineOf(u)' = LineOf(u)
<1>1. WorkerTypes /\ Solo /\ WithinQuota /\ Settled /\ Stamped
  BY DEF BoundInvariant, WorkerInvariant
<1>2. ASSUME NEW m \in Mbufs, NEW t \in Tenants, Arrive(m, t)
      PROVE  Line!Next
  <2>1. pool[m] > 0
    BY <1>2 DEF Arrive, Enqueue
  <2>2. \A u \in Tenants :
           LineOf(u)' = IF u = t THEN Append(LineOf(u), m) ELSE LineOf(u)
    BY <1>1, <1>2, ArriveJoins
  <2>3. ~Line!InLine(m)
    <3>1. \A u \in Tenants : \A i \in DOMAIN LineOf(u) : LineOf(u)[i] # m
      BY <1>1, <2>1, NotInLine
    <3> QED
      BY <3>1 DEF Line!InLine
  <2>4. Line!Join(m, t)
    BY <2>2, <2>3 DEF Line!Join
  <2> QED
    BY <2>4 DEF Line!Next
<1>3. ASSUME NEW t \in Tenants, NEW w \in Workers, Rebind(t, w)
      PROVE  FALSE
  BY <1>3 DEF Rebind
<1>4. ASSUME NEW w \in Workers, Step(w)
      PROVE  Line!Next \/ \A u \in Tenants : LineOf(u)' = LineOf(u)
  BY <1>1, <1>4, StepServes
<1>5. CASE UNCHANGED vars
  BY <1>5 DEF vars, LineOf, Serves, Front, Of
<1>6. ASSUME NEW m \in Mbufs, NEW t \in Tenants,
             ArriveOverQuota(m, t) \/ Overwrite(m, t)
      PROVE  FALSE
  BY <1>1, <1>6, NoOverwrite DEF ArriveOverQuota
<1> QED
  BY <1>2, <1>3, <1>4, <1>5, <1>6 DEF Next

(* As long as the dispatcher moves no tenant and none exceeds its quota, the *)
(* workers implement the line of each tenant, whatever the batch, the buffer *)
(* and the number of workers and tenants: a received packet joins the end of *)
(* its tenant's line, the network function is called with the first full     *)
(* batch of a line, and only what it has been called with leaves.            *)
THEOREM LinesAreServed ==
    ASSUME MayMove = {}, MayExceed = {}
    PROVE  Spec => ServesTheLine
<1>1. Spec => []BoundInvariant
  <2>1. BoundInvariant /\ [Next]_vars => BoundInvariant'
    BY StepBound
  <2> QED
    BY <2>1, InitBound, PTL DEF Spec
<1>2. BoundInvariant /\ [Next]_vars
        => [Line!Next]_([t \in Tenants |-> LineOf(t)])
  <2> SUFFICES ASSUME BoundInvariant, [Next]_vars
               PROVE  [Line!Next]_([t \in Tenants |-> LineOf(t)])
    OBVIOUS
  <2>1. CASE Line!Next
    BY <2>1
  <2>2. CASE \A u \in Tenants : LineOf(u)' = LineOf(u)
    BY <2>2
  <2> QED
    BY <2>1, <2>2, StepLine
<1> QED
  BY <1>1, <1>2, InitLine, PTL DEF Spec, ServesTheLine, Line!Spec

=============================================================================
