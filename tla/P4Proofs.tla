------------------------------- MODULE P4Proofs -------------------------------
(* Proofs about P4Dispatcher for any number of contexts, tenants and         *)
(* workers, and any quotas and limits that satisfy its assumptions.          *)
EXTENDS P4Dispatcher, TLAPS

-----------------------------------------------------------------------------
(* Types *)

(* The constants give every range an element to start from. *)
LEMMA Ranges ==
    /\ 0 \in Tenants /\ 0 \in Workers /\ 0 \in Slots
    /\ 0 \in Word /\ 1 \in Word /\ U32 - 1 \in Word
    /\ \A n \in Int : n % U32 \in Word
    /\ \A n \in Word : n \in Int
<1>1. U32 \in Nat /\ U32 > 1
  BY P4WidthAssumption
<1>2. \A n \in Int : n % U32 \in Word
  BY <1>1, SMT DEF Word
<1>3. \A n \in Word : n \in Int
  BY <1>1 DEF Word
<1>4. 0 \in Tenants /\ 0 \in Workers /\ 0 \in Slots
  BY P4Assumption DEF Tenants, Workers, Slots
<1>5. 0 \in Word /\ 1 \in Word /\ U32 - 1 \in Word
  BY <1>1 DEF Word
<1> QED
  BY <1>2, <1>3, <1>4, <1>5

(* Assigning a column of a row leaves a table in its type. *)
LEMMA TenantColumns ==
    ASSUME tenants \in TenantRows, NEW t \in Tenants,
           NEW s \in Slots, NEW n \in Word, NEW w \in Workers
    PROVE  /\ [tenants EXCEPT ![t].slot = s] \in TenantRows
           /\ [tenants EXCEPT ![t].nb = n] \in TenantRows
           /\ [tenants EXCEPT ![t].wid = w] \in TenantRows
<1> DEFINE Row == [slot : Slots, nb : Word, wid : Workers]
<1>1. tenants[t] \in Row
  BY DEF TenantRows
<1>2. /\ [tenants[t] EXCEPT !.slot = s] \in Row
      /\ [tenants[t] EXCEPT !.nb = n] \in Row
      /\ [tenants[t] EXCEPT !.wid = w] \in Row
  BY <1>1
<1> HIDE DEF Row
<1>3. TenantRows = [Tenants -> Row]
  BY DEF TenantRows, Row
<1> QED
  BY <1>2, <1>3

LEMMA WorkerColumns ==
    ASSUME workers \in WorkerRows, NEW w \in Workers, NEW s \in Slots, NEW n \in Word
    PROVE  /\ [workers EXCEPT ![w] = [workers[w] EXCEPT !.slot = s]] \in WorkerRows
           /\ [workers EXCEPT ![w].load = n] \in WorkerRows
           /\ [workers EXCEPT ![w] = [workers[w] EXCEPT !.last = n]] \in WorkerRows
           /\ [workers EXCEPT ![w] = [workers[w] EXCEPT !.times = n]] \in WorkerRows
<1> DEFINE Row == [slot : Slots, load : Word, last : Word, times : Word]
<1>1. workers[w] \in Row
  BY DEF WorkerRows
<1>2. /\ [workers[w] EXCEPT !.slot = s] \in Row
      /\ [workers[w] EXCEPT !.load = n] \in Row
      /\ [workers[w] EXCEPT !.last = n] \in Row
      /\ [workers[w] EXCEPT !.times = n] \in Row
  BY <1>1
<1> HIDE DEF Row
<1>3. WorkerRows = [Workers -> Row]
  BY DEF WorkerRows, Row
<1> QED
  BY <1>2, <1>3

(* So does going on to the next access, with or without a register loaded.   *)
LEMMA Jumps ==
    ASSUME ctx \in [Contexts -> Registers], NEW c \in Contexts, NEW pc \in Pcs,
           NEW v \in Word
    PROVE  /\ Goto(c, pc) => ctx' \in [Contexts -> Registers]
           /\ Load(c, v, pc) => ctx' \in [Contexts -> Registers]
<1>1. ctx[c] \in Registers
  OBVIOUS
<1>2. /\ [ctx[c] EXCEPT !.pc = pc] \in Registers
      /\ [ctx[c] EXCEPT !.value = v, !.pc = pc] \in Registers
  BY <1>1 DEF Registers
<1>3. /\ Goto(c, pc) => ctx' = [ctx EXCEPT ![c] = [ctx[c] EXCEPT !.pc = pc]]
      /\ Load(c, v, pc) =>
           ctx' = [ctx EXCEPT ![c] = [ctx[c] EXCEPT !.value = v, !.pc = pc]]
  BY DEF Goto, Load
<1> QED
  BY <1>2, <1>3

(* The registers of a context that is free. *)
LEMMA IdleType == Idle \in Registers
<1>1. 0 \in 0 .. MAX_WORKERS
  BY P4Assumption
<1> QED
  BY <1>1, Ranges DEF Idle, Registers, Pcs

(* A step that goes on, without touching the tables, keeps the types.        *)
LEMMA ReadsKeepTypes ==
    ASSUME P4TypeOK, ReadOnly, ctx' \in [Contexts -> Registers]
    PROVE  P4TypeOK'
BY DEF P4TypeOK, ReadOnly, Running, SameTenants, SameWorkers

(* One context at work leaves registers, tables and history in their types.  *)
LEMMA DispatchKeepsTypes ==
    ASSUME P4TypeOK, NEW c \in Contexts, Dispatch(c)
    PROVE  P4TypeOK'
<1> USE DEF P4TypeOK
<1> DEFINE r == ctx[c]
<1>0. /\ r \in Registers
      /\ r.tid \in Tenants /\ r.timeslot \in Slots /\ r.cur \in Slots
      /\ r.nb \in Word /\ r.wid \in Workers /\ r.value \in Word
      /\ r.i \in 0 .. MAX_WORKERS /\ r.minLoad \in Word /\ r.minWorker \in Workers
  BY DEF Registers
<1>a. \A t \in Tenants : /\ tenants[t].slot \in Slots /\ tenants[t].nb \in Word
                         /\ tenants[t].wid \in Workers
  BY DEF TenantRows
<1>b. \A w \in Workers : /\ workers[w].load \in Word /\ workers[w].last \in Word
                         /\ workers[w].times \in Word
  BY DEF WorkerRows
<1>c. /\ (r.value + 1) % U32 \in Word /\ NextNb(c) \in Word
      /\ MinLoad(c) \in Word /\ Less(c) \in Word
  BY <1>0, Ranges DEF NextNb, MinLoad, Less
<1>d. \A pc \in Pcs : [r EXCEPT !.pc = pc] \in Registers
  BY <1>0 DEF Registers
<1>1. CASE ReadTidSlot(c)
  <2>1. [r EXCEPT !.cur = tenants[r.tid].slot, !.pc = "tid_nb"] \in Registers
    BY <1>0, <1>a DEF Registers, Pcs
  <2> QED
    BY <2>1, <1>1, ReadsKeepTypes DEF ReadTidSlot
<1>2. CASE ReadNb(c)
  <2>1. [r EXCEPT !.nb = tenants[r.tid].nb, !.pc = "tid_wid"] \in Registers
    BY <1>0, <1>a DEF Registers, Pcs
  <2> QED
    BY <2>1, <1>2, ReadsKeepTypes DEF ReadNb
<1>3. CASE ReadWid(c)
  <2>1. \A pc \in {"open", "count"} :
          [r EXCEPT !.wid = tenants[r.tid].wid, !.pc = pc] \in Registers
    BY <1>0, <1>a DEF Registers, Pcs
  <2>2. ctx' \in [Contexts -> Registers]
    BY <2>1, <1>3 DEF ReadWid
  <2>3. crossed' \subseteq Workers
    BY <1>3, <1>0, <1>a DEF ReadWid
  <2> QED
    BY <2>2, <2>3, <1>3 DEF ReadWid, Running, SameTenants
<1>4. CASE Drop(c)
  <2>1. ctx' \in [Contexts -> Registers] /\ ~before'.alone
    BY <1>4, IdleType DEF Drop, Return, NotAlone
  <2> QED
    BY <2>1, <1>4 DEF Drop, SameTenants, SameWorkers
<1>5. CASE WriteNb(c)
  <2>1. ctx' \in [Contexts -> Registers]
    BY <1>5, Jumps, Ranges DEF WriteNb, Pcs
  <2>2. tenants' \in TenantRows
    <3>1. [tenants EXCEPT ![r.tid].nb = NextNb(c)] \in TenantRows
      BY <1>0, <1>c, TenantColumns, Ranges
    <3> QED
      BY <3>1, <1>5 DEF WriteNb
  <2>3. forwarded' \in [Tenants -> Nat]
    BY <1>5, <1>0 DEF WriteNb
  <2> QED
    BY <2>1, <2>2, <2>3, <1>5 DEF WriteNb, Running, SameWorkers
<1>6. CASE WriteTidSlot(c)
  <2>1. ctx' \in [Contexts -> Registers]
    BY <1>6, Jumps, Ranges DEF WriteTidSlot, Pcs
  <2>2. tenants' \in TenantRows
    BY <1>6, <1>0, TenantColumns, Ranges DEF WriteTidSlot
  <2> QED
    BY <2>1, <2>2, <1>6 DEF WriteTidSlot, Running, SameWorkers
<1>7. CASE WriteFirst(c)
  <2> USE <1>7 DEF WriteFirst, OpenCount
  <2>1. ctx' \in [Contexts -> Registers]
    BY Jumps, Ranges DEF Pcs
  <2>2. tenants' \in TenantRows
    BY <1>0, TenantColumns, Ranges
  <2>3. forwarded' \in [Tenants -> Nat] /\ mixed' \subseteq Tenants
    BY <1>0
  <2> QED
    BY <2>1, <2>2, <2>3 DEF Running, SameWorkers
<1>8. CASE ReadWidSlot(c)
  BY <1>8, Jumps, Ranges, ReadsKeepTypes DEF ReadWidSlot, Pcs
<1>9. CASE ReadClosed(c)
  BY <1>9, <1>0, <1>b, Jumps, ReadsKeepTypes DEF ReadClosed, Pcs
<1>s. ASSUME NEW w \in Workers, NEW row, Store(c, w, row),
             [workers EXCEPT ![w] = row] \in WorkerRows,
             ctx' \in [Contexts -> Registers]
      PROVE  P4TypeOK'
  BY <1>s DEF Store, Running, SameTenants
<1>10. CASE WriteWidSlot(c)
  <2>1. ctx' \in [Contexts -> Registers]
    BY <1>10, Jumps, Ranges DEF WriteWidSlot, Pcs
  <2>2. [workers EXCEPT ![r.wid] = [workers[r.wid] EXCEPT !.slot = r.timeslot]]
          \in WorkerRows
    BY <1>0, WorkerColumns, Ranges
  <2> QED
    BY <2>1, <2>2, <1>0, <1>s, <1>10 DEF WriteWidSlot
<1>11. CASE WriteNoLoad(c)
  <2> USE <1>11 DEF WriteNoLoad, RestartLoad
  <2>1. ctx' \in [Contexts -> Registers]
    BY Jumps, Ranges DEF Pcs
  <2>2. workers' \in WorkerRows
    BY <1>0, WorkerColumns, Ranges
  <2>3. charged' \in [Workers -> Word] /\ crossed' \subseteq Workers
    BY <1>0, Ranges
  <2> QED
    BY <2>1, <2>2, <2>3 DEF Running, SameTenants
<1>12. CASE WriteClosed(c)
  <2>1. ctx' \in [Contexts -> Registers]
    BY <1>12, Jumps, Ranges DEF WriteClosed, Pcs
  <2>2. [workers EXCEPT ![r.wid] = [workers[r.wid] EXCEPT !.last = r.value]]
          \in WorkerRows
    BY <1>0, WorkerColumns, Ranges
  <2> QED
    BY <2>1, <2>2, <1>0, <1>s, <1>12 DEF WriteClosed
<1>13. CASE ReadLast(c)
  BY <1>13, Jumps, Ranges, ReadsKeepTypes DEF ReadLast, Pcs
<1>14. CASE WriteCalm(c)
  <2>1. ctx' \in [Contexts -> Registers]
    BY <1>14, Jumps, Ranges DEF WriteCalm, Pcs
  <2>2. [workers EXCEPT ![r.wid] = [workers[r.wid] EXCEPT !.times = 0]] \in WorkerRows
    BY <1>0, WorkerColumns, Ranges
  <2> QED
    BY <2>1, <2>2, <1>0, <1>s, <1>14 DEF WriteCalm
<1>15. CASE ReadTimes(c)
  BY <1>15, <1>0, <1>b, Jumps, ReadsKeepTypes DEF ReadTimes, Pcs
<1>16. CASE WriteStreak(c)
  <2>1. [r EXCEPT !.pc = "scan", !.i = 0, !.minLoad = U32 - 1] \in Registers
    <3>1. 0 \in 0 .. MAX_WORKERS /\ U32 - 1 \in Word
      BY P4Assumption, Ranges
    <3> QED
      BY <1>0, <3>1 DEF Registers, Pcs
  <2>2. ctx' \in [Contexts -> Registers]
    BY <2>1, <1>16 DEF WriteStreak
  <2>3. [workers EXCEPT ![r.wid] =
           [workers[r.wid] EXCEPT !.times = (r.value + 1) % U32]] \in WorkerRows
    BY <1>0, <1>c, WorkerColumns, Ranges
  <2> QED
    BY <2>2, <2>3, <1>0, <1>s, <1>16 DEF WriteStreak
<1>17. CASE Scan(c)
  <2>1. r.i \in Workers /\ r.i + 1 \in 0 .. MAX_WORKERS
    <3>1. r.i < MAX_WORKERS
      BY <1>17 DEF Scan
    <3> QED
      BY <3>1, <1>0, P4Assumption DEF Workers
  <2>2. ASSUME NEW m \in Word, NEW w \in Workers
        PROVE  [r EXCEPT !.i = r.i + 1, !.minLoad = m, !.minWorker = w] \in Registers
    BY <1>0, <2>1 DEF Registers
  <2>3. /\ (IF Lower(c) THEN workers[r.i].last ELSE r.minLoad) \in Word
        /\ (IF Lower(c) THEN r.i ELSE r.minWorker) \in Workers
    BY <1>0, <1>b, <2>1
  <2>4. ctx' \in [Contexts -> Registers]
    BY <2>2, <2>3, <1>17 DEF Scan
  <2> QED
    BY <2>4, <1>17, ReadsKeepTypes DEF Scan
<1>18. CASE EndScan(c)
  <2>1. Targets(c) \subseteq Workers
    BY <1>0 DEF Targets
  <2>2. ASSUME NEW w \in Workers, NEW pc \in {"bind", "load"}
        PROVE  [r EXCEPT !.pc = pc, !.minLoad = MinLoad(c), !.minWorker = w] \in Registers
    BY <1>0, <1>c DEF Registers, Pcs
  <2>3. PICK w \in Workers :
          ctx' = [ctx EXCEPT ![c] =
                    [r EXCEPT !.pc = IF MinLoad(c) < MaxLoad THEN "bind" ELSE "load",
                              !.minLoad = MinLoad(c), !.minWorker = w]]
    BY <2>1, <1>18 DEF EndScan
  <2>4. ctx' \in [Contexts -> Registers]
    <3> DEFINE pc == IF MinLoad(c) < MaxLoad THEN "bind" ELSE "load"
    <3>1. pc \in {"bind", "load"}
      OBVIOUS
    <3> HIDE DEF pc
    <3>2. [r EXCEPT !.pc = pc, !.minLoad = MinLoad(c), !.minWorker = w] \in Registers
      BY <3>1, <2>2
    <3> QED
      BY <3>2, <2>3 DEF pc
  <2> QED
    BY <2>4, <1>18, ReadsKeepTypes DEF EndScan
<1>19. CASE WriteWid(c)
  <2>1. ctx' \in [Contexts -> Registers]
    BY <1>19, Jumps, Ranges DEF WriteWid, Pcs
  <2>2. tenants' \in TenantRows
    BY <1>19, <1>0, TenantColumns, Ranges DEF WriteWid
  <2> QED
    BY <2>1, <2>2, <1>19 DEF WriteWid, Running, SameWorkers
<1>20. CASE WriteTarget(c)
  <2>1. ctx' \in [Contexts -> Registers]
    BY <1>20, Jumps, Ranges DEF WriteTarget, Pcs
  <2>2. [workers EXCEPT ![r.minWorker] =
           [workers[r.minWorker] EXCEPT !.last = r.minLoad]] \in WorkerRows
    BY <1>0, WorkerColumns, Ranges
  <2> QED
    BY <2>1, <2>2, <1>0, <1>s, <1>20 DEF WriteTarget
<1>21. CASE ReadRelief(c)
  BY <1>21, <1>0, <1>b, Jumps, ReadsKeepTypes DEF ReadRelief, Pcs
<1>22. CASE WriteRelief(c)
  <2>1. ctx' \in [Contexts -> Registers]
    BY <1>22, Jumps, Ranges DEF WriteRelief, Pcs
  <2>2. [workers EXCEPT ![r.wid] = [workers[r.wid] EXCEPT !.last = Less(c)]]
          \in WorkerRows
    BY <1>0, <1>c, WorkerColumns, Ranges
  <2> QED
    BY <2>1, <2>2, <1>0, <1>s, <1>22 DEF WriteRelief
<1>23. CASE ReadLoad(c)
  BY <1>23, <1>0, <1>b, Jumps, ReadsKeepTypes DEF ReadLoad, Pcs
<1>24. CASE WriteLoad(c)
  <2>1. ctx' \in [Contexts -> Registers] /\ ~before'.alone
    BY <1>24, IdleType DEF WriteLoad, Return, NotAlone
  <2>2. workers' \in WorkerRows
    BY <1>24, <1>0, <1>c, WorkerColumns, Ranges DEF WriteLoad
  <2>3. charged' \in [Workers -> Word]
    <3>1. \A w \in Workers : (charged[w] + 1) % U32 \in Word
      BY Ranges
    <3> QED
      BY <3>1, <1>24, <1>0 DEF WriteLoad
  <2> QED
    BY <2>1, <2>2, <2>3, <1>24 DEF WriteLoad, SameTenants
<1> QED
  BY <1>1, <1>2, <1>3, <1>4, <1>5, <1>6, <1>7, <1>8, <1>9, <1>10, <1>11, <1>12,
     <1>13, <1>14, <1>15, <1>16, <1>17, <1>18, <1>19, <1>20, <1>21, <1>22,
     <1>23, <1>24 DEF Dispatch

(* So does a packet that arrives at a free context.                          *)
LEMMA ArriveKeepsTypes ==
    ASSUME P4TypeOK, NEW c \in Contexts, NEW t \in Tenants, NEW s \in Slots,
           Arrive(c, t, s)
    PROVE  P4TypeOK'
<1> USE Ranges DEF P4TypeOK, Arrive
<1>1. [Idle EXCEPT !.pc = "tid_slot", !.tid = t, !.timeslot = s] \in Registers
  BY IdleType DEF Registers, Pcs
<1>2. ctx' \in [Contexts -> Registers]
  BY <1>1
<1>3. before'.alone => before'.tenants \in TenantRows /\ before'.workers \in WorkerRows
  BY DEF NotAlone
<1>4. arrived' \in 0 .. PacketBound
  BY P4WidthAssumption
<1> QED
  BY <1>2, <1>3, <1>4 DEF SameWorkers

(* Every row, register and transfer register keeps its type, however the     *)
(* contexts interleave: P4TypeOK (plugin.c:74-168).                          *)
THEOREM P4TypeCorrect == P4Spec => []P4TypeOK
<1>1. P4Init => P4TypeOK
  <2> SUFFICES ASSUME P4Init PROVE P4TypeOK
    OBVIOUS
  <2> USE Ranges, P4Assumption, P4WidthAssumption DEF P4Init
  <2>1. tenants \in TenantRows /\ workers \in WorkerRows
    BY DEF TenantRows, WorkerRows
  <2> QED
    BY <2>1, IdleType DEF P4TypeOK, NotAlone
<1>2. P4TypeOK /\ [P4Next]_p4Vars => P4TypeOK'
  <2> SUFFICES ASSUME P4TypeOK, [P4Next]_p4Vars PROVE P4TypeOK'
    OBVIOUS
  <2>1. CASE UNCHANGED p4Vars
    BY <2>1 DEF P4TypeOK, p4Vars, tables, history
  <2>2. CASE P4Next
    BY <2>2, DispatchKeepsTypes, ArriveKeepsTypes DEF P4Next
  <2> QED
    BY <2>1, <2>2
<1> QED
  BY <1>1, <1>2, PTL DEF P4Spec

-----------------------------------------------------------------------------
(* Counts and loads *)

Early == {"idle", "tid_slot", "tid_nb", "tid_wid"}
Using(c, w) == ctx[c].pc \notin Early /\ ctx[c].wid = w

\* What one context at work leaves alone.
Frame(c) ==
    /\ \A d \in Contexts \ {c} : ctx'[d] = ctx[d]
    /\ ctx'[c].pc # "idle" => ctx'[c].tid = ctx[c].tid
    /\ \A t \in Tenants \ {ctx[c].tid} :
          /\ tenants'[t].nb = tenants[t].nb
          /\ forwarded'[t] = forwarded[t]
          /\ t \in mixed' <=> t \in mixed
    /\ \A w \in Workers :
          ~ Using(c, w) /\ ~ Using(c, w)' =>
            /\ workers'[w].load = workers[w].load
            /\ charged'[w] = charged[w]
            /\ w \in crossed' <=> w \in crossed

\* The accesses that have a part in the count of a tenant, or in a load.
Counting(c) == ReadNb(c) \/ ReadWid(c) \/ WriteNb(c) \/ WriteFirst(c)
Charging(c) == ReadWid(c) \/ WriteNoLoad(c) \/ ReadLoad(c) \/ WriteLoad(c)

QuietCount(c) ==
    /\ \A t \in Tenants : tenants'[t].nb = tenants[t].nb
    /\ UNCHANGED <<forwarded, mixed>>
    /\ ctx'[c].pc \notin {"tid_wid", "count"}

QuietLoad(c) ==
    /\ \A w \in Workers : workers'[w].load = workers[w].load
    /\ UNCHANGED <<charged, crossed>>
    /\ ctx'[c].pc # "charge"
    /\ \A w \in Workers : Using(c, w)' => Using(c, w)

LEMMA DispatchFrame ==
    ASSUME P4TypeOK, NEW c \in Contexts, Dispatch(c)
    PROVE  /\ ctx[c].pc # "idle"
           /\ Frame(c)
           /\ Counting(c) \/ QuietCount(c)
           /\ Charging(c) \/ QuietLoad(c)
<1> USE DEF P4TypeOK, Running, SameTenants, SameWorkers, ReadOnly, At, Goto, Load, Store,
        Frame, Using, Early, QuietCount, QuietLoad, Counting, Charging
<1>0. /\ ctx \in [Contexts -> Registers] /\ ctx[c] \in Registers
      /\ ctx[c].tid \in Tenants /\ ctx[c].wid \in Workers
      /\ ctx[c].minWorker \in Workers
  BY DEF Registers
<1>a. /\ DOMAIN tenants = Tenants
      /\ \A t \in Tenants : tenants[t] = [slot |-> tenants[t].slot,
                                nb |-> tenants[t].nb, wid |-> tenants[t].wid]
  BY DEF TenantRows
<1>b. /\ DOMAIN workers = Workers
      /\ \A w \in Workers : workers[w] = [slot |-> workers[w].slot,
                  load |-> workers[w].load, last |-> workers[w].last,
                  times |-> workers[w].times]
  BY DEF WorkerRows
<1>1. CASE ReadTidSlot(c)
  BY <1>0, <1>a, <1>b, <1>1 DEF ReadTidSlot, Registers
<1>2. CASE ReadNb(c)
  BY <1>0, <1>a, <1>b, <1>2 DEF ReadNb, Registers
<1>3. CASE ReadWid(c)
  BY <1>0, <1>a, <1>b, <1>3 DEF ReadWid, Registers
<1>4. CASE Drop(c)
  BY <1>0, <1>a, <1>b, <1>4 DEF Drop, Return, Idle, Registers
<1>5. CASE WriteNb(c)
  BY <1>0, <1>a, <1>b, <1>5 DEF WriteNb, Registers
<1>6. CASE WriteTidSlot(c)
  BY <1>0, <1>a, <1>b, <1>6 DEF WriteTidSlot, Registers
<1>7. CASE WriteFirst(c)
  BY <1>0, <1>a, <1>b, <1>7 DEF WriteFirst, OpenCount, Registers
<1>8. CASE ReadWidSlot(c)
  BY <1>0, <1>a, <1>b, <1>8 DEF ReadWidSlot, Registers
<1>9. CASE ReadClosed(c)
  BY <1>0, <1>a, <1>b, <1>9 DEF ReadClosed, Registers
<1>10. CASE WriteWidSlot(c)
  BY <1>0, <1>a, <1>b, <1>10 DEF WriteWidSlot, Registers
<1>11. CASE WriteNoLoad(c)
  BY <1>0, <1>a, <1>b, <1>11 DEF WriteNoLoad, RestartLoad, Registers
<1>12. CASE WriteClosed(c)
  BY <1>0, <1>a, <1>b, <1>12 DEF WriteClosed, Registers
<1>13. CASE ReadLast(c)
  BY <1>0, <1>a, <1>b, <1>13 DEF ReadLast, Registers
<1>14. CASE WriteCalm(c)
  BY <1>0, <1>a, <1>b, <1>14 DEF WriteCalm, Registers
<1>15. CASE ReadTimes(c)
  BY <1>0, <1>a, <1>b, <1>15 DEF ReadTimes, Registers
<1>16. CASE WriteStreak(c)
  BY <1>0, <1>a, <1>b, <1>16 DEF WriteStreak, Registers
<1>17. CASE Scan(c)
  BY <1>0, <1>a, <1>b, <1>17 DEF Scan, Registers
<1>18. CASE EndScan(c)
  BY <1>0, <1>a, <1>b, <1>18 DEF EndScan, Registers
<1>19. CASE WriteWid(c)
  BY <1>0, <1>a, <1>b, <1>19 DEF WriteWid, Registers
<1>20. CASE WriteTarget(c)
  BY <1>0, <1>a, <1>b, <1>20 DEF WriteTarget, Registers
<1>21. CASE ReadRelief(c)
  BY <1>0, <1>a, <1>b, <1>21 DEF ReadRelief, Registers
<1>22. CASE WriteRelief(c)
  BY <1>0, <1>a, <1>b, <1>22 DEF WriteRelief, Registers
<1>23. CASE ReadLoad(c)
  BY <1>0, <1>a, <1>b, <1>23 DEF ReadLoad, Registers
<1>24. CASE WriteLoad(c)
  BY <1>0, <1>a, <1>b, <1>24 DEF WriteLoad, Return, Idle, Registers
<1> QED
  BY <1>1, <1>2, <1>3, <1>4, <1>5, <1>6, <1>7, <1>8, <1>9, <1>10, <1>11, <1>12,
     <1>13, <1>14, <1>15, <1>16, <1>17, <1>18, <1>19, <1>20, <1>21, <1>22,
     <1>23, <1>24 DEF Dispatch

-----------------------------------------------------------------------------
(* A tenant none of whose packets overlapped: only one context works for it, *)
(* and what that context read of the count is still there when it writes.    *)
CountOf(t) ==
    /\ tenants[t].nb = forwarded[t]
    /\ forwarded[t] <= MaxNb[t] \/ forwarded[t] = 1
    /\ \A c \in Contexts : ctx[c].pc # "idle" /\ ctx[c].tid = t =>
          /\ \A d \in Contexts : ctx[d].pc # "idle" /\ ctx[d].tid = t => d = c
          /\ ctx[c].pc \in {"tid_wid", "count"} => ctx[c].nb = tenants[t].nb
          /\ ctx[c].pc = "count" => NextNb(c) <= MaxNb[t]

CountInv == \A t \in Tenants \ mixed : CountOf(t)

LEMMA DispatchKeepsCounts ==
    ASSUME P4TypeOK, CountInv, NEW c \in Contexts, Dispatch(c)
    PROVE  CountInv'
<1> SUFFICES ASSUME NEW t \in Tenants, t \notin mixed'
             PROVE  CountOf(t)'
  BY DEF CountInv
<1>0. /\ ctx[c].pc # "idle"
      /\ Frame(c)
      /\ Counting(c) \/ QuietCount(c)
  BY DispatchFrame
<1>1. ctx[c] \in Registers /\ ctx[c].tid \in Tenants /\ ctx[c].nb \in Word
  BY DEF P4TypeOK, Registers
<1>2. CASE t # ctx[c].tid
  <2>1. /\ t \notin mixed
        /\ tenants'[t].nb = tenants[t].nb
        /\ forwarded'[t] = forwarded[t]
        /\ \A d \in Contexts \ {c} : ctx'[d] = ctx[d]
        /\ ctx'[c].pc # "idle" => ctx'[c].tid # t
    BY <1>0, <1>2 DEF Frame
  <2>2. CountOf(t)
    BY <2>1 DEF CountInv
  <2> QED
    BY <1>2, <2>1, <2>2 DEF CountOf, NextNb
<1>3. CASE t = ctx[c].tid /\ QuietCount(c)
  <2>1. /\ t \notin mixed
        /\ tenants'[t].nb = tenants[t].nb
        /\ forwarded'[t] = forwarded[t]
        /\ ctx'[c].pc \notin {"tid_wid", "count"}
    BY <1>3 DEF QuietCount
  <2>2. CountOf(t)
    BY <2>1 DEF CountInv
  <2> QED
    BY <1>0, <1>3, <2>1, <2>2 DEF CountOf, NextNb, Frame
<1>4. CASE t = ctx[c].tid /\ ReadNb(c)
  <2>1. /\ t \notin mixed /\ ctx'[c].pc = "tid_wid" /\ ctx'[c].nb = tenants[t].nb
        /\ UNCHANGED <<tenants, forwarded>>
    BY <1>4 DEF ReadNb, ReadOnly, SameTenants, P4TypeOK
  <2>2. CountOf(t)
    BY <2>1 DEF CountInv
  <2> QED
    BY <1>0, <1>4, <2>1, <2>2 DEF CountOf, NextNb, Frame
<1>5. CASE t = ctx[c].tid /\ ReadWid(c)
  <2>1. /\ t \notin mixed /\ UNCHANGED <<tenants, forwarded>>
        /\ ctx[c].pc = "tid_wid" /\ ctx'[c].nb = ctx[c].nb
        /\ ctx'[c].pc \in {"open", "count"}
        /\ ctx'[c].pc = "count" => ~ OverQuota(c)
    BY <1>5, <1>1 DEF ReadWid, SameTenants, At, P4TypeOK, Registers
  <2>2. CountOf(t)
    BY <2>1 DEF CountInv
  <2>3. ctx'[c].pc = "count" => NextNb(c)' <= MaxNb[t]
    <3>1. MaxNb[t] \in Nat /\ NextNb(c) \in Word
      BY <1>1, P4WidthAssumption, Ranges DEF NextNb
    <3> QED
      BY <1>5, <2>1, <3>1, P4WidthAssumption DEF OverQuota, NextNb, Word
  <2> QED
    BY <1>0, <1>5, <2>1, <2>2, <2>3 DEF CountOf, NextNb, Frame
<1>6. CASE t = ctx[c].tid /\ WriteNb(c)
  <2>1. /\ t \notin mixed /\ ctx[c].pc = "count" /\ ctx'[c].pc = "load"
        /\ tenants'[t].nb = NextNb(c) /\ forwarded'[t] = forwarded[t] + 1
    BY <1>6, <1>1 DEF WriteNb, At, Goto, P4TypeOK, TenantRows
  <2>2. CountOf(t)
    BY <2>1 DEF CountInv
  <2>3. NextNb(c) = forwarded[t] + 1 /\ forwarded'[t] <= MaxNb[t]
    <3>1. ctx[c].nb = forwarded[t] /\ NextNb(c) <= MaxNb[t]
      BY <1>0, <1>6, <2>1, <2>2 DEF CountOf
    <3>2. forwarded[t] + 1 < U32
      BY <1>1, <2>2, P4WidthAssumption DEF CountOf, P4TypeOK
    <3>3. NextNb(c) = forwarded[t] + 1
      BY <3>1, <3>2, P4WidthAssumption DEF NextNb, P4TypeOK
    <3> QED
      BY <3>1, <3>3, <2>1
  <2> QED
    BY <1>0, <1>6, <2>1, <2>2, <2>3 DEF CountOf, NextNb, Frame
<1>7. CASE t = ctx[c].tid /\ WriteFirst(c)
  <2>1. /\ ctx[c].pc = "first" /\ ctx'[c].pc = "wid_slot"
        /\ tenants'[t].nb = 1 /\ forwarded'[t] = 1
        /\ t \notin mixed \/ OnTenant(c, t) = {}
    BY <1>7, <1>1 DEF WriteFirst, OpenCount, At, Goto, P4TypeOK, TenantRows
  <2>2. \A d \in Contexts : ctx'[d].pc # "idle" /\ ctx'[d].tid = t => d = c
    <3>1. CASE t \notin mixed
      BY <1>0, <1>7, <3>1 DEF CountInv, CountOf, Frame
    <3>2. CASE OnTenant(c, t) = {}
      BY <1>0, <3>2 DEF OnTenant, Others, Busy, Frame
    <3> QED
      BY <2>1, <3>1, <3>2
  <2> QED
    BY <2>1, <2>2 DEF CountOf
<1> QED
  BY <1>0, <1>2, <1>3, <1>4, <1>5, <1>6, <1>7 DEF Counting

LEMMA ArriveKeepsCounts ==
    ASSUME P4TypeOK, CountInv, NEW c \in Contexts, NEW u \in Tenants, NEW s \in Slots,
           Arrive(c, u, s)
    PROVE  CountInv'
<1> SUFFICES ASSUME NEW t \in Tenants, t \notin mixed'
             PROVE  CountOf(t)'
  BY DEF CountInv
<1>1. /\ \A d \in Contexts \ {c} : ctx'[d] = ctx[d]
      /\ ctx[c].pc = "idle" /\ ctx'[c].pc = "tid_slot" /\ ctx'[c].tid = u
      /\ UNCHANGED <<tenants, forwarded>>
      /\ mixed' = IF OnTenant(c, u) = {} THEN mixed ELSE mixed \cup {u}
  BY DEF Arrive, At, Idle, P4TypeOK
<1>2. t \notin mixed /\ CountOf(t)
  BY <1>1 DEF CountInv
<1>3. t = u => OnTenant(c, t) = {}
  BY <1>1
<1>4. t = u => \A d \in Contexts : ctx'[d].pc # "idle" /\ ctx'[d].tid = t => d = c
  BY <1>1, <1>3 DEF OnTenant, Others, Busy
<1> QED
  BY <1>1, <1>2, <1>4 DEF CountOf, NextNb

(* However many contexts there are: a tenant none of whose packets           *)
(* overlapped since its row was opened is metered exactly, CountsAreExact    *)
(* (plugin.c:94-109).                                                        *)
THEOREM CountsStayExact == P4Spec => []CountsAreExact
<1>1. P4Init => CountInv
  BY P4WidthAssumption DEF P4Init, CountInv, CountOf, Idle
<1>2. P4TypeOK /\ CountInv /\ [P4Next]_p4Vars => CountInv'
  <2> SUFFICES ASSUME P4TypeOK, CountInv, [P4Next]_p4Vars PROVE CountInv'
    OBVIOUS
  <2>1. CASE UNCHANGED p4Vars
    BY <2>1 DEF CountInv, CountOf, NextNb, p4Vars, tables, history
  <2>2. CASE P4Next
    BY <2>2, DispatchKeepsCounts, ArriveKeepsCounts DEF P4Next
  <2> QED
    BY <2>1, <2>2
<1>3. CountInv => CountsAreExact
  BY DEF CountInv, CountOf, CountsAreExact
<1> QED
  BY <1>1, <1>2, <1>3, P4TypeCorrect, PTL DEF P4Spec

-----------------------------------------------------------------------------
(* A worker no two packets for which overlapped: only one context uses its   *)
(* row, and the load it read is still there when it adds the packet.         *)
LoadOf(w) ==
    /\ workers[w].load = charged[w]
    /\ \A c \in Contexts : Using(c, w) =>
          /\ \A d \in Contexts : Using(d, w) => d = c
          /\ ctx[c].pc = "charge" => ctx[c].value = workers[w].load

LoadInv == \A w \in Workers \ crossed : LoadOf(w)

LEMMA DispatchKeepsLoads ==
    ASSUME P4TypeOK, LoadInv, NEW c \in Contexts, Dispatch(c)
    PROVE  LoadInv'
<1> SUFFICES ASSUME NEW w \in Workers, w \notin crossed'
             PROVE  LoadOf(w)'
  BY DEF LoadInv
<1>0. /\ Frame(c)
      /\ Charging(c) \/ QuietLoad(c)
  BY DispatchFrame
<1>1. ctx[c] \in Registers /\ ctx[c].wid \in Workers /\ ctx[c].tid \in Tenants
  BY DEF P4TypeOK, Registers
<1>a. \A d \in Contexts \ {c} : ctx'[d] = ctx[d] /\ (Using(d, w)' <=> Using(d, w))
  BY <1>0 DEF Frame, Using
<1>2. CASE ~ Using(c, w) /\ ~ Using(c, w)'
  <2>1. /\ w \notin crossed
        /\ workers'[w].load = workers[w].load /\ charged'[w] = charged[w]
    BY <1>0, <1>2 DEF Frame
  <2>2. LoadOf(w)
    BY <2>1 DEF LoadInv
  <2> QED
    BY <1>2, <1>a, <2>1, <2>2 DEF LoadOf
<1>3. CASE QuietLoad(c)
  <2>1. /\ w \notin crossed
        /\ workers'[w].load = workers[w].load /\ charged'[w] = charged[w]
        /\ ctx'[c].pc # "charge" /\ (Using(c, w)' => Using(c, w))
    BY <1>3 DEF QuietLoad
  <2>2. LoadOf(w)
    BY <2>1 DEF LoadInv
  <2> QED
    BY <1>a, <2>1, <2>2 DEF LoadOf
<1>4. CASE ReadWid(c) /\ Using(c, w)'
  <2>1. /\ w \notin crossed /\ OnWorker(c, w) = {}
        /\ UNCHANGED <<workers, charged>> /\ ctx'[c].pc # "charge"
    BY <1>4, <1>1 DEF ReadWid, Using, P4TypeOK
  <2>2. \A d \in Contexts \ {c} : ~ Using(d, w)
    BY <2>1 DEF OnWorker, Others, Busy, Using, Early
  <2>3. LoadOf(w)
    BY <2>1 DEF LoadInv
  <2> QED
    BY <1>a, <2>1, <2>2, <2>3 DEF LoadOf
<1>5. CASE WriteNoLoad(c) /\ Using(c, w)
  <2>1. /\ workers'[w].load = 0 /\ charged'[w] = 0 /\ ctx'[c].pc # "charge"
        /\ w \notin crossed \/ OnWorker(c, w) = {}
    BY <1>5, <1>1 DEF WriteNoLoad, RestartLoad, Goto, Using, P4TypeOK, WorkerRows
  <2>2. \A d \in Contexts \ {c} : ~ Using(d, w)
    <3>1. CASE w \notin crossed
      BY <1>5, <3>1 DEF LoadInv, LoadOf
    <3>2. CASE OnWorker(c, w) = {}
      BY <3>2 DEF OnWorker, Others, Busy, Using, Early
    <3> QED
      BY <2>1, <3>1, <3>2
  <2> QED
    BY <1>a, <2>1, <2>2 DEF LoadOf
<1>6. CASE ReadLoad(c) /\ Using(c, w)
  <2>1. /\ w \notin crossed /\ UNCHANGED <<workers, charged>>
        /\ ctx'[c].value = workers[w].load
    BY <1>6, <1>1 DEF ReadLoad, ReadOnly, SameWorkers, Load, Using, P4TypeOK, Registers
  <2>2. LoadOf(w)
    BY <2>1 DEF LoadInv
  <2> QED
    BY <1>6, <1>a, <2>1, <2>2 DEF LoadOf
<1>7. CASE WriteLoad(c) /\ Using(c, w)
  <2>1. /\ w \notin crossed /\ ctx[c].pc = "charge" /\ ctx'[c].pc = "idle"
        /\ workers'[w].load = (ctx[c].value + 1) % U32
        /\ charged'[w] = (charged[w] + 1) % U32
    BY <1>7, <1>1 DEF WriteLoad, Return, Idle, At, Using, P4TypeOK, WorkerRows
  <2>2. LoadOf(w)
    BY <2>1 DEF LoadInv
  <2>3. ctx[c].value = charged[w]
    BY <1>7, <2>1, <2>2 DEF LoadOf
  <2> QED
    BY <1>7, <1>a, <2>1, <2>2, <2>3 DEF LoadOf, Using, Early
<1>8. (ReadWid(c) /\ ~ Using(c, w)') => ~ Using(c, w)
  BY DEF ReadWid, At, Using, Early
<1>9. WriteNoLoad(c) \/ ReadLoad(c) \/ WriteLoad(c) => (Using(c, w)' => Using(c, w))
  BY <1>1 DEF WriteNoLoad, RestartLoad, ReadLoad, WriteLoad, Return, Idle, Goto, Load, At,
              Using, Early, P4TypeOK, Registers
<1> QED
  BY <1>0, <1>2, <1>3, <1>4, <1>5, <1>6, <1>7, <1>8, <1>9 DEF Charging

LEMMA ArriveKeepsLoads ==
    ASSUME P4TypeOK, LoadInv, NEW c \in Contexts, NEW t \in Tenants, NEW s \in Slots,
           Arrive(c, t, s)
    PROVE  LoadInv'
<1>1. /\ \A d \in Contexts \ {c} : ctx'[d] = ctx[d]
      /\ ctx'[c].pc = "tid_slot"
      /\ UNCHANGED <<workers, charged, crossed>>
  BY DEF Arrive, SameWorkers, Idle, P4TypeOK
<1>2. \A d \in Contexts, w \in Workers : Using(d, w)' => Using(d, w) /\ ctx'[d] = ctx[d]
  BY <1>1 DEF Using, Early
<1> QED
  BY <1>1, <1>2 DEF LoadInv, LoadOf

(* However many contexts there are and wherever tenants are moved meanwhile: *)
(* a worker no two packets for which overlapped since its slot was closed    *)
(* has an exact load, LoadsAreExact (plugin.c:111-121, 160-164).             *)
THEOREM LoadsStayExact == P4Spec => []LoadsAreExact
<1>1. P4Init => LoadInv
  BY DEF P4Init, LoadInv, LoadOf, Using, Early, Idle
<1>2. P4TypeOK /\ LoadInv /\ [P4Next]_p4Vars => LoadInv'
  <2> SUFFICES ASSUME P4TypeOK, LoadInv, [P4Next]_p4Vars PROVE LoadInv'
    OBVIOUS
  <2>1. CASE UNCHANGED p4Vars
    BY <2>1 DEF LoadInv, LoadOf, Using, p4Vars, tables, history
  <2>2. CASE P4Next
    BY <2>2, DispatchKeepsLoads, ArriveKeepsLoads DEF P4Next
  <2> QED
    BY <2>1, <2>2
<1>3. LoadInv => LoadsAreExact
  BY DEF LoadInv, LoadOf, LoadsAreExact
<1> QED
  BY <1>1, <1>2, <1>3, P4TypeCorrect, PTL DEF P4Spec

-----------------------------------------------------------------------------
(* A packet alone *)

\* No count is above the limit, however many updates were lost.
NbInv ==
    /\ \A t \in Tenants : tenants[t].nb <= MaxLoad
    /\ \A c \in Contexts : At(c, "count") => NextNb(c) <= MaxNb[ctx[c].tid]

\* What the packet of c found when it arrived: its tenant's worker and count,
\* the worker's row as it is in the packet's slot, and the last loads then.
Home(c) == before.tenants[ctx[c].tid].wid
Count(c) == before.tenants[ctx[c].tid].nb
HomeRow(c) == Rolled(before, Home(c), ctx[c].timeslot)
LastOf(c, w) == IF w = Home(c) THEN HomeRow(c).last ELSE before.workers[w].last
Least(c) == {w \in Workers : \A v \in Workers : LastOf(c, w) <= LastOf(c, v)}
Opens(c) == before.tenants[ctx[c].tid].slot # ctx[c].timeslot
Taken(c) == (LastOf(c, ctx[c].minWorker) + Count(c)) % U32

Untouched == tenants = before.tenants /\ workers = before.workers
RowIs(c, nb, w) ==
    /\ tenants[ctx[c].tid].slot = ctx[c].timeslot
    /\ tenants[ctx[c].tid].nb = nb
    /\ tenants[ctx[c].tid].wid = w
    /\ \A t \in Tenants \ {ctx[c].tid} : tenants[t] = before.tenants[t]
OthersStay(c) == \A w \in Workers \ {Home(c)} : workers[w] = before.workers[w]
HomeIs(c, load, last) ==
    /\ workers[Home(c)].slot = ctx[c].timeslot
    /\ workers[Home(c)].load = load
    /\ workers[Home(c)].last = last

\* The tables are those of the packet, but for the charge.
Counted(c) ==
    /\ ~Opens(c)
    /\ tenants = [before.tenants EXCEPT ![ctx[c].tid].nb = Count(c) + 1]
    /\ workers = before.workers
    /\ Count(c) < MaxNb[ctx[c].tid]

Stayed(c) ==
    /\ Opens(c)
    /\ RowIs(c, 1, Home(c))
    /\ OthersStay(c)
    /\ HomeIs(c, HomeRow(c).load, HomeRow(c).last)
    /\ HomeRow(c).last >= MaxLoad =>
         \/ Home(c) \in Least(c)
         \/ \A w \in Least(c) : (LastOf(c, w) + Count(c)) % U32 >= MaxLoad

Moved(c) ==
    LET to == tenants[ctx[c].tid].wid
    IN  /\ Opens(c)
        /\ to # Home(c)
        /\ to \in Least(c)
        /\ RowIs(c, 1, to)
        /\ \A w \in Workers \ {Home(c), to} : workers[w] = before.workers[w]
        /\ workers[to] = [before.workers[to] EXCEPT
                            !.last = (before.workers[to].last + Count(c)) % U32]
        /\ (before.workers[to].last + Count(c)) % U32 < MaxLoad
        /\ HomeRow(c).last >= MaxLoad
        /\ HomeIs(c, HomeRow(c).load, HomeRow(c).last - Count(c))

\* The registers and the tables before each access.
Registered(c) == ctx[c].wid = Home(c) /\ ctx[c].nb = Count(c)
Opening(c) == Registered(c) /\ Opens(c) /\ RowIs(c, 1, Home(c))
Closing(c) == before.workers[Home(c)].slot # ctx[c].timeslot
Scanning(c) ==
    /\ Opening(c) /\ OthersStay(c) /\ HomeIs(c, HomeRow(c).load, HomeRow(c).last)
    /\ HomeRow(c).last >= MaxLoad
Picked(c) == ctx[c].minWorker \in Least(c) /\ ctx[c].minLoad = Taken(c)
             /\ ctx[c].minLoad < MaxLoad
Granted(c) ==
    /\ Registered(c) /\ Opens(c) /\ RowIs(c, 1, ctx[c].minWorker)
    /\ Picked(c) /\ HomeRow(c).last >= MaxLoad

AtTidNb(c) == Untouched /\ ctx[c].cur = before.tenants[ctx[c].tid].slot
AtTidWid(c) == AtTidNb(c) /\ ctx[c].nb = Count(c)
AtCount(c) == Untouched /\ Registered(c) /\ ~Opens(c) /\ Count(c) < MaxNb[ctx[c].tid]
AtOpen(c) == Untouched /\ Registered(c) /\ Opens(c)
AtFirst(c) ==
    /\ Registered(c) /\ Opens(c) /\ RowIs(c, Count(c), Home(c))
    /\ workers = before.workers
AtWidSlot(c) == Opening(c) /\ workers = before.workers
AtClose(c) == AtWidSlot(c) /\ Closing(c)
AtRollSlot(c) == AtClose(c) /\ ctx[c].value = before.workers[Home(c)].load
AtRollLoad(c) ==
    /\ Opening(c) /\ Closing(c) /\ OthersStay(c)
    /\ ctx[c].value = before.workers[Home(c)].load
    /\ workers[Home(c)].slot = ctx[c].timeslot
AtRollLast(c) == AtRollLoad(c) /\ workers[Home(c)].load = 0
AtLast(c) ==
    Opening(c) /\ OthersStay(c) /\ HomeIs(c, HomeRow(c).load, HomeRow(c).last)
AtCalm(c) == AtLast(c) /\ HomeRow(c).last < MaxLoad
AtScan(c) ==
    /\ Scanning(c)
    /\ \A w \in Workers : w < ctx[c].i => ctx[c].minLoad <= LastOf(c, w)
    /\ ctx[c].minLoad # U32 - 1 => LastOf(c, ctx[c].minWorker) = ctx[c].minLoad
AtBind(c) == Scanning(c) /\ Picked(c)
AtGrant(c) ==
    /\ Granted(c)
    /\ OthersStay(c) /\ HomeIs(c, HomeRow(c).load, HomeRow(c).last)
AtRelief(c) ==
    LET to == ctx[c].minWorker
    IN  /\ Granted(c)
        /\ \A w \in Workers \ {Home(c), to} : workers[w] = before.workers[w]
        /\ to # Home(c) => workers[to] = [before.workers[to] EXCEPT !.last = ctx[c].minLoad]
        /\ HomeIs(c, HomeRow(c).load,
                  IF to = Home(c) THEN ctx[c].minLoad ELSE HomeRow(c).last)
AtRelieve(c) == AtRelief(c) /\ ctx[c].value = workers[Home(c)].last
AtLoad(c) == Registered(c) /\ (Counted(c) \/ Stayed(c) \/ Moved(c))
AtCharge(c) == AtLoad(c) /\ ctx[c].value = workers[Home(c)].load

Stage(c) ==
    /\ At(c, "tid_slot") => Untouched
    /\ At(c, "tid_nb") => AtTidNb(c)
    /\ At(c, "tid_wid") => AtTidWid(c)
    /\ At(c, "count") => AtCount(c)
    /\ At(c, "open") => AtOpen(c)
    /\ At(c, "first") => AtFirst(c)
    /\ At(c, "wid_slot") => AtWidSlot(c)
    /\ At(c, "close") => AtClose(c)
    /\ At(c, "roll_slot") => AtRollSlot(c)
    /\ At(c, "roll_load") => AtRollLoad(c)
    /\ At(c, "roll_last") => AtRollLast(c)
    /\ At(c, "last") => AtLast(c)
    /\ At(c, "calm") => AtCalm(c)
    /\ At(c, "times") => Scanning(c)
    /\ At(c, "streak") => Scanning(c)
    /\ At(c, "scan") => AtScan(c)
    /\ At(c, "bind") => AtBind(c)
    /\ At(c, "grant") => AtGrant(c)
    /\ At(c, "relief") => AtRelief(c)
    /\ At(c, "relieve") => AtRelieve(c)
    /\ At(c, "load") => AtLoad(c)
    /\ At(c, "charge") => AtCharge(c)

WholeInv ==
    /\ NbInv
    /\ before.alone =>
         /\ \A t \in Tenants : before.tenants[t].nb <= MaxLoad
         /\ \A c \in Contexts : Busy(c) => Others(c) = {} /\ Stage(c)

(* The fields of the registers.                                              *)
LEMMA RegisterFields ==
    ASSUME P4TypeOK, NEW c \in Contexts
    PROVE  /\ ctx \in [Contexts -> Registers] /\ ctx[c] \in Registers
           /\ ctx[c].tid \in Tenants /\ ctx[c].timeslot \in Slots /\ ctx[c].cur \in Slots
           /\ ctx[c].nb \in Word /\ ctx[c].wid \in Workers /\ ctx[c].value \in Word
           /\ ctx[c].i \in 0 .. MAX_WORKERS /\ ctx[c].minLoad \in Word
           /\ ctx[c].minWorker \in Workers
BY DEF P4TypeOK, Registers

(* And the columns of the rows.                                              *)
LEMMA RowFields ==
    /\ \A f \in TenantRows : \A t \in Tenants :
          f[t].slot \in Slots /\ f[t].nb \in Word /\ f[t].wid \in Workers
    /\ \A f \in WorkerRows : \A w \in Workers :
          /\ f[w].slot \in Slots /\ f[w].load \in Word /\ f[w].last \in Word
          /\ f[w].times \in Word
BY DEF TenantRows, WorkerRows

(* Only a refusal and a charge end a packet; until then its context keeps    *)
(* tenant, slot and what the tables were.                                    *)
LEMMA PacketIsKept ==
    ASSUME P4TypeOK, NEW c \in Contexts, Dispatch(c)
    PROVE  \/ (Drop(c) \/ WriteLoad(c)) /\ ctx'[c].pc = "idle" /\ ~before'.alone
           \/ /\ ctx'[c].pc # "idle" /\ before' = before
              /\ ctx'[c].tid = ctx[c].tid /\ ctx'[c].timeslot = ctx[c].timeslot
<1> USE RegisterFields DEF At, Goto, Load, Running, ReadOnly, Store, Registers
<1>1. CASE ReadTidSlot(c)
  BY <1>1 DEF ReadTidSlot
<1>2. CASE ReadNb(c)
  BY <1>2 DEF ReadNb
<1>3. CASE ReadWid(c)
  BY <1>3 DEF ReadWid
<1>4. CASE Drop(c)
  BY <1>4 DEF Drop, Return, Idle, NotAlone
<1>5. CASE WriteNb(c)
  BY <1>5 DEF WriteNb
<1>6. CASE WriteTidSlot(c)
  BY <1>6 DEF WriteTidSlot
<1>7. CASE WriteFirst(c)
  BY <1>7 DEF WriteFirst, OpenCount
<1>8. CASE ReadWidSlot(c)
  BY <1>8 DEF ReadWidSlot
<1>9. CASE ReadClosed(c)
  BY <1>9 DEF ReadClosed
<1>10. CASE WriteWidSlot(c)
  BY <1>10 DEF WriteWidSlot
<1>11. CASE WriteNoLoad(c)
  BY <1>11 DEF WriteNoLoad, RestartLoad
<1>12. CASE WriteClosed(c)
  BY <1>12 DEF WriteClosed
<1>13. CASE ReadLast(c)
  BY <1>13 DEF ReadLast
<1>14. CASE WriteCalm(c)
  BY <1>14 DEF WriteCalm
<1>15. CASE ReadTimes(c)
  BY <1>15 DEF ReadTimes
<1>16. CASE WriteStreak(c)
  BY <1>16 DEF WriteStreak
<1>17. CASE Scan(c)
  BY <1>17 DEF Scan
<1>18. CASE EndScan(c)
  BY <1>18 DEF EndScan
<1>19. CASE WriteWid(c)
  BY <1>19 DEF WriteWid
<1>20. CASE WriteTarget(c)
  BY <1>20 DEF WriteTarget
<1>21. CASE ReadRelief(c)
  BY <1>21 DEF ReadRelief
<1>22. CASE WriteRelief(c)
  BY <1>22 DEF WriteRelief
<1>23. CASE ReadLoad(c)
  BY <1>23 DEF ReadLoad
<1>24. CASE WriteLoad(c)
  BY <1>24 DEF WriteLoad, Return, Idle, NotAlone
<1> QED
  BY <1>1, <1>2, <1>3, <1>4, <1>5, <1>6, <1>7, <1>8, <1>9, <1>10, <1>11, <1>12,
     <1>13, <1>14, <1>15, <1>16, <1>17, <1>18, <1>19, <1>20, <1>21, <1>22,
     <1>23, <1>24 DEF Dispatch

(* So what it found when it arrived stays what it was.                       *)
LEMMA FoundIsKept ==
    ASSUME NEW c \in Contexts,
           before' = before, ctx'[c].tid = ctx[c].tid, ctx'[c].timeslot = ctx[c].timeslot
    PROVE  /\ Home(c)' = Home(c) /\ Count(c)' = Count(c) /\ HomeRow(c)' = HomeRow(c)
           /\ Opens(c)' = Opens(c) /\ Closing(c)' = Closing(c)
           /\ \A w \in Workers : LastOf(c, w)' = LastOf(c, w)
           /\ Least(c)' = Least(c)
<1>1. Home(c)' = Home(c) /\ Count(c)' = Count(c) /\ Opens(c)' = Opens(c)
  BY DEF Home, Count, Opens
<1>2. HomeRow(c)' = HomeRow(c) /\ Closing(c)' = Closing(c)
  BY <1>1 DEF HomeRow, Rolled, Closing
<1>3. \A w \in Workers : LastOf(c, w)' = LastOf(c, w)
  BY <1>1, <1>2 DEF LastOf
<1> QED
  BY <1>1, <1>2, <1>3 DEF Least

(* It found words, and rows of the tables.                                   *)
LEMMA FoundTypes ==
    ASSUME P4TypeOK, NEW c \in Contexts, before.alone
    PROVE  /\ before.tenants \in TenantRows /\ before.workers \in WorkerRows
           /\ Home(c) \in Workers /\ Count(c) \in Word
           /\ HomeRow(c).last \in Word /\ HomeRow(c).load \in Word
           /\ HomeRow(c).slot = ctx[c].timeslot
           /\ Closing(c) => /\ HomeRow(c).load = 0
                            /\ HomeRow(c).last = before.workers[Home(c)].load
           /\ ~Closing(c) => HomeRow(c) = before.workers[Home(c)]
           /\ \A w \in Workers : LastOf(c, w) \in Word
<1>1. before.tenants \in TenantRows /\ before.workers \in WorkerRows
  BY DEF P4TypeOK
<1>2. Home(c) \in Workers /\ Count(c) \in Word
  BY <1>1, RegisterFields, RowFields DEF Home, Count
<1>3. DEFINE row == before.workers[Home(c)]
<1>4. row \in [slot : Slots, load : Word, last : Word, times : Word]
  BY <1>1, <1>2 DEF WorkerRows
<1>5. /\ HomeRow(c).last \in Word /\ HomeRow(c).load \in Word
      /\ HomeRow(c).slot = ctx[c].timeslot
      /\ Closing(c) => HomeRow(c).load = 0 /\ HomeRow(c).last = row.load
      /\ ~Closing(c) => HomeRow(c) = row
  BY <1>4, Ranges DEF HomeRow, Rolled, Closing
<1>6. \A w \in Workers : LastOf(c, w) \in Word
  BY <1>1, <1>5, RowFields DEF LastOf
<1> QED
  BY <1>1, <1>2, <1>5, <1>6

(* Counts below the limit of a worker do not wrap, and a load that has been  *)
(* added can be taken off again.                                             *)
LEMMA NextOf == \A n \in Word : n <= MaxLoad => (n + 1) % U32 = n + 1
BY P4WidthAssumption DEF Word

LEMMA TakenOff ==
    \A a, n \in Word : (((a + n) % U32) - n) % U32 = a
<1> SUFFICES ASSUME NEW a \in Word, NEW n \in Word
             PROVE  (((a + n) % U32) - n) % U32 = a
  OBVIOUS
<1>1. U32 \in Nat /\ a \in 0 .. U32 - 1 /\ n \in 0 .. U32 - 1
  BY P4WidthAssumption DEF Word
<1>2. CASE a + n < U32
  BY <1>1, <1>2
<1>3. CASE a + n >= U32
  <2>1. (a + n) % U32 = a + n - U32
    BY <1>1, <1>3
  <2>2. (a - U32) % U32 = a
    BY <1>1
  <2>3. (a + n - U32) - n = a - U32
    BY <1>1
  <2> QED
    BY <2>1, <2>2, <2>3
<1> QED
  BY <1>1, <1>2, <1>3

LEMMA Relieved ==
    \A a, n \in Word : a >= MaxLoad /\ n <= MaxLoad => (a - n) % U32 = a - n
BY P4WidthAssumption DEF Word

(* The packet that is alone finds the tenant's row as it was.                *)
LEMMA TenantStages ==
    ASSUME P4TypeOK, NEW c \in Contexts, before.alone, Stage(c),
           before.tenants[ctx[c].tid].nb <= MaxLoad,
           ReadTidSlot(c) \/ ReadNb(c) \/ ReadWid(c) \/ WriteNb(c) \/ WriteTidSlot(c)
             \/ WriteFirst(c)
    PROVE  Stage(c)'
<1> USE DEF Stage, At
<1>0. Dispatch(c)
  BY DEF Dispatch
<1>a. ctx'[c].pc # "idle"
  BY RegisterFields DEF ReadTidSlot, ReadNb, ReadWid, WriteNb, WriteTidSlot, WriteFirst,
                        OpenCount, Goto, Registers
<1>b. before' = before /\ ctx'[c].tid = ctx[c].tid /\ ctx'[c].timeslot = ctx[c].timeslot
  BY <1>0, <1>a, PacketIsKept
<1>c. /\ Home(c)' = Home(c) /\ Count(c)' = Count(c) /\ Opens(c)' = Opens(c)
  BY <1>b, FoundIsKept
<1>d. /\ before.tenants \in TenantRows /\ before.workers \in WorkerRows
      /\ Home(c) \in Workers /\ Count(c) \in Word
  BY FoundTypes
<1>1. CASE ReadTidSlot(c)
  <2>1. /\ ctx'[c].pc = "tid_nb" /\ ctx'[c].cur = tenants[ctx[c].tid].slot
        /\ UNCHANGED tables /\ Untouched
    BY <1>1, RegisterFields DEF ReadTidSlot, ReadOnly, SameTenants, SameWorkers, tables,
                                Registers
  <2>2. AtTidNb(c)'
    BY <1>b, <2>1 DEF AtTidNb, Untouched, tables
  <2> QED
    BY <2>1, <2>2
<1>2. CASE ReadNb(c)
  <2>1. /\ ctx'[c].pc = "tid_wid" /\ ctx'[c].nb = tenants[ctx[c].tid].nb
        /\ ctx'[c].cur = ctx[c].cur
        /\ UNCHANGED tables /\ AtTidNb(c)
    BY <1>2, RegisterFields DEF ReadNb, ReadOnly, SameTenants, SameWorkers, tables,
                                Registers
  <2>2. AtTidNb(c)' /\ ctx'[c].nb = Count(c)
    BY <1>b, <2>1 DEF AtTidNb, Untouched, tables, Count
  <2> QED
    BY <1>c, <2>1, <2>2 DEF AtTidWid
<1>3. CASE ReadWid(c)
  <2>1. /\ ctx'[c].wid = tenants[ctx[c].tid].wid /\ ctx'[c].nb = ctx[c].nb
        /\ UNCHANGED tables /\ AtTidWid(c)
        /\ ctx'[c].pc = IF FirstOfSlot(c) THEN "open" ELSE "count"
        /\ FirstOfSlot(c) \/ ~OverQuota(c)
    BY <1>3, RegisterFields DEF ReadWid, SameTenants, SameWorkers, tables, Registers
  <2>2. Untouched' /\ Registered(c)'
    BY <1>b, <1>c, <2>1 DEF AtTidWid, AtTidNb, Untouched, tables, Registered, Home
  <2>3. FirstOfSlot(c) <=> Opens(c)
    BY <2>1 DEF AtTidWid, AtTidNb, FirstOfSlot, Opens
  <2>4. CASE FirstOfSlot(c)
    BY <1>c, <2>1, <2>2, <2>3, <2>4 DEF AtOpen
  <2>5. CASE ~FirstOfSlot(c)
    <3>1. NextNb(c) = Count(c) + 1
      BY <2>1, <1>d, NextOf DEF NextNb, AtTidWid, Count
    <3>2. Count(c) < MaxNb[ctx[c].tid]
      <4>1. MaxNb[ctx[c].tid] \in Nat /\ Count(c) \in Int
        BY P4WidthAssumption, RegisterFields, Ranges, <1>d
      <4> QED
        BY <2>1, <2>5, <3>1, <4>1 DEF OverQuota
    <3> QED
      BY <1>b, <1>c, <2>1, <2>2, <2>3, <2>5, <3>2 DEF AtCount
  <2> QED
    BY <2>4, <2>5
<1>4. CASE WriteNb(c)
  <2>1. /\ ctx'[c].pc = "load" /\ ctx'[c].wid = ctx[c].wid /\ ctx'[c].nb = ctx[c].nb
        /\ tenants' = [tenants EXCEPT ![ctx[c].tid].nb = NextNb(c)]
        /\ workers' = workers /\ AtCount(c)
    BY <1>4, RegisterFields DEF WriteNb, Goto, SameWorkers, Registers
  <2>2. NextNb(c) = Count(c) + 1
    BY <2>1, <1>d, NextOf DEF NextNb, AtCount, Registered, Count
  <2>3. Counted(c)'
    BY <1>b, <1>c, <2>1, <2>2 DEF Counted, AtCount, Untouched
  <2>4. Registered(c)'
    BY <1>c, <2>1 DEF AtCount, Registered
  <2> QED
    BY <2>1, <2>3, <2>4 DEF AtLoad
<1>5. CASE WriteTidSlot(c)
  <2>1. /\ ctx'[c].pc = "first" /\ ctx'[c].wid = ctx[c].wid /\ ctx'[c].nb = ctx[c].nb
        /\ tenants' = [tenants EXCEPT ![ctx[c].tid].slot = ctx[c].timeslot]
        /\ workers' = workers /\ AtOpen(c)
    BY <1>5, RegisterFields DEF WriteTidSlot, Goto, SameWorkers, Registers
  <2>2. tenants = before.tenants /\ workers = before.workers
    BY <2>1 DEF AtOpen, Untouched
  <2>3. RowIs(c, Count(c), Home(c))'
    <3>1. /\ tenants'[ctx[c].tid].slot = ctx[c].timeslot
          /\ tenants'[ctx[c].tid].nb = tenants[ctx[c].tid].nb
          /\ tenants'[ctx[c].tid].wid = tenants[ctx[c].tid].wid
          /\ \A t \in Tenants \ {ctx[c].tid} : tenants'[t] = tenants[t]
      BY <2>1, RegisterFields DEF P4TypeOK, TenantRows
    <3>2. tenants[ctx[c].tid].nb = Count(c) /\ tenants[ctx[c].tid].wid = Home(c)
      BY <2>2 DEF Count, Home
    <3> QED
      BY <1>b, <1>c, <2>2, <3>1, <3>2 DEF RowIs
  <2> QED
    BY <1>b, <1>c, <2>1, <2>2, <2>3 DEF AtFirst, AtOpen, Registered
<1>6. CASE WriteFirst(c)
  <2>1. /\ ctx'[c].pc = "wid_slot" /\ ctx'[c].wid = ctx[c].wid /\ ctx'[c].nb = ctx[c].nb
        /\ tenants' = [tenants EXCEPT ![ctx[c].tid].nb = 1]
        /\ workers' = workers /\ AtFirst(c)
    BY <1>6, RegisterFields DEF WriteFirst, OpenCount, Goto, SameWorkers, Registers
  <2>2. RowIs(c, 1, Home(c))'
    <3>1. tenants \in TenantRows /\ RowIs(c, Count(c), Home(c))
      BY <2>1 DEF P4TypeOK, AtFirst
    <3>2. /\ tenants'[ctx[c].tid].nb = 1
          /\ tenants'[ctx[c].tid].slot = tenants[ctx[c].tid].slot
          /\ tenants'[ctx[c].tid].wid = tenants[ctx[c].tid].wid
          /\ \A t \in Tenants \ {ctx[c].tid} : tenants'[t] = tenants[t]
      BY <2>1, RegisterFields DEF P4TypeOK, TenantRows
    <3> QED
      BY <1>b, <1>c, <3>1, <3>2 DEF RowIs
  <2> QED
    BY <1>b, <1>c, <2>1, <2>2 DEF AtWidSlot, Opening, AtFirst, Registered
<1> QED
  BY <1>1, <1>2, <1>3, <1>4, <1>5, <1>6

(* The opened row of the tenant outlasts the writes of the workers' table.   *)
LEMMA OpeningIsKept ==
    ASSUME NEW c \in Contexts, Opening(c), tenants' = tenants,
           before' = before, ctx'[c].tid = ctx[c].tid, ctx'[c].timeslot = ctx[c].timeslot,
           ctx'[c].wid = ctx[c].wid, ctx'[c].nb = ctx[c].nb
    PROVE  Opening(c)'
<1>1. Home(c)' = Home(c) /\ Count(c)' = Count(c) /\ Opens(c)' = Opens(c)
  BY FoundIsKept
<1> QED
  BY <1>1 DEF Opening, Registered, RowIs

(* It finds the worker's row as it was, and closes it if it is of another    *)
(* slot: from then on it is HomeRow(c).                                      *)
LEMMA WorkerStages ==
    ASSUME P4TypeOK, NEW c \in Contexts, before.alone, Stage(c),
           ReadWidSlot(c) \/ ReadClosed(c) \/ WriteWidSlot(c) \/ WriteNoLoad(c)
             \/ WriteClosed(c) \/ ReadLast(c)
    PROVE  Stage(c)'
<1> USE DEF Stage, At
<1>0. Dispatch(c)
  BY DEF Dispatch
<1>a. /\ ctx'[c].pc # "idle" /\ ctx'[c].wid = ctx[c].wid /\ ctx'[c].nb = ctx[c].nb
      /\ tenants' = tenants
  BY RegisterFields DEF ReadWidSlot, ReadClosed, WriteWidSlot, WriteNoLoad, WriteClosed,
       ReadLast, RestartLoad, Goto, Load, Store, ReadOnly, SameTenants, Registers
<1>b. before' = before /\ ctx'[c].tid = ctx[c].tid /\ ctx'[c].timeslot = ctx[c].timeslot
  BY <1>0, <1>a, PacketIsKept
<1>c. /\ Home(c)' = Home(c) /\ HomeRow(c)' = HomeRow(c) /\ Closing(c)' = Closing(c)
  BY <1>b, FoundIsKept
<1>d. /\ before.workers \in WorkerRows /\ Home(c) \in Workers
      /\ HomeRow(c).slot = ctx[c].timeslot
      /\ Closing(c) => HomeRow(c).load = 0 /\ HomeRow(c).last = before.workers[Home(c)].load
      /\ ~Closing(c) => HomeRow(c) = before.workers[Home(c)]
  BY FoundTypes
<1>e. Opening(c) /\ ctx[c].wid = Home(c)
  BY DEF ReadWidSlot, ReadClosed, WriteWidSlot, WriteNoLoad, WriteClosed, ReadLast,
         RestartLoad, AtWidSlot, AtClose, AtRollSlot, AtRollLoad, AtRollLast, AtLast,
         Opening, Registered
<1>f. Opening(c)'
  BY <1>a, <1>b, <1>e, OpeningIsKept
<1>1. CASE ReadWidSlot(c)
  <2>1. /\ ctx'[c].pc = IF workers[Home(c)].slot # ctx[c].timeslot THEN "close" ELSE "last"
        /\ workers' = workers /\ workers = before.workers
    BY <1>1, <1>e, RegisterFields DEF ReadWidSlot, ReadOnly, SameWorkers, Goto, Registers,
                                      AtWidSlot
  <2>2. CASE Closing(c)
    BY <1>b, <1>c, <1>f, <2>1, <2>2 DEF Closing, AtClose, AtWidSlot
  <2>3. CASE ~Closing(c)
    <3>1. workers'[Home(c)] = HomeRow(c)
      BY <1>d, <2>1, <2>3
    <3>2. HomeIs(c, HomeRow(c).load, HomeRow(c).last)'
      BY <1>b, <1>c, <1>d, <3>1 DEF HomeIs
    <3>3. OthersStay(c)'
      BY <1>b, <1>c, <2>1 DEF OthersStay
    <3> QED
      BY <1>f, <2>1, <2>3, <3>2, <3>3 DEF AtLast, Closing
  <2> QED
    BY <2>2, <2>3
<1>2. CASE ReadClosed(c)
  <2>1. /\ ctx'[c].pc = "roll_slot" /\ ctx'[c].value = workers[Home(c)].load
        /\ workers' = workers /\ workers = before.workers /\ Closing(c)
    BY <1>2, <1>e, RegisterFields DEF ReadClosed, ReadOnly, SameWorkers, Load, Registers,
                                      AtClose, AtWidSlot
  <2> QED
    BY <1>b, <1>c, <1>f, <2>1 DEF AtRollSlot, AtClose, AtWidSlot
<1>3. CASE WriteWidSlot(c)
  <2>1. /\ ctx'[c].pc = "roll_load" /\ ctx'[c].value = ctx[c].value
        /\ workers' = [workers EXCEPT ![Home(c)] =
                         [workers[Home(c)] EXCEPT !.slot = ctx[c].timeslot]]
        /\ AtRollSlot(c)
    BY <1>3, <1>e, RegisterFields DEF WriteWidSlot, Store, Goto, Registers
  <2>2. /\ workers'[Home(c)].slot = ctx[c].timeslot
        /\ \A w \in Workers \ {Home(c)} : workers'[w] = workers[w]
    BY <2>1, <1>d DEF P4TypeOK, WorkerRows
  <2>3. OthersStay(c)'
    BY <1>b, <1>c, <2>1, <2>2 DEF OthersStay, AtRollSlot, AtClose, AtWidSlot
  <2> QED
    BY <1>b, <1>c, <1>f, <2>1, <2>2, <2>3 DEF AtRollLoad, AtRollSlot, AtClose
<1>4. CASE WriteNoLoad(c)
  <2>1. /\ ctx'[c].pc = "roll_last" /\ ctx'[c].value = ctx[c].value
        /\ workers' = [workers EXCEPT ![Home(c)].load = 0]
        /\ AtRollLoad(c)
    BY <1>4, <1>e, RegisterFields DEF WriteNoLoad, RestartLoad, Goto, Registers
  <2>2. /\ workers'[Home(c)].slot = workers[Home(c)].slot /\ workers'[Home(c)].load = 0
        /\ \A w \in Workers \ {Home(c)} : workers'[w] = workers[w]
    BY <2>1, <1>d DEF P4TypeOK, WorkerRows
  <2>3. OthersStay(c)'
    BY <1>b, <1>c, <2>1, <2>2 DEF OthersStay, AtRollLoad
  <2>4. AtRollLoad(c)'
    BY <1>b, <1>c, <1>f, <2>1, <2>2, <2>3 DEF AtRollLoad
  <2> QED
    BY <1>c, <2>1, <2>2, <2>4 DEF AtRollLast
<1>5. CASE WriteClosed(c)
  <2>1. /\ ctx'[c].pc = "last"
        /\ workers' = [workers EXCEPT ![Home(c)] =
                         [workers[Home(c)] EXCEPT !.last = ctx[c].value]]
        /\ AtRollLast(c) /\ AtRollLoad(c)
    BY <1>5, <1>e, RegisterFields DEF WriteClosed, Store, Goto, Registers, AtRollLast
  <2>2. /\ workers'[Home(c)].slot = workers[Home(c)].slot
        /\ workers'[Home(c)].load = workers[Home(c)].load
        /\ workers'[Home(c)].last = ctx[c].value
        /\ \A w \in Workers \ {Home(c)} : workers'[w] = workers[w]
    BY <2>1, <1>d DEF P4TypeOK, WorkerRows
  <2>3. OthersStay(c)'
    BY <1>b, <1>c, <2>1, <2>2 DEF OthersStay, AtRollLoad
  <2>4. HomeIs(c, HomeRow(c).load, HomeRow(c).last)'
    BY <1>b, <1>c, <1>d, <2>1, <2>2 DEF HomeIs, AtRollLast, AtRollLoad
  <2> QED
    BY <1>f, <2>1, <2>3, <2>4 DEF AtLast
<1>6. CASE ReadLast(c)
  <2>1. /\ ctx'[c].pc = IF HomeRow(c).last < MaxLoad THEN "calm" ELSE "times"
        /\ workers' = workers /\ AtLast(c)
    BY <1>6, <1>e, RegisterFields DEF ReadLast, ReadOnly, SameWorkers, Goto, Registers,
                                      AtLast, HomeIs
  <2>2. OthersStay(c)' /\ HomeIs(c, HomeRow(c).load, HomeRow(c).last)'
    BY <1>b, <1>c, <2>1 DEF OthersStay, HomeIs, AtLast
  <2>3. HomeRow(c).last \in Int /\ MaxLoad \in Int
    BY FoundTypes, Ranges, P4WidthAssumption
  <2> QED
    BY <1>c, <1>f, <2>1, <2>2, <2>3 DEF AtLast, AtCalm, Scanning
<1> QED
  BY <1>1, <1>2, <1>3, <1>4, <1>5, <1>6

(* It scans the last loads: they are LastOf(c, w), and what is picked is a   *)
(* least one.                                                                *)
LEMMA ScanStages ==
    ASSUME P4TypeOK, NEW c \in Contexts, before.alone, Stage(c),
           WriteCalm(c) \/ ReadTimes(c) \/ WriteStreak(c) \/ Scan(c) \/ EndScan(c)
    PROVE  Stage(c)'
<1> USE DEF Stage, At
<1>0. Dispatch(c)
  BY DEF Dispatch
<1>a. /\ ctx'[c].pc # "idle" /\ ctx'[c].wid = ctx[c].wid /\ ctx'[c].nb = ctx[c].nb
      /\ tenants' = tenants
  <2>1. CASE EndScan(c)
    BY <2>1, RegisterFields DEF EndScan, ReadOnly, SameTenants, Registers
  <2> QED
    BY <2>1, RegisterFields DEF WriteCalm, ReadTimes, WriteStreak, Scan,
         Goto, Load, Store, ReadOnly, SameTenants, Registers
<1>b. before' = before /\ ctx'[c].tid = ctx[c].tid /\ ctx'[c].timeslot = ctx[c].timeslot
  BY <1>0, <1>a, PacketIsKept
<1>c. /\ Home(c)' = Home(c) /\ Count(c)' = Count(c) /\ HomeRow(c)' = HomeRow(c)
      /\ Opens(c)' = Opens(c) /\ Least(c)' = Least(c)
      /\ \A w \in Workers : LastOf(c, w)' = LastOf(c, w)
  BY <1>b, FoundIsKept
<1>d. /\ before.workers \in WorkerRows /\ Home(c) \in Workers /\ Count(c) \in Word
      /\ HomeRow(c).last \in Word /\ \A w \in Workers : LastOf(c, w) \in Word
  BY FoundTypes
<1>e. AtLast(c) /\ ctx[c].wid = Home(c) /\ ctx[c].nb = Count(c)
  BY DEF WriteCalm, ReadTimes, WriteStreak, Scan, EndScan, AtCalm, Scanning, AtScan, AtLast,
         Opening, Registered
<1>f. Opening(c)'
  BY <1>a, <1>b, <1>e, OpeningIsKept DEF AtLast
<1>g. Opening(c) /\ Registered(c)' /\ RowIs(c, 1, Home(c))' /\ Opens(c)'
  BY <1>e, <1>f DEF Opening, AtLast
<1> DEFINE OnlyTimes ==
      \A w \in Workers : \/ workers'[w] = workers[w]
                         \/ /\ w = Home(c)
                            /\ workers'[w].slot = workers[w].slot
                            /\ workers'[w].load = workers[w].load
                            /\ workers'[w].last = workers[w].last
<1>h. ASSUME OnlyTimes
      PROVE  OthersStay(c)' /\ HomeIs(c, HomeRow(c).load, HomeRow(c).last)'
  <2>1. OthersStay(c)'
    BY <1>b, <1>c, <1>e, <1>h DEF OthersStay, AtLast
  <2>2. HomeIs(c, HomeRow(c).load, HomeRow(c).last)'
    BY <1>b, <1>c, <1>d, <1>e, <1>h DEF HomeIs, AtLast
  <2> QED
    BY <2>1, <2>2
<1>i. \A w \in Workers : workers[w].last = LastOf(c, w)
  BY <1>e DEF AtLast, OthersStay, HomeIs, LastOf
<1>1. CASE WriteCalm(c)
  <2>1. /\ ctx'[c].pc = "load"
        /\ workers' = [workers EXCEPT ![Home(c)] =
                         [workers[Home(c)] EXCEPT !.times = 0]]
        /\ HomeRow(c).last < MaxLoad
    BY <1>1, <1>e, RegisterFields DEF WriteCalm, Store, Goto, Registers, AtCalm
  <2>2. OnlyTimes
    BY <2>1, <1>d DEF P4TypeOK, WorkerRows
  <2>3. ~ HomeRow(c).last >= MaxLoad
    BY <2>1, <1>d, Ranges, P4WidthAssumption
  <2>4. Stayed(c)'
    BY <1>c, <1>g, <1>h, <2>2, <2>3 DEF Stayed
  <2> QED
    BY <1>g, <2>1, <2>4 DEF AtLoad
<1>2. CASE ReadTimes(c)
  <2>1. ctx'[c].pc = "streak" /\ workers' = workers /\ HomeRow(c).last >= MaxLoad
    BY <1>2, <1>e, RegisterFields DEF ReadTimes, ReadOnly, SameWorkers, Load, Registers,
                                      Scanning
  <2> QED
    BY <1>c, <1>f, <1>h, <2>1 DEF Scanning
<1>3. CASE WriteStreak(c)
  <2>1. /\ ctx'[c].pc = "scan" /\ ctx'[c].i = 0 /\ ctx'[c].minLoad = U32 - 1
        /\ workers' = [workers EXCEPT ![Home(c)] =
                         [workers[Home(c)] EXCEPT !.times = (ctx[c].value + 1) % U32]]
        /\ HomeRow(c).last >= MaxLoad
    BY <1>3, <1>e, RegisterFields DEF WriteStreak, Store, Registers, Scanning
  <2>2. OnlyTimes
    BY <2>1, <1>d DEF P4TypeOK, WorkerRows
  <2>3. Scanning(c)'
    BY <1>c, <1>f, <1>h, <2>1, <2>2 DEF Scanning
  <2>4. \A w \in Workers : ~ w < 0
    BY DEF Workers
  <2> QED
    BY <2>1, <2>3, <2>4 DEF AtScan
<1>4. CASE Scan(c)
  <2>1. /\ ctx'[c].pc = "scan" /\ workers' = workers
        /\ ctx'[c].i = ctx[c].i + 1
        /\ ctx'[c].minLoad = IF Lower(c) THEN workers[ctx[c].i].last ELSE ctx[c].minLoad
        /\ ctx'[c].minWorker = IF Lower(c) THEN ctx[c].i ELSE ctx[c].minWorker
        /\ AtScan(c) /\ ctx[c].i < MAX_WORKERS
    BY <1>4, RegisterFields DEF Scan, ReadOnly, SameWorkers, Registers
  <2>2. Scanning(c)'
    BY <1>c, <1>f, <1>h, <2>1 DEF Scanning, AtScan
  <2>3. /\ ctx[c].i \in Workers /\ workers[ctx[c].i].last = LastOf(c, ctx[c].i)
        /\ LastOf(c, ctx[c].i) \in Int /\ ctx[c].minLoad \in Int
        /\ \A w \in Workers : w \in Int /\ LastOf(c, w) \in Int
    <3>1. ctx[c].i \in Workers
      BY <2>1, RegisterFields, P4Assumption DEF Workers
    <3> QED
      BY <3>1, <1>d, <1>i, RegisterFields, Ranges DEF Workers
  <2>4. Lower(c) <=> LastOf(c, ctx[c].i) < ctx[c].minLoad
    BY <2>3 DEF Lower
  <2>5. \A w \in Workers : w < ctx[c].i => ctx[c].minLoad <= LastOf(c, w)
    BY <2>1 DEF AtScan
  <2>6. \A w \in Workers : w < ctx[c].i + 1 => ctx'[c].minLoad <= LastOf(c, w)
    BY <2>1, <2>3, <2>4, <2>5
  <2>7. ctx'[c].minLoad # U32 - 1 => LastOf(c, ctx'[c].minWorker) = ctx'[c].minLoad
    BY <2>1, <2>3 DEF AtScan
  <2>8. ctx'[c].minWorker \in Workers
    BY <2>1, <2>3, RegisterFields
  <2> QED
    BY <1>c, <2>1, <2>2, <2>6, <2>7, <2>8 DEF AtScan
<1>5. CASE EndScan(c)
  <2>1. PICK w \in Targets(c) :
          ctx' = [ctx EXCEPT ![c].pc = IF MinLoad(c) < MaxLoad THEN "bind" ELSE "load",
                             ![c].minLoad = MinLoad(c), ![c].minWorker = w]
    BY <1>5 DEF EndScan
  <2>2. /\ ctx'[c].pc = IF MinLoad(c) < MaxLoad THEN "bind" ELSE "load"
        /\ ctx'[c].minLoad = MinLoad(c) /\ ctx'[c].minWorker = w
        /\ workers' = workers /\ AtScan(c) /\ ctx[c].i = MAX_WORKERS
    BY <1>5, <2>1, RegisterFields DEF EndScan, ReadOnly, SameWorkers, Registers
  <2>3. w \in Workers
    BY RegisterFields DEF Targets
  <2>4. \A v \in Workers : ctx[c].minLoad <= LastOf(c, v)
    <3>1. \A v \in Workers : v < MAX_WORKERS
      BY P4Assumption DEF Workers
    <3> QED
      BY <2>2, <3>1 DEF AtScan
  <2>5. LastOf(c, w) = ctx[c].minLoad
    <3>1. CASE ctx[c].minLoad = U32 - 1
      BY <1>d, <2>3, <2>4, <3>1, P4WidthAssumption DEF Word
    <3>2. CASE ctx[c].minLoad # U32 - 1
      BY <2>2, <3>2 DEF AtScan, Targets
    <3> QED
      BY <3>1, <3>2
  <2>6. w \in Least(c)
    BY <2>3, <2>4, <2>5 DEF Least
  <2>7. MinLoad(c) = (LastOf(c, w) + Count(c)) % U32
    BY <1>e, <2>5 DEF MinLoad
  <2>8. Scanning(c)' /\ Scanning(c)
    BY <1>c, <1>f, <1>h, <2>2 DEF Scanning, AtScan
  <2>9. Taken(c)' = MinLoad(c)
    BY <1>c, <2>2, <2>3, <2>7 DEF Taken
  <2>10. CASE MinLoad(c) < MaxLoad
    BY <1>c, <2>2, <2>6, <2>8, <2>9, <2>10 DEF AtBind, Picked
  <2>11. CASE ~(MinLoad(c) < MaxLoad)
    <3>1. MinLoad(c) >= MaxLoad
      BY <1>d, <2>3, <2>7, <2>11, Ranges, P4WidthAssumption
    <3>2. \A v \in Least(c) : v \in Workers /\ LastOf(c, v) = LastOf(c, w)
      BY <1>d, <2>3, <2>6, Ranges DEF Least
    <3>3. \A v \in Least(c) : (LastOf(c, v) + Count(c)) % U32 >= MaxLoad
      BY <2>7, <3>1, <3>2
    <3>4. \A v \in Least(c)' : (LastOf(c, v)' + Count(c)') % U32 >= MaxLoad
      BY <1>c, <3>2, <3>3
    <3>5. Stayed(c)'
      BY <1>c, <1>g, <2>8, <3>4 DEF Stayed, Scanning
    <3> QED
      BY <1>g, <2>2, <2>11, <3>5 DEF AtLoad
  <2> QED
    BY <2>10, <2>11
<1> QED
  BY <1>1, <1>2, <1>3, <1>4, <1>5

(* It moves the tenant to the worker it picked: the load that is put on that *)
(* one is taken off the other.                                               *)
LEMMA MoveStages ==
    ASSUME P4TypeOK, NEW c \in Contexts, before.alone, Stage(c),
           before.tenants[ctx[c].tid].nb <= MaxLoad,
           WriteWid(c) \/ WriteTarget(c) \/ ReadRelief(c) \/ WriteRelief(c) \/ ReadLoad(c)
    PROVE  Stage(c)'
<1> USE DEF Stage, At
<1>0. Dispatch(c)
  BY DEF Dispatch
<1>a. /\ ctx'[c].pc # "idle" /\ ctx'[c].wid = ctx[c].wid /\ ctx'[c].nb = ctx[c].nb
      /\ ctx'[c].minWorker = ctx[c].minWorker /\ ctx'[c].minLoad = ctx[c].minLoad
  BY RegisterFields DEF WriteWid, WriteTarget, ReadRelief, WriteRelief, ReadLoad,
         Goto, Load, Store, ReadOnly, SameTenants, Registers
<1>b. before' = before /\ ctx'[c].tid = ctx[c].tid /\ ctx'[c].timeslot = ctx[c].timeslot
  BY <1>0, <1>a, PacketIsKept
<1>c. /\ Home(c)' = Home(c) /\ Count(c)' = Count(c) /\ HomeRow(c)' = HomeRow(c)
      /\ Opens(c)' = Opens(c) /\ Least(c)' = Least(c)
      /\ \A w \in Workers : LastOf(c, w)' = LastOf(c, w)
  BY <1>b, FoundIsKept
<1>d. /\ before.workers \in WorkerRows /\ Home(c) \in Workers /\ Count(c) \in Word
      /\ HomeRow(c).last \in Word /\ \A w \in Workers : LastOf(c, w) \in Word
      /\ Count(c) <= MaxLoad
  BY FoundTypes DEF Count
<1> DEFINE to == ctx[c].minWorker
<1>t. to \in Workers /\ to' = to /\ Taken(c)' = Taken(c) /\ (Picked(c) => Picked(c)')
  <2>1. to \in Workers
    BY RegisterFields
  <2>2. Taken(c)' = Taken(c)
    BY <1>a, <1>c, <2>1 DEF Taken
  <2> QED
    BY <1>a, <1>c, <2>1, <2>2 DEF Picked
<1>r. ctx[c].wid = Home(c) /\ ctx[c].nb = Count(c) /\ Registered(c)'
  <2>1. Registered(c)
    BY DEF WriteWid, WriteTarget, ReadRelief, WriteRelief, ReadLoad,
           AtBind, Scanning, Opening, AtGrant, AtRelief, AtRelieve, AtLoad, Granted
  <2> QED
    BY <1>a, <1>c, <2>1 DEF Registered
<1>g. Granted(c) /\ tenants' = tenants => Granted(c)'
  BY <1>a, <1>b, <1>c, <1>t, <1>r DEF Granted, RowIs
<1> HIDE DEF to
<1>1. CASE WriteWid(c)
  <2>1. /\ ctx'[c].pc = "grant" /\ AtBind(c)
        /\ tenants' = [tenants EXCEPT ![ctx[c].tid].wid = to] /\ workers' = workers
    BY <1>1, RegisterFields DEF WriteWid, SameWorkers, Goto, Registers, to
  <2>2. /\ tenants'[ctx[c].tid].wid = to
        /\ tenants'[ctx[c].tid].slot = tenants[ctx[c].tid].slot
        /\ tenants'[ctx[c].tid].nb = tenants[ctx[c].tid].nb
        /\ \A t \in Tenants \ {ctx[c].tid} : tenants'[t] = tenants[t]
    BY <2>1, <1>t, RegisterFields DEF P4TypeOK, TenantRows
  <2>3. RowIs(c, 1, ctx[c].minWorker)'
    BY <1>a, <1>b, <2>1, <2>2 DEF RowIs, AtBind, Scanning, Opening, to
  <2>4. Granted(c)'
    BY <1>c, <1>t, <1>r, <2>1, <2>3 DEF Granted, AtBind, Scanning, Opening
  <2>5. OthersStay(c)' /\ HomeIs(c, HomeRow(c).load, HomeRow(c).last)'
    BY <1>b, <1>c, <2>1 DEF AtBind, Scanning, OthersStay, HomeIs
  <2> QED
    BY <2>1, <2>4, <2>5 DEF AtGrant
<1>2. CASE WriteTarget(c)
  <2>1. /\ ctx'[c].pc = "relief" /\ AtGrant(c) /\ tenants' = tenants
        /\ workers' = [workers EXCEPT ![to] = [workers[to] EXCEPT !.last = ctx[c].minLoad]]
    BY <1>2, RegisterFields DEF WriteTarget, Store, SameTenants, Goto, Registers, to
  <2>2. /\ workers'[to] = [workers[to] EXCEPT !.last = ctx[c].minLoad]
        /\ \A w \in Workers \ {to} : workers'[w] = workers[w]
    BY <2>1, <1>t DEF P4TypeOK, WorkerRows
  <2>3. /\ workers'[to].last = ctx[c].minLoad /\ workers'[to].load = workers[to].load
        /\ workers'[to].slot = workers[to].slot
    BY <2>1, <1>t DEF P4TypeOK, WorkerRows
  <2>4. Granted(c)'
    BY <1>g, <2>1 DEF AtGrant
  <2>5. \A w \in Workers \ {Home(c), to} : workers'[w] = before.workers[w]
    BY <2>1, <2>2 DEF AtGrant, OthersStay
  <2>6. to # Home(c) => workers'[to] = [before.workers[to] EXCEPT !.last = ctx[c].minLoad]
    BY <1>t, <2>1, <2>2 DEF AtGrant, OthersStay
  <2>7. HomeIs(c, HomeRow(c).load,
                  IF to = Home(c) THEN ctx[c].minLoad ELSE HomeRow(c).last)'
    <3>1. HomeIs(c, HomeRow(c).load, HomeRow(c).last)
      BY <2>1 DEF AtGrant
    <3>2. to' = to
      BY <1>t
    <3>3. CASE to = Home(c)
      BY <1>a, <1>b, <1>c, <2>3, <3>1, <3>2, <3>3 DEF HomeIs
    <3>4. CASE to # Home(c)
      BY <1>a, <1>b, <1>c, <1>d, <2>2, <3>1, <3>2, <3>4 DEF HomeIs
    <3> QED
      BY <3>3, <3>4
  <2> QED
    BY <1>a, <1>b, <1>c, <2>1, <2>4, <2>5, <2>6, <2>7 DEF AtRelief, to
<1>3. CASE ReadRelief(c)
  <2>1. /\ ctx'[c].pc = "relieve" /\ AtRelief(c) /\ tenants' = tenants /\ workers' = workers
        /\ ctx'[c].value = workers[Home(c)].last
    BY <1>3, <1>r, RegisterFields DEF ReadRelief, ReadOnly, SameTenants, SameWorkers, Load,
                                      Registers
  <2>2. AtRelief(c)'
    BY <1>a, <1>b, <1>c, <1>g, <2>1 DEF AtRelief, HomeIs
  <2> QED
    BY <1>c, <2>1, <2>2 DEF AtRelieve
<1>4. CASE WriteRelief(c)
  <2>1. /\ ctx'[c].pc = "load" /\ AtRelieve(c) /\ tenants' = tenants
        /\ workers' = [workers EXCEPT ![Home(c)] =
                         [workers[Home(c)] EXCEPT !.last = Less(c)]]
    BY <1>4, <1>r, RegisterFields DEF WriteRelief, Store, SameTenants, Goto, Registers
  <2>2. /\ workers'[Home(c)].slot = workers[Home(c)].slot
        /\ workers'[Home(c)].load = workers[Home(c)].load
        /\ workers'[Home(c)].last = Less(c)
        /\ \A w \in Workers \ {Home(c)} : workers'[w] = workers[w]
    BY <2>1, <1>d DEF P4TypeOK, WorkerRows
  <2>3. /\ AtRelief(c) /\ Granted(c) /\ Picked(c)
        /\ ctx[c].value = IF to = Home(c) THEN Taken(c) ELSE HomeRow(c).last
        /\ HomeRow(c).last >= MaxLoad
    BY <2>1 DEF AtRelieve, AtRelief, Granted, Picked, HomeIs, to
  <2>4. RowIs(c, 1, to)'
    BY <1>a, <1>b, <2>1, <2>3 DEF Granted, RowIs, to
  <2>5. to \in Least(c)
    BY <2>3 DEF Picked, to
  <2>6. CASE to = Home(c)
    <3>1. Less(c) = HomeRow(c).last
      <4>1. Taken(c) = (HomeRow(c).last + Count(c)) % U32
        BY <2>6 DEF Taken, LastOf, to
      <4> QED
        BY <1>d, <1>r, <2>3, <2>6, <4>1, TakenOff DEF Less
    <3>2. HomeIs(c, HomeRow(c).load, HomeRow(c).last)'
      BY <1>b, <1>c, <1>d, <2>2, <2>3, <3>1 DEF AtRelief, HomeIs
    <3>3. OthersStay(c)'
      BY <1>b, <1>c, <2>2, <2>3, <2>6 DEF AtRelief, OthersStay, to
    <3>4. RowIs(c, 1, Home(c))' /\ Opens(c)'
      BY <1>b, <1>c, <1>t, <2>3, <2>4, <2>6 DEF Granted, RowIs
    <3>5. Stayed(c)'
      BY <1>c, <2>5, <2>6, <3>2, <3>3, <3>4 DEF Stayed
    <3> QED
      BY <1>r, <2>1, <3>5 DEF AtLoad
  <2>7. CASE to # Home(c)
    <3>1. Less(c) = HomeRow(c).last - Count(c)
      BY <1>d, <1>r, <2>3, <2>7, Relieved DEF Less
    <3>2. HomeIs(c, HomeRow(c).load, HomeRow(c).last - Count(c))'
      BY <1>b, <1>c, <1>d, <2>2, <2>3, <3>1 DEF AtRelief, HomeIs
    <3>3. LastOf(c, to) = before.workers[to].last
      BY <2>7 DEF LastOf
    <3>4. /\ ctx[c].minLoad = (before.workers[to].last + Count(c)) % U32
          /\ ctx[c].minLoad < MaxLoad
      BY <2>3, <3>3 DEF Picked, Taken, to
    <3>5. workers'[to] = [before.workers[to] EXCEPT
                            !.last = (before.workers[to].last + Count(c)) % U32]
      BY <1>t, <2>2, <2>3, <2>7, <3>4 DEF AtRelief, to
    <3>6. \A w \in Workers \ {Home(c), to} : workers'[w] = before.workers[w]
      BY <2>2, <2>3 DEF AtRelief, to
    <3>7. tenants'[ctx'[c].tid].wid = to /\ Opens(c)
      BY <1>t, <2>3, <2>4 DEF RowIs, Granted
    <3>8. Moved(c)'
      BY <1>b, <1>c, <1>t, <2>3, <2>4, <2>5, <2>7, <3>2, <3>4, <3>5, <3>6, <3>7
         DEF Moved
    <3> QED
      BY <1>r, <2>1, <3>8 DEF AtLoad
  <2> QED
    BY <2>6, <2>7
<1>5. CASE ReadLoad(c)
  <2>1. /\ ctx'[c].pc = "charge" /\ AtLoad(c) /\ tenants' = tenants /\ workers' = workers
        /\ ctx'[c].value = workers[Home(c)].load
    BY <1>5, <1>r, RegisterFields DEF ReadLoad, ReadOnly, SameTenants, SameWorkers, Load,
                                      Registers
  <2>2. Counted(c) => Counted(c)'
    BY <1>b, <1>c, <2>1 DEF Counted
  <2>3. Stayed(c) => Stayed(c)'
    <3>1. Least(c) \subseteq Workers
      BY DEF Least
    <3> QED
      BY <1>b, <1>c, <2>1, <3>1 DEF Stayed, RowIs, OthersStay, HomeIs
  <2>4. Moved(c) => Moved(c)'
    BY <1>b, <1>c, <2>1 DEF Moved, RowIs, HomeIs
  <2> QED
    BY <1>c, <1>r, <2>1, <2>2, <2>3, <2>4 DEF AtLoad, AtCharge
<1> QED
  BY <1>1, <1>2, <1>3, <1>4, <1>5

(* What a refusal and a charge leave is what the packet had to do to the     *)
(* tables it found.                                                          *)
Whole(c) ==
    LET t == ctx[c].tid
        s == ctx[c].timeslot
    IN  IF before.tenants[t].slot = s
        THEN Refused(before, t) \/ Metered(before, t)
        ELSE Opened(before, t, s)

LEMMA DropIsWhole ==
    ASSUME P4TypeOK, NEW c \in Contexts, before.alone, Stage(c), Drop(c),
           before.tenants[ctx[c].tid].nb <= MaxLoad
    PROVE  Whole(c)
<1>1. /\ AtTidWid(c) /\ ~FirstOfSlot(c) /\ OverQuota(c)
      /\ tenants' = tenants /\ workers' = workers
  BY DEF Drop, Stage, At, SameTenants, SameWorkers
<1>2. /\ tenants = before.tenants /\ workers = before.workers /\ ctx[c].nb = Count(c)
      /\ before.tenants[ctx[c].tid].slot = ctx[c].timeslot
  BY <1>1 DEF AtTidWid, AtTidNb, Untouched, FirstOfSlot
<1>3. NextNb(c) = before.tenants[ctx[c].tid].nb + 1
  BY <1>2, FoundTypes, NextOf DEF NextNb, Count
<1>4. Refused(before, ctx[c].tid)
  BY <1>1, <1>2, <1>3 DEF Refused, OverQuota
<1> QED
  BY <1>2, <1>4 DEF Whole

LEMMA ChargeIsWhole ==
    ASSUME P4TypeOK, P4TypeOK', NEW c \in Contexts, before.alone, Stage(c), WriteLoad(c)
    PROVE  Whole(c)
<1> DEFINE t == ctx[c].tid
           s == ctx[c].timeslot
           to == tenants'[t].wid
<1>1. /\ AtLoad(c) /\ ctx[c].value = workers[Home(c)].load /\ ctx[c].wid = Home(c)
      /\ workers' = [workers EXCEPT ![Home(c)].load = (ctx[c].value + 1) % U32]
      /\ tenants' = tenants
  BY DEF WriteLoad, Stage, At, AtCharge, AtLoad, Registered, SameTenants
<1>2. /\ Home(c) \in Workers /\ Count(c) \in Word
      /\ before.tenants \in TenantRows /\ before.workers \in WorkerRows
      /\ t \in Tenants /\ s \in Slots
  BY FoundTypes, RegisterFields
<1>3. /\ workers'[Home(c)].load = (workers[Home(c)].load + 1) % U32
      /\ workers'[Home(c)].slot = workers[Home(c)].slot
      /\ workers'[Home(c)].last = workers[Home(c)].last
      /\ \A w \in Workers \ {Home(c)} : workers'[w] = workers[w]
  BY <1>1, <1>2 DEF P4TypeOK, WorkerRows
<1>4. /\ Home(c) = before.tenants[t].wid /\ Count(c) = before.tenants[t].nb
      /\ HomeRow(c) = Rolled(before, before.tenants[t].wid, s)
  BY DEF Home, Count, HomeRow
<1>r. ASSUME RowIs(c, 1, to)
      PROVE  tenants' = [before.tenants EXCEPT ![t] = [slot |-> s, nb |-> 1, wid |-> to]]
  <2>1. tenants[t] = [slot |-> s, nb |-> 1, wid |-> to]
    <3>1. tenants[t] \in [slot : Slots, nb : Word, wid : Workers]
      BY <1>2 DEF P4TypeOK, TenantRows
    <3>2. tenants[t].slot = s /\ tenants[t].nb = 1 /\ tenants[t].wid = to
      BY <1>r DEF RowIs
    <3> QED
      BY <3>1, <3>2
  <2>2. /\ \A u \in Tenants \ {t} : tenants[u] = before.tenants[u]
        /\ tenants = [u \in Tenants |-> tenants[u]]
        /\ before.tenants = [u \in Tenants |-> before.tenants[u]]
    BY <1>2, <1>r DEF RowIs, P4TypeOK, TenantRows
  <2> HIDE DEF to, t, s
  <2> QED
    BY <1>1, <1>2, <2>1, <2>2
<1>l. DEFINE last == [w \in Workers |->
                        IF w = before.tenants[t].wid THEN HomeRow(c).last
                                                     ELSE before.workers[w].last]
<1>m. \A w \in Workers : last[w] = LastOf(c, w)
  BY <1>4 DEF LastOf
<1>n. {w \in Workers : \A v \in Workers : last[w] <= last[v]} = Least(c)
  BY <1>m DEF Least
<1>5. CASE Counted(c)
  <2>1. tenants' = [before.tenants EXCEPT ![t].nb = @ + 1]
    BY <1>1, <1>4, <1>5 DEF Counted
  <2>2. workers' = [before.workers EXCEPT ![before.tenants[t].wid].load = (@ + 1) % U32]
    BY <1>1, <1>4, <1>5 DEF Counted
  <2>3. before.tenants[t].nb < MaxNb[t] /\ before.tenants[t].slot = s
    BY <1>4, <1>5 DEF Counted, Opens
  <2> QED
    BY <2>1, <2>2, <2>3 DEF Whole, Metered
<1>6. CASE Stayed(c)
  <2>1. /\ to = Home(c) /\ before.tenants[t].slot # s
        /\ tenants' = [before.tenants EXCEPT ![t] = [slot |-> s, nb |-> 1, wid |-> to]]
    BY <1>1, <1>6, <1>r DEF Stayed, RowIs, Opens
  <2>2. \A w \in Workers \ {Home(c), to} : workers'[w] = before.workers[w]
    BY <1>3, <1>6 DEF Stayed, OthersStay
  <2>3. /\ workers'[Home(c)].load = (HomeRow(c).load + 1) % U32
        /\ workers'[Home(c)].slot = s /\ workers'[Home(c)].last = HomeRow(c).last
    BY <1>3, <1>6 DEF Stayed, HomeIs
  <2>4. HomeRow(c).last >= MaxLoad =>
           \/ {w \in Least(c) \ {Home(c)} : (last[w] + Count(c)) % U32 < MaxLoad} = {}
           \/ Home(c) \in Least(c)
    <3>1. \A w \in Least(c) : /\ w \in Workers /\ last[w] = LastOf(c, w)
                              /\ (LastOf(c, w) + Count(c)) % U32 \in Int
      BY <1>2, <1>m, FoundTypes, Ranges DEF Least
    <3>2. MaxLoad \in Int
      BY P4WidthAssumption
    <3> HIDE DEF last
    <3> QED
      BY <1>6, <3>1, <3>2 DEF Stayed
  <2>5. Opened(before, t, s)
    <3> HIDE DEF t, s, to, last
    <3>1. HomeRow(c).last >= MaxLoad =>
            \/ {w \in Least(c) \ {Home(c)} :
                  (last[w] + before.tenants[t].nb) % U32 < MaxLoad} = {}
            \/ Home(c) \in Least(c)
      BY <1>4, <2>4
    <3> QED
      BY <1>4, <1>n, <2>1, <2>2, <2>3, <3>1 DEF Opened, to, last
  <2> QED
    BY <2>1, <2>5 DEF Whole
<1>7. CASE Moved(c)
  <2>1. /\ to # Home(c) /\ to \in Least(c) /\ before.tenants[t].slot # s
        /\ HomeRow(c).last >= MaxLoad
        /\ tenants' = [before.tenants EXCEPT ![t] = [slot |-> s, nb |-> 1, wid |-> to]]
    BY <1>1, <1>7, <1>r DEF Moved, RowIs, Opens
  <2>2. \A w \in Workers \ {Home(c), to} : workers'[w] = before.workers[w]
    BY <1>1, <1>3, <1>7 DEF Moved
  <2>3. /\ workers'[Home(c)].load = (HomeRow(c).load + 1) % U32
        /\ workers'[Home(c)].slot = s
        /\ workers'[Home(c)].last = HomeRow(c).last - Count(c)
    BY <1>3, <1>7 DEF Moved, HomeIs
  <2>4. to \in Workers /\ last[to] = before.workers[to].last
    BY <1>4, <2>1 DEF Least
  <2>5. /\ workers'[to] = [before.workers[to] EXCEPT !.last = (@ + Count(c)) % U32]
        /\ (before.workers[to].last + Count(c)) % U32 < MaxLoad
    <3>1. workers'[to] = workers[to] /\ tenants[t].wid = to
      BY <1>1, <1>3, <2>1, <2>4
    <3> HIDE DEF to
    <3>2. /\ workers[to] = [before.workers[to] EXCEPT
                              !.last = (before.workers[to].last + Count(c)) % U32]
          /\ (before.workers[to].last + Count(c)) % U32 < MaxLoad
      BY <1>7, <3>1 DEF Moved
    <3> QED
      BY <3>1, <3>2
  <2>6. to \in {w \in Least(c) \ {Home(c)} : (last[w] + Count(c)) % U32 < MaxLoad}
    BY <2>1, <2>4, <2>5
  <2>7. Opened(before, t, s)
    <3> HIDE DEF t, s, to, last
    <3>1. to \in {w \in Least(c) \ {Home(c)} :
                   (last[w] + before.tenants[t].nb) % U32 < MaxLoad}
      BY <1>4, <2>6
    <3>2. workers'[to] = [before.workers[to] EXCEPT
                            !.last = (@ + before.tenants[t].nb) % U32]
      BY <1>4, <2>5
    <3>3. workers'[Home(c)].last = HomeRow(c).last - before.tenants[t].nb
      BY <1>4, <2>3
    <3> QED
      BY <1>4, <1>n, <2>1, <2>2, <2>3, <3>1, <3>2, <3>3 DEF Opened, to, last
  <2> QED
    BY <2>1, <2>7 DEF Whole
<1> QED
  BY <1>1, <1>5, <1>6, <1>7 DEF AtLoad

(* No count is above the limit of a worker, whatever was lost.               *)
LEMMA DispatchKeepsNb ==
    ASSUME P4TypeOK, NbInv, NEW c \in Contexts, Dispatch(c)
    PROVE  NbInv'
<1>0. Frame(c) /\ (Counting(c) \/ QuietCount(c))
  BY DispatchFrame
<1>1. ctx[c] \in Registers /\ ctx[c].tid \in Tenants /\ ctx \in [Contexts -> Registers]
  BY RegisterFields
<1>2. SUFFICES /\ tenants'[ctx[c].tid].nb <= MaxLoad
               /\ At(c, "count")' => NextNb(c)' <= MaxNb[ctx'[c].tid]
  <2>1. \A t \in Tenants \ {ctx[c].tid} : tenants'[t].nb <= MaxLoad
    BY <1>0 DEF Frame, NbInv
  <2>2. \A d \in Contexts \ {c} : At(d, "count")' => NextNb(d)' <= MaxNb[ctx'[d].tid]
    BY <1>0 DEF Frame, NbInv, At, NextNb
  <2> QED
    BY <1>2, <2>1, <2>2 DEF NbInv
<1>3. tenants[ctx[c].tid].nb <= MaxLoad
  BY <1>1 DEF NbInv
<1>4. CASE QuietCount(c)
  BY <1>1, <1>3, <1>4 DEF QuietCount, At
<1>5. CASE ReadNb(c)
  BY <1>1, <1>3, <1>5 DEF ReadNb, ReadOnly, SameTenants, At
<1>6. CASE ReadWid(c)
  <2>1. /\ tenants' = tenants /\ ctx'[c].nb = ctx[c].nb /\ ctx'[c].tid = ctx[c].tid
        /\ ctx'[c].pc = "count" => ~OverQuota(c)
    BY <1>1, <1>6 DEF ReadWid, SameTenants, Registers
  <2>2. NextNb(c) \in Int /\ MaxNb[ctx[c].tid] \in Int
    BY <1>1, RegisterFields, Ranges, P4WidthAssumption DEF NextNb
  <2> QED
    BY <1>3, <2>1, <2>2 DEF OverQuota, NextNb, At
<1>7. CASE WriteNb(c)
  <2>1. /\ tenants'[ctx[c].tid].nb = NextNb(c) /\ ctx'[c].pc = "load"
        /\ NextNb(c) <= MaxNb[ctx[c].tid]
    BY <1>1, <1>7 DEF WriteNb, Goto, At, NbInv, P4TypeOK, TenantRows, Registers
  <2>2. NextNb(c) \in Int /\ MaxNb[ctx[c].tid] \in Int /\ MaxNb[ctx[c].tid] <= MaxLoad
    BY <1>1, RegisterFields, Ranges, P4WidthAssumption DEF NextNb
  <2> QED
    BY <2>1, <2>2, P4WidthAssumption DEF At
<1>8. CASE WriteFirst(c)
  <2>1. tenants'[ctx[c].tid].nb = 1 /\ ctx'[c].pc = "wid_slot"
    BY <1>1, <1>8 DEF WriteFirst, OpenCount, Goto, P4TypeOK, TenantRows, Registers
  <2> QED
    BY <2>1, P4WidthAssumption DEF At
<1> QED
  BY <1>0, <1>4, <1>5, <1>6, <1>7, <1>8 DEF Counting

(* One access of a packet that is alone.                                     *)
LEMMA DispatchKeepsWhole ==
    ASSUME P4TypeOK, WholeInv, NEW d \in Contexts, Dispatch(d)
    PROVE  WholeInv'
<1>0. NbInv' /\ Frame(d) /\ Busy(d)
  BY DispatchKeepsNb, DispatchFrame DEF WholeInv, Busy
<1>1. \/ ~before'.alone
      \/ /\ ctx'[d].pc # "idle" /\ before' = before
         /\ ctx'[d].tid = ctx[d].tid /\ ctx'[d].timeslot = ctx[d].timeslot
  BY PacketIsKept
<1>2. SUFFICES ASSUME before.alone, before' = before
               PROVE  \A c \in Contexts : Busy(c)' => Others(c)' = {} /\ Stage(c)'
  BY <1>0, <1>1, <1>2 DEF WholeInv
<1>3. /\ Others(d) = {} /\ Stage(d) /\ before.tenants[ctx[d].tid].nb <= MaxLoad
  BY <1>0, <1>2, RegisterFields DEF WholeInv
<1>4. \A c \in Contexts : Busy(c)' => c = d
  BY <1>0, <1>3 DEF Frame, Others, Busy
<1>5. Others(d)' = {}
  BY <1>4 DEF Others
<1>6. Stage(d)'
  <2>1. ~Drop(d) /\ ~WriteLoad(d)
    BY <1>2 DEF Drop, WriteLoad, Return, NotAlone
  <2> QED
    BY <1>2, <1>3, <2>1, TenantStages, WorkerStages, ScanStages, MoveStages DEF Dispatch
<1> QED
  BY <1>4, <1>5, <1>6

(* A packet that arrives while there is none finds the tables as they are.   *)
LEMMA ArriveKeepsWhole ==
    ASSUME P4TypeOK, WholeInv, NEW d \in Contexts, NEW t \in Tenants, NEW s \in Slots,
           Arrive(d, t, s)
    PROVE  WholeInv'
<1>1. /\ ctx'[d].pc = "tid_slot" /\ \A c \in Contexts \ {d} : ctx'[c] = ctx[c]
      /\ tenants' = tenants /\ workers' = workers
  BY RegisterFields DEF Arrive, SameWorkers, Idle
<1>2. NbInv'
  BY <1>1 DEF WholeInv, NbInv, At, NextNb
<1>3. CASE Others(d) = {}
  <2>1. before' = [alone |-> TRUE, tenants |-> tenants, workers |-> workers]
    BY <1>3 DEF Arrive
  <2>2. /\ before'.tenants = tenants /\ before'.workers = workers
    BY <2>1
  <2>3. \A c \in Contexts : Busy(c)' => c = d
    BY <1>1, <1>3 DEF Others, Busy
  <2>4. Stage(d)' /\ Others(d)' = {}
    BY <1>1, <2>2, <2>3 DEF Stage, At, Untouched, Others
  <2> QED
    BY <1>2, <2>2, <2>3, <2>4 DEF WholeInv, NbInv
<1>4. CASE Others(d) # {}
  BY <1>2, <1>4 DEF Arrive, NotAlone, WholeInv
<1> QED
  BY <1>3, <1>4

(* Whatever earlier overlaps left in the tables, for every number of         *)
(* contexts, tenants and workers: a packet that is alone is refused, metered *)
(* or opens its slot as a whole, DispatchIsWhole (plugin.c:94-165).          *)
THEOREM DispatchesStayWhole == P4Spec => DispatchIsWhole
<1> DEFINE Ends == \A c \in Contexts :
                     Busy(c) /\ ctx'[c].pc = "idle" /\ before.alone => Whole(c)
<1>1. P4Init => WholeInv
  BY P4WidthAssumption DEF P4Init, WholeInv, NbInv, At, Idle, NotAlone
<1>2. P4TypeOK /\ WholeInv /\ [P4Next]_p4Vars => WholeInv'
  <2> SUFFICES ASSUME P4TypeOK, WholeInv, [P4Next]_p4Vars PROVE WholeInv'
    OBVIOUS
  <2>1. CASE UNCHANGED p4Vars
    <3>1. /\ tenants' = tenants /\ workers' = workers /\ ctx' = ctx /\ before' = before
      BY <2>1 DEF p4Vars, tables, history
    <3>2. NbInv'
      BY <3>1 DEF WholeInv, NbInv, At, NextNb
    <3>3. \A c \in Contexts : /\ Busy(c)' = Busy(c) /\ Others(c)' = Others(c)
                              /\ Stage(c)' = Stage(c)
      BY <3>1 DEF Busy, Others, Stage, At, Untouched, AtTidNb, AtTidWid, AtCount, AtOpen,
           AtFirst, AtWidSlot, AtClose, AtRollSlot, AtRollLoad, AtRollLast, AtLast, AtCalm,
           Scanning, AtScan, AtBind, AtGrant, AtRelief, AtRelieve, AtLoad, AtCharge,
           Opening, Closing, Registered, Granted, Picked, Taken, Counted, Stayed, Moved,
           RowIs, HomeIs, OthersStay, Home, Count, HomeRow, LastOf, Least, Opens, Rolled
    <3> QED
      BY <3>1, <3>2, <3>3 DEF WholeInv
  <2>2. CASE P4Next
    BY <2>2, DispatchKeepsWhole, ArriveKeepsWhole DEF P4Next
  <2> QED
    BY <2>1, <2>2
<1>3. P4TypeOK /\ P4TypeOK' /\ WholeInv /\ [P4Next]_p4Vars => [Ends]_p4Vars
  <2> SUFFICES ASSUME P4TypeOK, P4TypeOK', WholeInv, P4Next,
                      NEW c \in Contexts, Busy(c), ctx'[c].pc = "idle", before.alone
               PROVE  Whole(c)
    OBVIOUS
  <2>1. PICK d \in Contexts : Dispatch(d) \/ \E t \in Tenants, s \in Slots : Arrive(d, t, s)
    BY DEF P4Next
  <2>2. CASE Dispatch(d)
    <3>1. c = d
      BY <2>2, DispatchFrame DEF Frame, Busy
    <3>2. Drop(c) \/ WriteLoad(c)
      BY <2>2, <3>1, PacketIsKept
    <3>3. Stage(c) /\ before.tenants[ctx[c].tid].nb <= MaxLoad
      BY RegisterFields DEF WholeInv
    <3> QED
      BY <3>2, <3>3, DropIsWhole, ChargeIsWhole
  <2>3. CASE \E t \in Tenants, s \in Slots : Arrive(d, t, s)
    BY <2>3, RegisterFields DEF Arrive, Busy, At, Idle
  <2> QED
    BY <2>1, <2>2, <2>3
<1>4. [][Ends]_p4Vars => DispatchIsWhole
  BY PTL DEF DispatchIsWhole, Whole
<1> QED
  BY <1>1, <1>2, <1>3, <1>4, P4TypeCorrect, PTL DEF P4Spec

===============================================================================
