------------------------------ MODULE Balancer ------------------------------
(***************************************************************************)
(* The two tables with which the software dispatcher meters tenants and    *)
(* binds them to workers: tenants_table and workers_table of               *)
(* dispatcher_thread, mtnf/framework_software/main.c.  Per packet of a     *)
(* tenant, the loop body reads the time slot, counts the packet, and on    *)
(* the first packet of a tenant in a slot may bind the tenant to the least *)
(* loaded worker.  The dispatcher is the only thread that touches the      *)
(* tables, so one packet is one step.                                      *)
(***************************************************************************)
EXTENDS Integers

CONSTANTS
    MAX_TENANTS,  \* size of tenants_table
    QUEUE_NUM,    \* number of rings, and of workers_table rows
    HomeWid,      \* initial binding of each tenant, column 2 of tenants_table
    MaxLoad,      \* column 4 of workers_table, the same for every worker
    U32,          \* 2^32: the columns are uint32_t
    LineRate,     \* bound: packets the ports can deliver to a worker in a slot
    Slots         \* the time slots (usec >> 20) that gettimeofday may yield

Tenants == 0 .. MAX_TENANTS - 1
Workers == 0 .. QUEUE_NUM - 1

ASSUME SizesAssumption ==
    /\ MAX_TENANTS \in Nat \ {0}
    /\ QUEUE_NUM \in Nat \ {0}
    /\ HomeWid \in [Tenants -> Workers]

\* The limit is positive and fits its column; no port fills a 32-bit counter
\* in the second a slot lasts.
ASSUME WidthAssumption ==
    /\ U32 \in Nat
    /\ MaxLoad \in Nat \ {0}
    /\ MaxLoad < U32
    /\ LineRate \in Nat \ {0}
    /\ LineRate < U32 - 1

\* The epoch is long past: no packet arrives in slot 0, the value the tables
\* start with.
ASSUME SlotsAssumption == Slots \subseteq Nat \ {0}

VARIABLES
    timeslot,       \* the slot gettimeofday would yield now
    tenants_table,  \* [Tenants -> slot, nb, wid]: columns 0, 1 and 2
    workers_table   \* [Workers -> slot, load, last, times]: columns 0 to 3

tables == <<tenants_table, workers_table>>
balancerVars == <<timeslot, tenants_table, workers_table>>

BalancerTypeOK ==
    /\ timeslot \in Slots
    /\ tenants_table \in
         [Tenants -> [slot : Slots \cup {0}, nb : 0 .. U32 - 1, wid : Workers]]
    /\ workers_table \in
         [Workers -> [slot : Slots \cup {0}, load : 0 .. U32 - 1,
                      last : 0 .. U32 - 1, times : 0 .. U32 - 1]]

BalancerInit ==
    /\ timeslot \in Slots
    /\ tenants_table = [t \in Tenants |-> [slot |-> 0, nb |-> 0, wid |-> HomeWid[t]]]
    /\ workers_table = [w \in Workers |->
                          [slot |-> 0, load |-> 0, last |-> 0, times |-> 0]]

(***************************************************************************)
(* The slot is only ever compared for equality, and the wall clock may be  *)
(* stepped, so any slot may come next.                                     *)
(***************************************************************************)
Tick ==
    /\ timeslot' \in Slots
    /\ UNCHANGED tables

-----------------------------------------------------------------------------
(* Helpers of the loop body *)

Wid(t) == tenants_table[t].wid

\* A worker's row once the first packet of a new slot has closed the old one.
Rolled(w) ==
    LET row == workers_table[w]
    IN  IF row.slot = timeslot THEN row
        ELSE [row EXCEPT !.slot = timeslot, !.last = row.load, !.load = 0]

\* A bug: the roll refreshes every row, not only the one of the packet's worker.
AllRolled(w) == [v \in Workers |-> Rolled(v)]

RolledTable(w) == [workers_table EXCEPT ![w] = Rolled(w)]

\* A bug: the running load is compared, not the last one.
OverloadedNow(t) == Rolled(Wid(t)).load >= MaxLoad

Overloaded(t) == Rolled(Wid(t)).last >= MaxLoad

\* The scan for the minimum keeps the first of equal loads.
LeastLoaded(table) ==
    CHOOSE w \in Workers : \A v \in Workers :
        \/ table[w].last < table[v].last
        \/ table[w].last = table[v].last /\ w <= v

\* A bug: the target is not charged for the tenant it gets.
TargetLoadUncharged(t) ==
    LET table == RolledTable(Wid(t)) IN table[LeastLoaded(table)].last

\* The load the target would have with the tenant: its count was just set to 1.
TargetLoad(t) ==
    LET table == RolledTable(Wid(t))
    IN  (table[LeastLoaded(table)].last + 1) % U32

\* The packet itself is charged to the worker read before any migration.
Charged(row) == [row EXCEPT !.load = (@ + 1) % U32]

-----------------------------------------------------------------------------
(* One packet of tenant t: the four paths through the loop body *)

SameSlot(t) ==
    /\ tenants_table[t].slot = timeslot
    /\ tenants_table' = [tenants_table EXCEPT ![t].nb = (@ + 1) % U32]
    /\ workers_table' = [workers_table EXCEPT ![Wid(t)] = Charged(@)]

NewSlot(t) == tenants_table[t].slot # timeslot

FirstPacket(t, wid) ==
    tenants_table' =
        [tenants_table EXCEPT ![t] = [slot |-> timeslot, nb |-> 1, wid |-> wid]]

\* A bug: the streak survives a slot without overload.
StayInStreak(t) ==
    /\ NewSlot(t)
    /\ ~Overloaded(t)
    /\ FirstPacket(t, Wid(t))
    /\ workers_table' = [workers_table EXCEPT ![Wid(t)] = Charged(Rolled(Wid(t)))]

Stay(t) ==
    /\ NewSlot(t)
    /\ ~Overloaded(t)
    /\ FirstPacket(t, Wid(t))
    /\ workers_table' =
         [workers_table EXCEPT ![Wid(t)] = Charged([Rolled(Wid(t)) EXCEPT !.times = 0])]

\* The overloaded worker's row, its streak one longer.
Streak(w) == [Rolled(w) EXCEPT !.times = (@ + 1) % U32]

NoRoom(t) ==
    /\ NewSlot(t)
    /\ Overloaded(t)
    /\ TargetLoad(t) >= MaxLoad
    /\ FirstPacket(t, Wid(t))
    /\ workers_table' = [workers_table EXCEPT ![Wid(t)] = Charged(Streak(Wid(t)))]

\* The target is another worker: the least loaded one has room, from has not.
Migrate(t) ==
    /\ NewSlot(t)
    /\ Overloaded(t)
    /\ TargetLoad(t) < MaxLoad
    /\ LET from == Wid(t)
           to == LeastLoaded(RolledTable(from))
           relieved == [Streak(from) EXCEPT !.last = (@ - 1) % U32]
       IN  /\ FirstPacket(t, to)
           /\ workers_table' =
                [workers_table EXCEPT ![from] = Charged(relieved),
                                      ![to].last = TargetLoad(t)]

\* The bound LineRate: the row the packet is charged to is not full.
BelowLineRate(t) ==
    LineRate > IF NewSlot(t) THEN Rolled(Wid(t)).load
                             ELSE workers_table[Wid(t)].load

Account(t) ==
    /\ BelowLineRate(t)
    /\ SameSlot(t) \/ Stay(t) \/ NoRoom(t) \/ Migrate(t)

Packet(t) == Account(t) /\ UNCHANGED timeslot

BalancerNext == Tick \/ \E t \in Tenants : Packet(t)

BalancerSpec == BalancerInit /\ [][BalancerNext]_balancerVars

-----------------------------------------------------------------------------
(* Properties *)

(* The unsigned subtraction of main.c:208 never wraps: no recorded load is   *)
(* beyond what the ports delivered in a slot or what a migration may leave.  *)
LoadsAreReal ==
    \A w \in Workers :
        /\ workers_table[w].load <= LineRate
        /\ workers_table[w].last <= LineRate \/ workers_table[w].last < MaxLoad

(* The overload streak (column 3) is never stale: while it is running, the   *)
(* worker's last load is at the limit, or one below it because a tenant was  *)
(* moved away.  In particular no tenant is moved to a worker in a streak.    *)
StreakIsJustified ==
    \A w \in Workers :
        workers_table[w].times > 0 => workers_table[w].last >= MaxLoad - 1

(* What the dispatcher decides by is what the ports delivered: no row of a   *)
(* worker has wrapped, and none reports an overload that is over.            *)
WorkerRowsAreSound == LoadsAreReal /\ StreakIsJustified

(* A tenant changes worker only on the first packet of a slot, away from a   *)
(* worker that was overloaded, to a least loaded one, which stays below the  *)
(* limit; the load taken off the one is the load put on the other.           *)
MigrationIsSound ==
    \A t \in Tenants :
        LET from == Wid(t)
            to == tenants_table'[t].wid
        IN  to # from =>
              /\ NewSlot(t) /\ tenants_table'[t].slot = timeslot
              /\ Rolled(from).last >= MaxLoad
              /\ \A v \in Workers \ {from} :
                     workers_table[to].last <= workers_table[v].last
              /\ workers_table'[to].last < MaxLoad
              /\ workers_table'[from].last + workers_table'[to].last
                   = Rolled(from).last + workers_table[to].last

MigrationsAreSound == [][MigrationIsSound]_balancerVars

(* What the code does with a worker all of whose tenants left while its last *)
(* load was at the limit: only a packet of a tenant bound to it refreshes    *)
(* that load, so it is never chosen as a target again.                       *)
Excluded(w) ==
    /\ \A t \in Tenants : Wid(t) # w
    /\ workers_table[w].last >= MaxLoad - 1

ExclusionIsPermanent ==
    [][\A w \in Workers : Excluded(w) => Excluded(w)']_balancerVars

=============================================================================
