----------------------------- MODULE P4Dispatcher -----------------------------
(***************************************************************************)
(* The dispatcher of a programmable network card, dispatcher/dispatcher_p4:*)
(* pif_plugin_primitive_dispatch of plugin.c, which the ingress control of *)
(* dispatcher.p4 applies to every packet of the tenants' ports.  The card  *)
(* runs the function in many contexts at once, and they share two tables   *)
(* in memory: each access of one word is one step here, for nothing else   *)
(* is atomic.  The limits of the tables (columns 3 and 4) are never        *)
(* written, so reading them is no step.                                    *)
(***************************************************************************)
EXTENDS Integers, FiniteSets

CONSTANTS
    Contexts,     \* the contexts of the card that run the plugin
    MAX_TENANTS,  \* rows of tenants that the rules of the classifier use
    MAX_WORKERS,  \* rows of workers
    HomeWid,      \* initial binding of each tenant, column 2 of tenants
    MaxNb,        \* column 3 of tenants: packets a tenant may send in a slot
    MaxLoad,      \* column 4 of workers, the same in every row
    U32,          \* 2^32: the columns are uint32_t
    SLOTS,        \* values of timestamp >> 30: four, after which they repeat
    PacketBound   \* bound: packets that arrive

Tenants == 0 .. MAX_TENANTS - 1
Workers == 0 .. MAX_WORKERS - 1
Slots == 0 .. SLOTS - 1
Word == 0 .. U32 - 1

ASSUME P4Assumption ==
    /\ Contexts # {}
    /\ MAX_TENANTS \in Nat \ {0}
    /\ MAX_WORKERS \in Nat \ {0}
    /\ SLOTS \in Nat \ {0}
    /\ HomeWid \in [Tenants -> Workers]

\* The quotas are below the limit of a worker (2 and 10 million in the code,
\* 0 in the rows without an initializer), and no count fills its word.
ASSUME P4WidthAssumption ==
    /\ U32 \in Nat
    /\ MaxNb \in [Tenants -> Nat]
    /\ MaxLoad \in Nat \ {0}
    /\ \A t \in Tenants : MaxNb[t] <= MaxLoad
    /\ PacketBound \in Nat
    /\ MaxLoad < U32 - 1

VARIABLES
    arrived,    \* the packets that have arrived, for PacketBound
    tenants,    \* [Tenants -> slot, nb, wid]: columns 0, 1 and 2
    workers,    \* [Workers -> slot, load, last, times]: columns 0 to 3
    ctx,        \* the registers of each context: see Registers
    (* history: *)
    forwarded,  \* [Tenants -> the packets forwarded since the row was opened]
    charged,    \* [Workers -> the packets charged since the row was rolled], as a word
    mixed,      \* the tenants two packets of which overlapped in that time
    crossed,    \* the workers two packets for which overlapped in that time
    before      \* the tables when the only packet there is arrived, or NotAlone

tables == <<tenants, workers>>
history == <<forwarded, charged, mixed, crossed, before>>
p4Vars == <<arrived, tenants, workers, ctx, history>>

(***************************************************************************)
(* pc names the next access.  nb, wid, last, times, load and minLoad are   *)
(* the transfer registers and locals of the same names; i is the loop      *)
(* counter and minWorker the row of the minimum.                           *)
(***************************************************************************)
Pcs == {"idle", "tid_slot", "tid_nb", "tid_wid", "count", "open", "first",
        "wid_slot", "close", "roll_slot", "roll_load", "roll_last", "last",
        "calm", "times", "streak", "scan", "bind", "grant", "relief", "relieve",
        "load", "charge"}

Registers ==
    [pc : Pcs, tid : Tenants, timeslot : Slots, cur : Slots, nb : Word,
     wid : Workers, value : Word, i : 0 .. MAX_WORKERS,
     minLoad : Word, minWorker : Workers]

Idle == [pc |-> "idle", tid |-> 0, timeslot |-> 0, cur |-> 0, nb |-> 0,
         wid |-> 0, value |-> 0, i |-> 0, minLoad |-> 0, minWorker |-> 0]

TenantRows == [Tenants -> [slot : Slots, nb : Word, wid : Workers]]
WorkerRows == [Workers -> [slot : Slots, load : Word, last : Word, times : Word]]

NotAlone == [alone |-> FALSE]

P4TypeOK ==
    /\ arrived \in 0 .. PacketBound
    /\ tenants \in TenantRows
    /\ workers \in WorkerRows
    /\ ctx \in [Contexts -> Registers]
    /\ forwarded \in [Tenants -> Nat]
    /\ charged \in [Workers -> Word]
    /\ mixed \subseteq Tenants
    /\ crossed \subseteq Workers
    /\ before.alone =>
         before.tenants \in TenantRows /\ before.workers \in WorkerRows

\* The timestamp counts from the start of the card, and slot 0 is a slot.
P4Init ==
    /\ arrived = 0
    /\ tenants = [t \in Tenants |-> [slot |-> 0, nb |-> 0, wid |-> HomeWid[t]]]
    /\ workers = [w \in Workers |-> [slot |-> 0, load |-> 0, last |-> 0, times |-> 0]]
    /\ ctx = [c \in Contexts |-> Idle]
    /\ forwarded = [t \in Tenants |-> 0]
    /\ charged = [w \in Workers |-> 0]
    /\ mixed = {}
    /\ crossed = {}
    /\ before = NotAlone

-----------------------------------------------------------------------------
(* What an access is made of *)

Busy(c) == ctx[c].pc # "idle"
Others(c) == {d \in Contexts \ {c} : Busy(d)}
OnTenant(c, t) == {d \in Others(c) : ctx[d].tid = t}
OnWorker(c, w) ==
    {d \in Others(c) : /\ ctx[d].pc \notin {"tid_slot", "tid_nb", "tid_wid"}
                       /\ ctx[d].wid = w}

At(c, pc) == ctx[c].pc = pc
Goto(c, pc) == ctx' = [ctx EXCEPT ![c].pc = pc]
Load(c, value, pc) == ctx' = [ctx EXCEPT ![c].value = value, ![c].pc = pc]

\* Every step but an arrival and a return.
Running == UNCHANGED <<arrived, before>>
SameTenants == UNCHANGED <<tenants, forwarded, mixed>>
SameWorkers == UNCHANGED <<workers, charged, crossed>>
ReadOnly == Running /\ SameTenants /\ SameWorkers

\* A store into a row of the workers' table, of a column the history ignores.
Store(c, w, row) ==
    /\ workers' = [workers EXCEPT ![w] = row]
    /\ UNCHANGED <<charged, crossed>>
    /\ Running /\ SameTenants

\* The function returns: the registers are free for the next packet.
Return(c) ==
    /\ ctx' = [ctx EXCEPT ![c] = Idle]
    /\ before' = NotAlone

(***************************************************************************)
(* A packet of port 0 or 1 for which the classifier has a rule: tenant t.  *)
(* (Packets it drops, and those of the other ports, touch neither table.)  *)
(* The timestamp was taken when it entered the card, and wraps: any slot   *)
(* may follow any other.                                                   *)
(***************************************************************************)
Arrive(c, t, s) ==
    /\ At(c, "idle")
    /\ arrived < PacketBound
    /\ arrived' = arrived + 1
    /\ ctx' = [ctx EXCEPT ![c] = [Idle EXCEPT !.pc = "tid_slot", !.tid = t,
                                              !.timeslot = s]]
    /\ before' = IF Others(c) = {}
                 THEN [alone |-> TRUE, tenants |-> tenants, workers |-> workers]
                 ELSE NotAlone
    /\ mixed' = IF OnTenant(c, t) = {} THEN mixed ELSE mixed \cup {t}
    /\ UNCHANGED <<tenants, forwarded>>
    /\ SameWorkers

-----------------------------------------------------------------------------
(* The tenant's row *)

ReadTidSlot(c) ==
    /\ At(c, "tid_slot")
    /\ ctx' = [ctx EXCEPT ![c].cur = tenants[ctx[c].tid].slot, ![c].pc = "tid_nb"]
    /\ ReadOnly

ReadNb(c) ==
    /\ At(c, "tid_nb")
    /\ ctx' = [ctx EXCEPT ![c].nb = tenants[ctx[c].tid].nb, ![c].pc = "tid_wid"]
    /\ ReadOnly

FirstOfSlot(c) == ctx[c].cur # ctx[c].timeslot
NextNb(c) == (ctx[c].nb + 1) % U32

OverQuota(c) == NextNb(c) > MaxNb[ctx[c].tid]

ReadWid(c) ==
    /\ At(c, "tid_wid")
    /\ FirstOfSlot(c) \/ ~OverQuota(c)
    /\ LET w == tenants[ctx[c].tid].wid
       IN  /\ ctx' = [ctx EXCEPT ![c].wid = w,
                                 ![c].pc = IF FirstOfSlot(c) THEN "open" ELSE "count"]
           /\ crossed' = IF OnWorker(c, w) = {} THEN crossed ELSE crossed \cup {w}
    /\ Running /\ SameTenants
    /\ UNCHANGED <<workers, charged>>

Drop(c) ==
    /\ At(c, "tid_wid")
    /\ ~FirstOfSlot(c)
    /\ OverQuota(c)
    /\ Return(c)
    /\ UNCHANGED arrived
    /\ SameTenants /\ SameWorkers

WriteNb(c) ==
    /\ At(c, "count")
    /\ tenants' = [tenants EXCEPT ![ctx[c].tid].nb = NextNb(c)]
    /\ forwarded' = [forwarded EXCEPT ![ctx[c].tid] = @ + 1]
    /\ Goto(c, "load")
    /\ UNCHANGED mixed
    /\ Running /\ SameWorkers

WriteTidSlot(c) ==
    /\ At(c, "open")
    /\ tenants' = [tenants EXCEPT ![ctx[c].tid].slot = ctx[c].timeslot]
    /\ Goto(c, "first")
    /\ UNCHANGED <<forwarded, mixed>>
    /\ Running /\ SameWorkers

\* The count starts again, whatever was lost in the slots before.
OpenCount(c, nb) ==
    LET t == ctx[c].tid
    IN  /\ At(c, "first")
        /\ tenants' = [tenants EXCEPT ![t].nb = nb]
        /\ forwarded' = [forwarded EXCEPT ![t] = 1]
        /\ mixed' = IF OnTenant(c, t) = {} THEN mixed \ {t} ELSE mixed
        /\ Goto(c, "wid_slot")
        /\ Running /\ SameWorkers

\* A bug: the first packet of a slot is not counted.
WriteNoFirst(c) == OpenCount(c, 0)

WriteFirst(c) == OpenCount(c, 1)

-----------------------------------------------------------------------------
(* The worker's row: the first packet of a slot closes the one before *)

ReadWidSlot(c) ==
    /\ At(c, "wid_slot")
    /\ Goto(c, IF workers[ctx[c].wid].slot # ctx[c].timeslot THEN "close" ELSE "last")
    /\ ReadOnly

ReadClosed(c) ==
    /\ At(c, "close")
    /\ Load(c, workers[ctx[c].wid].load, "roll_slot")
    /\ ReadOnly

WriteWidSlot(c) ==
    LET w == ctx[c].wid
    IN  /\ At(c, "roll_slot")
        /\ Store(c, w, [workers[w] EXCEPT !.slot = ctx[c].timeslot])
        /\ Goto(c, "roll_load")

RestartLoad(c, load) ==
    LET w == ctx[c].wid
    IN  /\ At(c, "roll_load")
        /\ workers' = [workers EXCEPT ![w].load = load]
        /\ charged' = [charged EXCEPT ![w] = 0]
        /\ crossed' = IF OnWorker(c, w) = {} THEN crossed \ {w} ELSE crossed
        /\ Goto(c, "roll_last")
        /\ Running /\ SameTenants

\* A bug: the closed load is carried into the new slot.
KeepLoad(c) == RestartLoad(c, workers[ctx[c].wid].load)

WriteNoLoad(c) == RestartLoad(c, 0)

WriteClosed(c) ==
    LET w == ctx[c].wid
    IN  /\ At(c, "roll_last")
        /\ Store(c, w, [workers[w] EXCEPT !.last = ctx[c].value])
        /\ Goto(c, "last")

ReadLast(c) ==
    /\ At(c, "last")
    /\ Goto(c, IF workers[ctx[c].wid].last < MaxLoad THEN "calm" ELSE "times")
    /\ ReadOnly

WriteCalm(c) ==
    LET w == ctx[c].wid
    IN  /\ At(c, "calm")
        /\ Store(c, w, [workers[w] EXCEPT !.times = 0])
        /\ Goto(c, "load")

ReadTimes(c) ==
    /\ At(c, "times")
    /\ Load(c, workers[ctx[c].wid].times, "streak")
    /\ ReadOnly

\* The scan starts from a minimum no worker is above; its worker is not set.
WriteStreak(c) ==
    LET w == ctx[c].wid
    IN  /\ At(c, "streak")
        /\ Store(c, w, [workers[w] EXCEPT !.times = (ctx[c].value + 1) % U32])
        /\ ctx' = [ctx EXCEPT ![c].pc = "scan", ![c].i = 0, ![c].minLoad = U32 - 1]

-----------------------------------------------------------------------------
(* An overloaded worker: the tenant is moved to the least loaded one *)

Lower(c) == workers[ctx[c].i].last < ctx[c].minLoad

Scan(c) ==
    /\ At(c, "scan")
    /\ ctx[c].i < MAX_WORKERS
    /\ ctx' = [ctx EXCEPT ![c].i = @ + 1,
                          ![c].minLoad = IF Lower(c) THEN workers[ctx[c].i].last ELSE @,
                          ![c].minWorker = IF Lower(c) THEN ctx[c].i ELSE @]
    /\ ReadOnly

\* A bug: the target is not charged for what the tenant sends.
MinLoadUncharged(c) == ctx[c].minLoad

\* The load the target would have with the tenant's packets of its last slot.
MinLoad(c) == (ctx[c].minLoad + ctx[c].nb) % U32

\* No minimum: min_worker is read before it is set, and may name any row.
Targets(c) == IF ctx[c].minLoad = U32 - 1 THEN Workers ELSE {ctx[c].minWorker}

EndScan(c) ==
    /\ At(c, "scan")
    /\ ctx[c].i = MAX_WORKERS
    /\ \E target \in Targets(c) :
         ctx' = [ctx EXCEPT ![c].pc = IF MinLoad(c) < MaxLoad THEN "bind" ELSE "load",
                            ![c].minLoad = MinLoad(c), ![c].minWorker = target]
    /\ ReadOnly

WriteWid(c) ==
    /\ At(c, "bind")
    /\ tenants' = [tenants EXCEPT ![ctx[c].tid].wid = ctx[c].minWorker]
    /\ Goto(c, "grant")
    /\ UNCHANGED <<forwarded, mixed>>
    /\ Running /\ SameWorkers

WriteTarget(c) ==
    LET w == ctx[c].minWorker
    IN  /\ At(c, "grant")
        /\ Store(c, w, [workers[w] EXCEPT !.last = ctx[c].minLoad])
        /\ Goto(c, "relief")

ReadRelief(c) ==
    /\ At(c, "relief")
    /\ Load(c, workers[ctx[c].wid].last, "relieve")
    /\ ReadOnly

Less(c) == (ctx[c].value - ctx[c].nb) % U32

WriteRelief(c) ==
    LET w == ctx[c].wid
    IN  /\ At(c, "relieve")
        /\ Store(c, w, [workers[w] EXCEPT !.last = Less(c)])
        /\ Goto(c, "load")

-----------------------------------------------------------------------------
(* The packet is charged to the worker it goes to: the one read first *)

ReadLoad(c) ==
    /\ At(c, "load")
    /\ Load(c, workers[ctx[c].wid].load, "charge")
    /\ ReadOnly

WriteLoad(c) ==
    LET w == ctx[c].wid
    IN  /\ At(c, "charge")
        /\ workers' = [workers EXCEPT ![w].load = (ctx[c].value + 1) % U32]
        /\ charged' = [charged EXCEPT ![w] = (@ + 1) % U32]
        /\ Return(c)
        /\ UNCHANGED crossed
        /\ UNCHANGED arrived
        /\ SameTenants

Dispatch(c) ==
    \/ ReadTidSlot(c) \/ ReadNb(c) \/ ReadWid(c) \/ Drop(c)
    \/ WriteNb(c) \/ WriteTidSlot(c) \/ WriteFirst(c)
    \/ ReadWidSlot(c) \/ ReadClosed(c) \/ WriteWidSlot(c) \/ WriteNoLoad(c)
    \/ WriteClosed(c) \/ ReadLast(c) \/ WriteCalm(c) \/ ReadTimes(c) \/ WriteStreak(c)
    \/ Scan(c) \/ EndScan(c) \/ WriteWid(c) \/ WriteTarget(c)
    \/ ReadRelief(c) \/ WriteRelief(c)
    \/ ReadLoad(c) \/ WriteLoad(c)

P4Next ==
    \E c \in Contexts :
        \/ Dispatch(c)
        \/ \E t \in Tenants, s \in Slots : Arrive(c, t, s)

P4Spec == P4Init /\ [][P4Next]_p4Vars

-----------------------------------------------------------------------------
(* Properties *)

(* A tenant is metered exactly, however the packets of other tenants run in  *)
(* between: unless two packets of the same tenant overlapped since its row   *)
(* was opened, the count is what was forwarded, and beyond the quota only    *)
(* the packet that opens a slot, which is never refused (plugin.c:94-109).   *)
CountsAreExact ==
    \A t \in Tenants \ mixed :
        /\ tenants[t].nb = forwarded[t]
        /\ forwarded[t] <= MaxNb[t] \/ forwarded[t] = 1

(* A worker's load is the packets charged to it, whatever is moved to or     *)
(* from it meanwhile, unless two packets for the worker itself overlapped    *)
(* since its slot was closed (plugin.c:111-121, 160-164).                    *)
LoadsAreExact ==
    \A w \in Workers \ crossed : workers[w].load = charged[w]

\* What one packet alone must do to the tables b: tenant t, slot s.
Rolled(b, w, s) ==
    LET row == b.workers[w]
    IN  IF row.slot = s THEN row
        ELSE [row EXCEPT !.slot = s, !.last = row.load, !.load = 0]

Refused(b, t) ==
    /\ tenants' = b.tenants /\ workers' = b.workers
    /\ b.tenants[t].nb + 1 > MaxNb[t]

Metered(b, t) ==
    LET w == b.tenants[t].wid
    IN  /\ tenants' = [b.tenants EXCEPT ![t].nb = @ + 1]
        /\ workers' = [b.workers EXCEPT ![w].load = (@ + 1) % U32]
        /\ b.tenants[t].nb < MaxNb[t]

\* Loads are words: a relief that races with the close of a slot can leave a
\* last load below 0, and then the sum with the tenant's packets wraps, too.
Opened(b, t, s) ==
    LET from == b.tenants[t].wid
        to == tenants'[t].wid
        row == Rolled(b, from, s)
        last == [w \in Workers |-> IF w = from THEN row.last ELSE b.workers[w].last]
        least == {w \in Workers : \A v \in Workers : last[w] <= last[v]}
        fits == {w \in least \ {from} : (last[w] + b.tenants[t].nb) % U32 < MaxLoad}
    IN  /\ tenants' = [b.tenants EXCEPT ![t] = [slot |-> s, nb |-> 1, wid |-> to]]
        /\ \A w \in Workers \ {from, to} : workers'[w] = b.workers[w]
        /\ workers'[from].load = (row.load + 1) % U32
        /\ workers'[from].slot = s
        /\ IF to = from
           THEN /\ row.last >= MaxLoad => fits = {} \/ from \in least
                /\ workers'[from].last = row.last
           ELSE /\ row.last >= MaxLoad
                /\ to \in fits
                /\ workers'[to] = [b.workers[to] EXCEPT !.last = (@ + b.tenants[t].nb) % U32]
                /\ workers'[from].last = row.last - b.tenants[t].nb

(* A packet during which no other one arrives is dispatched as a whole, from *)
(* whatever the tables hold, even what earlier overlaps left in them: it is  *)
(* refused and leaves no trace, or it is metered and charged once, or it     *)
(* opens its slot and moves its tenant off an overloaded worker, and off no  *)
(* other, to a least loaded one that has room for the load it takes along    *)
(* (plugin.c:94-165).                                                        *)
DispatchIsWhole ==
    [][\A c \in Contexts :
         (Busy(c) /\ ctx'[c].pc = "idle" /\ before.alone) =>
            LET t == ctx[c].tid
                s == ctx[c].timeslot
            IN  IF before.tenants[t].slot = s
                THEN Refused(before, t) \/ Metered(before, t)
                ELSE Opened(before, t, s)]_p4Vars

===============================================================================
