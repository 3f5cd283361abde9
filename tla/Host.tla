--------------------------------- MODULE Host ---------------------------------
(***************************************************************************)
(* What surrounds the data path of the two frameworks, mtnf/framework      *)
(* (the NIC dispatches) and mtnf/framework_software (a core does): the     *)
(* command line, the start-up in init, the launch of the cores, the search *)
(* of a core for its ring and port, the counters, the display of the       *)
(* master and the end.  What a core does with packets is in Dispatcher and *)
(* Worker; here it serves a full buffer at a time and counts it.           *)
(***************************************************************************)
EXTENDS Integers, Sequences, FiniteSets, SequencesExt

CONSTANTS
    DevCount,        \* rte_eth_dev_count()
    Bits,            \* bits of a port mask, more than there are ports
    QUEUE_NUM,
    MAX_TENANTS,
    LcoreCounts,     \* how many lcores the EAL may be given: for each program a set
    MaskArgs,        \* what may follow -p: [bits |-> set of bits, rest |-> BOOLEAN]
    TenantArgs,      \* what may follow -t: [value |-> number, rest |-> BOOLEAN]
    PeriodArgs,      \* what may follow -T, likewise
    U32,             \* 2^32: numbers are kept in 32 bits and returned as int
    TIMER_PERIOD,
    MAX_PKT_BUFFER,
    MAX_CHECK_TIME,
    OptBound,        \* bound: options given
    WorkBound        \* bound: buffers the workers serve and flushes of the dispatcher

Devices == 0 .. DevCount - 1
Queues == 0 .. QUEUE_NUM - 1
Tenants == 0 .. MAX_TENANTS - 1
Programs == {"hardware", "software"}

\* The lcores are numbered from 0; 0 is the master.
Lcores(n) == 0 .. n - 1
WorkerIds == UNION ({0 .. n - 2 : n \in LcoreCounts["hardware"]}
                    \cup {0 .. n - 3 : n \in LcoreCounts["software"]})

ASSUME HostAssumption ==
    /\ DevCount \in Nat \ {0} /\ Devices \subseteq Bits /\ Bits \subseteq Nat
    /\ QUEUE_NUM \in Nat \ {0}
    /\ MAX_TENANTS \in Nat \ {0}
    /\ LcoreCounts \in [Programs -> SUBSET (Nat \ {0})]
    /\ MaskArgs \subseteq [bits : SUBSET Bits, rest : BOOLEAN]
    /\ (TenantArgs \cup PeriodArgs) \subseteq [value : Nat, rest : BOOLEAN]
    /\ U32 \in Nat /\ U32 > 2 * MAX_TENANTS /\ U32 % 2 = 0
    /\ TIMER_PERIOD \in 1 .. (U32 \div 2) - 1
    /\ MAX_PKT_BUFFER \in Nat \ {0}
    /\ MAX_CHECK_TIME \in Nat \ {0}
    /\ OptBound \in Nat /\ WorkBound \in Nat

VARIABLES
    program,
    lcores,         \* rte_lcore_count()
    pc,             \* where main is
    options,        \* options parsed
    port_mask,      \* the set of its bits
    port_id,        \* the first num_ports entries of ports->id
    tenant_number,
    timer_period,
    started,        \* devices rte_eth_dev_start has started
    todo,           \* the device init_all_ports comes to next
    count,          \* passes over the links
    print_flag,
    cur_lcore,
    launched,       \* workers launched
    thread,         \* [lcores -> "none", "dispatcher", "worker"]
    keep_running,
    last,           \* [Cells -> Nat]: what was displayed at the previous refresh
    oddities,       \* history: what was unusual about the command line
    wrapped         \* history: cells whose difference was negative

VARIABLES
    worker,         \* [WorkerIds -> ...]: where worker_thread is, or the counter it raises
    info,           \* [WorkerIds -> WorkerIds]: worker_info->id
    ring,           \* [WorkerIds -> Queues or none]: the ring a worker found
    nb_tx,          \* [WorkerIds -> Nat]: what the port takes of a buffer's packets
    has_read,       \* [WorkerIds -> BOOLEAN]: the counter is read and not yet written
    reg,            \* [WorkerIds -> Nat]: the value it had
    work,           \* history: buffers served and q_buffers flushed
    dispatcher,     \* where dispatcher_thread is
    wid,            \* the queue it looks for
    buffer,         \* get_queue_name's: the number in it
    naming,         \* history: threads between get_queue_name and the search
    overlapped,     \* history: one wrote the buffer while another was there
    misplaced,      \* history: the dispatcher filled another ring than it meant
    counter,        \* [Counters -> Nat]: ports->stats[]
    real,           \* history: [Counters -> Nat]: what was to be counted
    writers         \* history: [Counters -> SUBSET WorkerIds]

PortCounters == {"rx", "tx", "tx_drop"}
Counters == PortCounters \X Devices

\* What the display remembers, row by row of ports->id.
Cells == PortCounters \X (0 .. OptBound * DevCount - 1)

argVars == <<options, port_mask, port_id, tenant_number, timer_period, oddities>>
initVars == <<started, todo, count, print_flag>>
launchVars == <<cur_lcore, launched, thread, info>>
showVars == <<last, wrapped>>
nameVars == <<dispatcher, wid, ring, buffer, naming, overlapped, misplaced>>
countVars == <<nb_tx, has_read, reg, work, counter, real, writers>>
vars == <<program, lcores, pc, argVars, initVars, launchVars, keep_running, showVars,
          worker, nameVars, countVars>>

\* "failed": main returned -1; "exited": rte_exit; "fault": undefined behaviour.
MainPcs == {"args", "allocate", "ports", "links", "queues", "launch", "loop",
            "show", "remember", "ended", "failed", "exited", "fault"}
Ended == {"ended", "failed", "exited", "fault"}

WorkerPcs == {"off", "start", "named", "poll", "rx", "tx_drop", "tx", "done"}

HostTypeOK ==
    /\ program \in Programs /\ lcores \in LcoreCounts[program]
    /\ pc \in MainPcs
    /\ options \in 0 .. OptBound
    /\ port_mask \subseteq Bits
    /\ port_id \in Seq(Devices)
    /\ tenant_number \in 0 .. (U32 \div 2) - 1
    /\ timer_period \in 0 .. (U32 \div 2) - 1
    /\ started \subseteq Devices /\ todo \in 0 .. DevCount
    /\ count \in 0 .. MAX_CHECK_TIME + 1 /\ print_flag \in BOOLEAN
    /\ cur_lcore \in Lcores(lcores) /\ launched \in 0 .. lcores
    /\ thread \in [Lcores(lcores) -> {"none", "dispatcher", "worker"}]
    /\ keep_running \in BOOLEAN
    /\ last \in [Cells -> Nat] /\ wrapped \subseteq Cells
    /\ oddities \subseteq {"masks", "malformed mask", "period 0", "tenants", "long"}
    /\ worker \in [WorkerIds -> WorkerPcs]
    /\ info \in [WorkerIds -> WorkerIds]
    /\ ring \in [WorkerIds -> Queues \cup {QUEUE_NUM}]
    /\ nb_tx \in [WorkerIds -> 0 .. MAX_PKT_BUFFER]
    /\ has_read \in [WorkerIds -> BOOLEAN] /\ reg \in [WorkerIds -> Nat]
    /\ work \in 0 .. WorkBound
    /\ dispatcher \in {"off", "poll", "named", "done"}
    /\ wid \in Queues /\ buffer \in Nat
    /\ naming \subseteq WorkerIds \cup {-1}
    /\ overlapped \in BOOLEAN /\ misplaced \in BOOLEAN
    /\ counter \in [Counters -> Nat] /\ real \in [Counters -> Nat]
    /\ writers \in [Counters -> SUBSET WorkerIds]

Init ==
    /\ program \in Programs /\ lcores \in LcoreCounts[program]
    /\ pc = "args" /\ options = 0 /\ oddities = {}
    /\ port_mask = {} /\ port_id = <<>>
    /\ tenant_number = MAX_TENANTS /\ timer_period = TIMER_PERIOD
    /\ started = {} /\ todo = 0 /\ count = 0 /\ print_flag = FALSE
    /\ cur_lcore = 0 /\ launched = 0
    /\ thread = [c \in Lcores(lcores) |-> "none"]
    /\ info = [w \in WorkerIds |-> 0]
    /\ keep_running = TRUE
    /\ last = [c \in Cells |-> 0] /\ wrapped = {}
    /\ worker = [w \in WorkerIds |-> "off"]
    /\ ring = [w \in WorkerIds |-> QUEUE_NUM]
    /\ nb_tx = [w \in WorkerIds |-> 0]
    /\ has_read = [w \in WorkerIds |-> FALSE] /\ reg = [w \in WorkerIds |-> 0]
    /\ work = 0
    /\ dispatcher = "off" /\ wid = 0 /\ buffer = 0
    /\ naming = {} /\ overlapped = FALSE /\ misplaced = FALSE
    /\ counter = [c \in Counters |-> 0] /\ real = [c \in Counters |-> 0]
    /\ writers = [c \in Counters |-> {}]

\* main goes on to, or ends at, the given place and leaves the rest alone.
GoTo(place) ==
    /\ pc' = place
    /\ UNCHANGED <<program, lcores, argVars, initVars, launchVars, keep_running,
                   showVars, worker, nameVars, countVars>>

-----------------------------------------------------------------------------
(* mtnf_parse_args *)

\* The unsigned number as the int that the parsers return.
AsInt(v) == LET u == v % U32 IN IF u < U32 \div 2 THEN u ELSE u - U32

\* mtnf_parse_portmask: -1, as a mask, has every bit.
ParsePortmask(arg) == IF arg.bits # {} /\ arg.rest THEN Bits ELSE arg.bits

\* The loop over the devices finds them from the lowest on.
IsAscending(s) == \A i, j \in DOMAIN s : i < j => s[i] < s[j]
Ascending(S) == CHOOSE s \in [1 .. Cardinality(S) -> S] : IsAscending(s) /\ ToSet(s) = S

\* The present ones of the ports it marks.
Marked(arg) == IF arg.rest THEN <<>> ELSE Ascending(arg.bits \cap Devices)

\* mtnf_parse_tenant_number: a 0 is returned before the rest is looked at.
ParseTenantNumber(arg) ==
    IF arg.value % U32 # 0 /\ arg.rest THEN -1 ELSE AsInt(arg.value)

\* A bug: characters after the number, or instead of it, are not noticed.
ParseTimerPeriodAny(arg) == AsInt(arg.value)

ParseTimerPeriod(arg) == IF arg.rest THEN -1 ELSE AsInt(arg.value)

Option ==
    /\ pc = "args" /\ options < OptBound
    /\ options' = options + 1
    /\ UNCHANGED <<program, lcores, initVars, launchVars, keep_running, showVars,
                   worker, nameVars, countVars>>

Noted(odd, condition) == IF condition THEN {odd} ELSE {}

OptPortmask ==
    /\ Option
    /\ \E arg \in MaskArgs :
         /\ port_mask' = ParsePortmask(arg)
         /\ port_id' = port_id \o Marked(arg)
         /\ pc' = IF port_mask' = {} THEN "failed" ELSE pc
         /\ oddities' = oddities \cup Noted("masks", port_mask # {})
                                 \cup Noted("malformed mask", arg.rest)
    /\ UNCHANGED <<tenant_number, timer_period>>

OptTenantNumber ==
    /\ Option
    /\ \E arg \in TenantArgs :
         IF ParseTenantNumber(arg) < 0
         THEN pc' = "failed" /\ UNCHANGED <<tenant_number, oddities>>
         ELSE /\ tenant_number' = ParseTenantNumber(arg)
              /\ oddities' = oddities \cup Noted("tenants", arg.value # MAX_TENANTS)
              /\ UNCHANGED pc
    /\ UNCHANGED <<port_mask, port_id, timer_period>>

OptTimerPeriod ==
    /\ Option
    /\ \E arg \in PeriodArgs :
         IF ParseTimerPeriod(arg) < 0
         THEN pc' = "failed" /\ UNCHANGED <<timer_period, oddities>>
         ELSE /\ timer_period' = ParseTimerPeriod(arg)
              /\ oddities' = oddities
                    \cup Noted("period 0", arg.value % U32 = 0 /\ ~arg.rest)
              /\ UNCHANGED pc
    /\ UNCHANGED <<port_mask, port_id, tenant_number>>

\* --tenant-number and --timer-period take no argument: optarg is NULL.  An option
\* that is none of them is searched for beyond lgopts, which has no end mark.
OptLong ==
    /\ Option
    /\ pc' \in {"failed", "fault"}
    /\ oddities' = oddities \cup {"long"}
    /\ UNCHANGED <<port_mask, port_id, tenant_number, timer_period>>

EndArgs ==
    /\ pc = "args" /\ pc' = "allocate"
    /\ options' = 0
    /\ UNCHANGED <<program, lcores, port_mask, port_id, tenant_number, timer_period,
                   oddities, initVars, launchVars, keep_running, showVars, worker,
                   nameVars, countVars>>

-----------------------------------------------------------------------------
(* init *)

\* rte_calloc of no rows yields NULL, as a pool or memory zone that fails does.
Allocate ==
    /\ pc = "allocate"
    /\ \/ tenant_number > 0 /\ GoTo("ports")
       \/ GoTo("exited")

\* A bug: the bit of the next port is looked at.
Enabled1(p) == p + 1 \in port_mask

EnabledPort(p) == p \in port_mask

InitPort ==
    /\ pc = "ports" /\ todo < DevCount
    /\ todo' = todo + 1
    /\ started' = IF EnabledPort(todo) THEN started \cup {todo} ELSE started
    /\ UNCHANGED <<program, lcores, pc, argVars, count, print_flag, launchVars,
                   keep_running, showVars, worker, nameVars, countVars>>

PortFails ==
    /\ pc = "ports" /\ todo < DevCount /\ EnabledPort(todo)
    /\ GoTo("exited")

EndPorts == pc = "ports" /\ todo = DevCount /\ GoTo("links")

\* A bug: the wait starts again for a link that is down.
LinkPassAgain ==
    /\ pc = "links" /\ count <= MAX_CHECK_TIME /\ ~print_flag
    /\ \E up \in BOOLEAN :
         /\ port_mask \cap Devices = {} => up
         /\ print_flag' = up
         /\ count' = IF up \/ count < MAX_CHECK_TIME THEN count + 1 ELSE 0
    /\ UNCHANGED <<program, lcores, pc, argVars, started, todo, launchVars,
                   keep_running, showVars, worker, nameVars, countVars>>

\* One pass over the links of the enabled ports, which may be up or down.
LinkPass ==
    /\ pc = "links" /\ count <= MAX_CHECK_TIME /\ ~print_flag
    /\ \E up \in BOOLEAN :
         /\ port_mask \cap Devices = {} => up
         /\ print_flag' = (up \/ count = MAX_CHECK_TIME - 1)
         /\ count' = count + 1
    /\ UNCHANGED <<program, lcores, pc, argVars, started, todo, launchVars,
                   keep_running, showVars, worker, nameVars, countVars>>

\* The pass that prints is the last.
EndLinks ==
    /\ pc = "links" /\ (print_flag \/ count > MAX_CHECK_TIME)
    /\ pc' = IF program = "software" THEN "queues" ELSE "launch"
    /\ count' = 0 /\ print_flag' = FALSE
    /\ UNCHANGED <<program, lcores, argVars, started, todo, launchVars, keep_running,
                   showVars, worker, nameVars, countVars>>

CreateQueues == pc = "queues" /\ (GoTo("launch") \/ GoTo("exited"))

-----------------------------------------------------------------------------
(* main: the launches *)

\* rte_get_next_lcore(cur_lcore, 1, 1) skips the master and wraps.
NextLcore == IF cur_lcore + 1 < lcores THEN cur_lcore + 1 ELSE 1

WorkerLcores == IF program = "software" THEN lcores - 2 ELSE lcores - 1

LaunchOn(kind) ==
    /\ cur_lcore' = NextLcore
    /\ IF thread[NextLcore] # "none"
       THEN pc' = "failed" /\ UNCHANGED thread
       ELSE pc' = pc /\ thread' = [thread EXCEPT ![NextLcore] = kind]
    /\ UNCHANGED <<program, lcores, argVars, initVars, keep_running, showVars,
                   countVars>>

DispatcherLaunched ==
    program = "software" => \E c \in Lcores(lcores) : thread[c] = "dispatcher"

\* With no core but the master the search for the next one never ends.
LaunchDispatcher ==
    /\ pc = "launch" /\ ~DispatcherLaunched /\ lcores > 1
    /\ LaunchOn("dispatcher")
    /\ dispatcher' = "poll"
    /\ UNCHANGED <<launched, info, worker, wid, ring, buffer, naming, overlapped,
                   misplaced>>

\* A bug: one worker_info is allocated, before the loop.
InfoShared == [w \in WorkerIds |-> launched]

InfoOwn == [info EXCEPT ![launched] = launched]

LaunchWorker ==
    /\ pc = "launch" /\ launched < WorkerLcores
    /\ DispatcherLaunched
    /\ LaunchOn("worker")
    /\ launched' = launched + 1
    /\ IF pc' = "failed" THEN UNCHANGED <<info, worker>>
       ELSE /\ info' = InfoOwn
            /\ worker' = [worker EXCEPT ![launched] = "start"]
    /\ UNCHANGED nameVars

LaunchesDone ==
    /\ pc = "launch" /\ launched = WorkerLcores /\ DispatcherLaunched
    /\ GoTo("loop")

-----------------------------------------------------------------------------
(* The search for a ring by name: framework_software only *)

\* A thread writes its number in the buffer all threads share.
Name(t, id) ==
    /\ buffer' = id
    /\ overlapped' = (overlapped \/ naming # {})
    /\ naming' = naming \cup {t}

\* A name that nobody will read any more is forgotten.
NameIsRead(t) ==
    /\ naming' = naming \ {t}
    /\ buffer' = IF naming' = {} THEN 0 ELSE buffer

Running == pc \notin Ended

WorkerNames(w) ==
    /\ Running /\ worker[w] = "start" /\ program = "software"
    /\ Name(w, info[w])
    /\ worker' = [worker EXCEPT ![w] = "named"]
    /\ UNCHANGED <<program, lcores, pc, argVars, initVars, launchVars, keep_running,
                   showVars, dispatcher, wid, ring, misplaced, countVars>>

\* The ring of the name that is in the buffer by now.
WorkerLooksUp(w) ==
    /\ Running /\ worker[w] = "named"
    /\ IF buffer \in Queues
       THEN /\ ring' = [ring EXCEPT ![w] = buffer]
            /\ worker' = [worker EXCEPT ![w] = "poll"]
            /\ UNCHANGED pc
       ELSE pc' = "exited" /\ UNCHANGED <<ring, worker>>
    /\ NameIsRead(w)
    /\ UNCHANGED <<program, lcores, argVars, initVars, launchVars, keep_running,
                   showVars, dispatcher, wid, overlapped, misplaced, countVars>>

\* The hardware dispatches: a worker has a port and no ring.
WorkerStarts(w) ==
    /\ Running /\ worker[w] = "start" /\ program = "hardware"
    /\ worker' = [worker EXCEPT ![w] = "poll"]
    /\ UNCHANGED <<program, lcores, pc, argVars, initVars, launchVars, keep_running,
                   showVars, nameVars, countVars>>

\* A full q_buffer is to be flushed to its worker's ring.
DispatcherNames ==
    /\ Running /\ dispatcher = "poll" /\ keep_running /\ port_id # <<>>
    /\ work < WorkBound /\ work' = work + 1
    /\ wid' \in Queues
    /\ Name(-1, wid')
    /\ dispatcher' = "named"
    /\ UNCHANGED <<program, lcores, pc, argVars, initVars, launchVars, keep_running,
                   showVars, worker, ring, misplaced, nb_tx,
                   has_read, reg, counter, real, writers>>

DispatcherLooksUp ==
    /\ Running /\ dispatcher = "named"
    /\ IF buffer \in Queues
       THEN /\ misplaced' = (misplaced \/ buffer # wid)
            /\ dispatcher' = "poll" /\ wid' = 0
            /\ UNCHANGED pc
       ELSE pc' = "exited" /\ UNCHANGED <<misplaced, dispatcher, wid>>
    /\ NameIsRead(-1)
    /\ UNCHANGED <<program, lcores, argVars, initVars, launchVars, keep_running,
                   showVars, worker, ring, overlapped, countVars>>

DispatcherStops ==
    /\ Running /\ dispatcher = "poll" /\ ~keep_running
    /\ dispatcher' = "done"
    /\ UNCHANGED <<program, lcores, pc, argVars, initVars, launchVars, keep_running,
                   showVars, worker, wid, ring, buffer, naming, overlapped, misplaced,
                   countVars>>

-----------------------------------------------------------------------------
(* A worker: a full buffer, and the counters it is counted in *)

\* ports->id[worker_info->id]; the entries beyond num_ports are zero.
PortOf(w) == IF info[w] < Len(port_id) THEN port_id[info[w] + 1] ELSE 0

\* Its tenant's row is one of tenant_number, and its port is one that runs.
Inside(w, t) == t < tenant_number /\ PortOf(w) \in started

\* What the port does not take is counted before what it takes.
FirstSent(n) == IF n < MAX_PKT_BUFFER THEN "tx_drop" ELSE "tx"

\* How much the port will take is chosen at once.
WorkerServes(w) ==
    /\ Running /\ worker[w] = "poll" /\ keep_running
    /\ program = "software" => port_id # <<>>
    /\ work < WorkBound /\ ~overlapped   \* bound: mixed up rings are not followed
    /\ \E t \in Tenants, n \in 0 .. MAX_PKT_BUFFER :
         IF Inside(w, t)
         THEN /\ nb_tx' = [nb_tx EXCEPT ![w] = n]
              /\ worker' = [worker EXCEPT ![w] =
                                IF program = "hardware" THEN "rx" ELSE FirstSent(n)]
              /\ work' = work + 1
              /\ UNCHANGED pc
         ELSE pc' = "fault" /\ UNCHANGED <<nb_tx, worker, work>>
    /\ UNCHANGED <<program, lcores, argVars, initVars, launchVars, keep_running,
                   showVars, nameVars, has_read, reg, counter, real, writers>>

CounterOf(w) == <<worker[w], PortOf(w)>>

NextCounter(w) ==
    CASE worker[w] = "rx" -> FirstSent(nb_tx[w])
      [] worker[w] = "tx_drop" -> "tx"
      [] worker[w] = "tx" -> "poll"

Real(w) ==
    CASE worker[w] = "rx" -> MAX_PKT_BUFFER
      [] worker[w] = "tx_drop" -> MAX_PKT_BUFFER - nb_tx[w]
      [] worker[w] = "tx" -> nb_tx[w]

Raised(w) ==
    CASE worker[w] = "rx" -> MAX_PKT_BUFFER
      [] worker[w] = "tx_drop" -> MAX_PKT_BUFFER - nb_tx[w]
      [] worker[w] = "tx" -> nb_tx[w]

\* x += n is a read and a write.
ReadCounter(w) ==
    /\ Running /\ worker[w] \in PortCounters /\ ~has_read[w]
    /\ reg' = [reg EXCEPT ![w] = counter[CounterOf(w)]]
    /\ has_read' = [has_read EXCEPT ![w] = TRUE]
    /\ UNCHANGED <<program, lcores, pc, argVars, initVars, launchVars, keep_running,
                   showVars, worker, nameVars, nb_tx, work, counter, real, writers>>

WriteCounter(w) ==
    /\ Running /\ has_read[w]
    /\ counter' = [counter EXCEPT ![CounterOf(w)] = reg[w] + Raised(w)]
    /\ real' = [real EXCEPT ![CounterOf(w)] = @ + Real(w)]
    /\ writers' = [writers EXCEPT ![CounterOf(w)] = @ \cup {w}]
    /\ worker' = [worker EXCEPT ![w] = NextCounter(w)]
    /\ has_read' = [has_read EXCEPT ![w] = FALSE]
    /\ reg' = [reg EXCEPT ![w] = 0]
    /\ nb_tx' = IF worker[w] = "tx" THEN [nb_tx EXCEPT ![w] = 0] ELSE nb_tx
    /\ UNCHANGED <<program, lcores, pc, argVars, initVars, launchVars, keep_running,
                   showVars, nameVars, work>>

WorkerStops(w) ==
    /\ Running /\ worker[w] = "poll" /\ ~keep_running
    /\ worker' = [worker EXCEPT ![w] = "done"]
    /\ UNCHANGED <<program, lcores, pc, argVars, initVars, launchVars, keep_running,
                   showVars, nameVars, countVars>>

-----------------------------------------------------------------------------
(* master_thread and mtnf_stats_display_all *)

\* The sleep ends after the period or when a signal comes; either way the counters
\* are displayed before keep_running is looked at again.
Sleep ==
    /\ pc = "loop" /\ keep_running
    /\ GoTo("show")

\* A row, for every entry of ports->id and for every tenant.
Rows == Len(port_id) + tenant_number

\* A cell of the row of a port.
Displayed(cell) == counter[<<cell[1], port_id[cell[2] + 1]>>]

ShownCells == PortCounters \X (0 .. Len(port_id) - 1)

\* The differences to the last refresh, each divided by the period.  That all cells
\* are read at once hides nothing: each is compared with its own last value only.
Show ==
    /\ pc = "show" /\ (timer_period > 0 \/ Rows = 0) /\ tenant_number <= MAX_TENANTS
    /\ wrapped' = wrapped \cup {c \in ShownCells : Displayed(c) < last[c]}
    /\ pc' = "remember"
    /\ UNCHANGED <<program, lcores, argVars, initVars, launchVars, keep_running, last,
                   worker, nameVars, countVars>>

\* A bug: what is displayed is remembered for the row above.
RememberedAbove ==
    [c \in Cells |-> IF <<c[1], c[2] + 1>> \in ShownCells THEN Displayed(<<c[1], c[2] + 1>>)
                                                         ELSE last[c]]

Remembered == [c \in Cells |-> IF c \in ShownCells THEN Displayed(c) ELSE last[c]]

\* The counters are read once more, to be the last values of the next refresh: what is
\* counted in between appears in no difference.  The rows of the tenants are made as
\* those of the ports are.
Remember ==
    /\ pc = "remember"
    /\ last' = Remembered
    /\ pc' = "loop"
    /\ UNCHANGED <<program, lcores, argVars, initVars, launchVars, keep_running, wrapped,
                   worker, nameVars, countVars>>

\* A division by 0, or a row outside the arrays of MAX_TENANTS entries.
ShowFault ==
    /\ pc = "show"
    /\ (timer_period = 0 /\ Rows > 0) \/ tenant_number > MAX_TENANTS
    /\ GoTo("fault")

\* main returns, and the process ends, wherever the other threads are.
EndLoop == pc = "loop" /\ ~keep_running /\ GoTo("ended")

\* handle_signal, once main has installed it.
Signal ==
    /\ pc \in {"launch", "loop", "show", "remember"} /\ keep_running
    /\ keep_running' = FALSE
    /\ UNCHANGED <<program, lcores, pc, argVars, initVars, launchVars, showVars,
                   worker, nameVars, countVars>>

Main ==
    \/ OptPortmask \/ OptTenantNumber \/ OptTimerPeriod \/ OptLong \/ EndArgs
    \/ Allocate \/ InitPort \/ PortFails \/ EndPorts
    \/ LinkPass \/ EndLinks \/ CreateQueues
    \/ LaunchDispatcher \/ LaunchWorker \/ LaunchesDone
    \/ Sleep \/ Show \/ Remember \/ ShowFault \/ EndLoop

Next ==
    \/ Main \/ Signal
    \/ DispatcherNames \/ DispatcherLooksUp \/ DispatcherStops
    \/ \E w \in WorkerIds :
          \/ WorkerNames(w) \/ WorkerLooksUp(w) \/ WorkerStarts(w)
          \/ WorkerServes(w) \/ ReadCounter(w) \/ WriteCounter(w) \/ WorkerStops(w)

Spec == Init /\ [][Next]_vars

\* main runs on a core of its own; its calls return.
FairSpec == Spec /\ WF_vars(Main)

-----------------------------------------------------------------------------
(* Properties *)

Launching == pc \in {"launch", "loop", "show", "remember"}

(* mtnf_args.c:24-60, mtnf_port.c:125-136: the ports that are polled, listed *)
(* while the mask is parsed, and those that are started, found from the mask *)
(* later, are the same, each once, unless -p is given twice or malformed.    *)
PolledPortsAreStarted ==
    Launching /\ oddities \cap {"masks", "malformed mask"} = {} =>
        /\ ToSet(port_id) = started
        /\ Len(port_id) = Cardinality(started)

(* main.c:357, 370-385: the number of workers and the walk over the lcores   *)
(* fit each other: every thread has a lcore of its own and none is refused.  *)
LaunchesNeverCollide ==
    /\ Launching => Cardinality({c \in Lcores(lcores) : thread[c] = "worker"}) = launched
    /\ pc \in {"loop", "show", "remember"} => \A c \in Lcores(lcores) \ {0} : thread[c] # "none"
    /\ pc = "failed" => \A c \in Lcores(lcores) : thread[c] = "none"

(* mtnf_common.h:78-84, mtnf_queue.c:16-27: a ring has one consumer and gets *)
(* the packets meant for it, unless a thread wrote its name in the static    *)
(* buffer while another was between writing its own and looking it up.       *)
RingsAreOwn ==
    ~overlapped =>
        /\ \A w \in WorkerIds : ring[w] \in {w, QUEUE_NUM}
        /\ ~misplaced

(* main.c:245,299: two workers transmit on one port, whose only queue is for *)
(* one thread, only if there are more workers than ports, or -p was given    *)
(* twice or malformed.                                                       *)
Transmitting(w) == worker[w] \in {"tx_drop", "tx"}
PortsHaveOneWorker ==
    \A v, w \in WorkerIds :
        v # w /\ Transmitting(v) /\ Transmitting(w) /\ PortOf(v) = PortOf(w) =>
            \/ WorkerLcores > Len(port_id)
            \/ oddities \cap {"masks", "malformed mask"} # {}

(* main.c:299-304 (framework/main.c:66,111-116): packets are never counted twice, *)
(* and a counter that one worker raises is exact.                            *)
CountersAreExact ==
    \A c \in Counters :
        /\ counter[c] <= real[c]
        /\ Cardinality(writers[c]) <= 1 => counter[c] = real[c]

Writers(cell) == writers[<<cell[1], port_id[cell[2] + 1]>>]

(* mtnf_stats.c:32-50, 88-106: the unsigned differences displayed are real:  *)
(* only a counter raised by several workers is ever less than it was.        *)
RatesAreReal == \A c \in wrapped : Cardinality(Writers(c)) > 1

(* mtnf_args.c:83-95, mtnf_stats.c:39, main.c:262: what the program does is  *)
(* undefined only if asked for: by a period of 0, a number of tenants other  *)
(* than MAX_TENANTS, a long option, a mask given twice or malformed, or more *)
(* workers than ports.                                                       *)
FaultsAreAskedFor ==
    pc = "fault" => oddities # {} \/ WorkerLcores > Len(port_id)

(* main.c:346-391, mtnf_port.c:141-189: start-up comes to an end, links that *)
(* stay down included, unless there is no core to launch the dispatcher on.  *)
StartupEnds ==
    lcores > 1 \/ program = "hardware" ~> pc \in {"loop"} \cup Ended

(* main.c:44-51, 316-343: a signal ends the process.                         *)
EndsAfterSignal ==
    ~keep_running /\ (lcores > 1 \/ program = "hardware") ~> pc \in Ended

(* What is started fits what the command line asked for.                     *)
StartupIsSound == HostTypeOK /\ PolledPortsAreStarted /\ LaunchesNeverCollide

(* A ring and a transmit queue are used by one thread each.                  *)
QueuesHaveOneUser == RingsAreOwn /\ PortsHaveOneWorker

(* What is counted and displayed happened.                                   *)
StatisticsAreReal == CountersAreExact /\ RatesAreReal

(* Start-up and shut-down both come to an end.                               *)
PhasesEnd == StartupEnds /\ EndsAfterSignal

=============================================================================
