# Verification of MTNF

MTNF is a multi-tenant middlebox on DPDK. One dispatcher core classifies packets by tenant, meters
the tenants, binds each tenant to a worker core and hands packets over in batches of 32; worker
cores collect the packets of a tenant in a buffer and run a network function over each full buffer.
The repository also has a variant in which the network card dispatches, a dispatcher for a P4 card and
four stand-alone container programs. This directory holds TLA+ models of all of them, the TLC
configurations that check them and TLAPS proofs about them.

Paths are relative to `src/`. `main.c` without a directory is `mtnf/framework_software/main.c`.

- [1. The system](#1-the-system): what the code consists of
- [2. The modules](#2-the-modules): what models what
- [3. The runs](#3-the-runs): what is checked, with which bounds
- [4. Disagreements with the comments](#4-disagreements-with-the-comments)
- [5. The proofs](#5-the-proofs)
- [6. What is not covered](#6-what-is-not-covered)
- [7. What is left](#7-what-is-left)

## 1. The system

### 1.1 Software-dispatch framework (`mtnf/framework_software`)

The running system. `main` starts one dispatcher thread and one worker thread per remaining core and
keeps the first core for the statistics display. The threads share plain memory: `q_buffers`,
`t_buffers`, `tenants`, `ports`, `pktmbuf_pool`, four `rte_ring`s and the network function's state.

| part | state | operations | talks to | hard behaviour | what makes it correct |
|---|---|---|---|---|---|
| dispatcher: classification (`main.c` 53-175) | `hash_table` | fill, look up | gives each packet a tenant | nothing but a hash is compared; a frame without an IPv4 header | flows get their own tenant |
| dispatcher: metering and binding (`main.c` 179-212) | `tenants_table` (slot, count, worker, quota), `workers_table` (slot, load, last load, streak, limit) | one pass per packet, four paths | gives each packet a worker | unsigned sums; values refreshed only by traffic; the wall clock | loads never wrap, a streak is never stale, a migration is justified and conserves load |
| dispatcher: batching (`main.c` 134-225) | `q_buffers`, rings | receive, append, flush at 32 | ports, rings, pool | rings that are full, batches that wait for good, an over-quota packet that is freed **and** queued | every mbuf is accounted for, queues are bounded, the pool is never exhausted |
| workers (`main.c` 231-314, `mtnf_tenant.c` 31-54) | `t_buffers`, `tenant_lock`, each worker's burst | dequeue, append, handler, transmit | rings, network function, ports | a migrated tenant has packets at two workers, which then share one buffer behind a lock that is no lock | batches are exclusive and whole, no mbuf is lost, tenants are served in order |
| start-up (`mtnf_init.c`, `libs/`) | memzones, pool, rings | `init`, launches | all | ring names pass through one static buffer; workers beyond the ports share port 0 | one consumer per ring, one user per transmit queue |
| command line (`mtnf_args.c`) | port mask, port list, tenant number, period | three options | start-up | error values mixed with values; options given twice | what is polled is what is started |
| master and statistics (`main.c` 316-344, `mtnf_stats.c`) | counters, last values | display, signal | everybody's counters | counters raised without atomicity, read twice, divided by the period; exit without waiting | rates are real, the program ends |
| ports (`libs/mtnf_port.c`) | link states | start ports, wait for links | DPDK | links come and go during the wait | the wait ends after 9 s at most |

### 1.2 Network functions (`mtnf/nfs`)

One is compiled in (reassembly, `mtnf_tenant.c:42`). Each has a zeroed state per tenant and a handler
that gets an array of 32 packets and answers how many of them, from the front, are to be sent.

| function | state | hard behaviour | what makes it correct |
|---|---|---|---|
| reassembly | per tenant: flow table, planned numbers, segments; **shared by all tenants**: packet buffers | shuffled order, three resources that run out, races of handlers for the packet buffers, a `-1` in a `uint16_t` | a flow advances over exactly what it has; plans are complete; packet buffers neither leak nor are shared |
| NAT | flow table with forward and backward entries, port flags | entries that collide, half-made flows, buckets and ports that run out, an address overwritten within a batch | a port serves one flow, replies find their flow, a translation never changes |
| firewall | hash table of rules | overflowing buckets; a batch filtered in the array it came in | the latest rule decides; the filter is exact |
| IDS | failure tables of a string matcher | index arithmetic of the matcher | finds what substring search finds |
| AES encrypt, decrypt | key schedule | the count answered and the array do not fit each other | what is sent is what was handed in |
| AES cipher and modes | - | counters, padding, buffer sizes | FIPS 197; decryption undoes encryption; counters do not repeat, but for a long MAC |
| monitor | counters | a null header | every packet is counted once |

### 1.3 The rest

- **Hardware-dispatch framework** (`mtnf/framework`): the same workers without a dispatcher; each polls
  a port of its own and all share the tenant buffers.
- **P4 dispatcher** (`dispatcher/dispatcher_p4`): the metering and binding on a network card where many
  contexts run it at once, with word-sized reads and writes.
- **Container functions** (`container_fn`): four variants of the l2fwd example with a network function
  inside and one transmit buffer for all cores.
- Packet accessors, scripts for plots and packet generators, an older variant of the dispatcher that is
  not built, and two empty files.

The full list, with what is and is not modelled, is `components` in `PROJECT.json`; `hazards` lists
at its line everything that is hard to test and the properties aimed at it.

## 2. The modules

```
Balancer <--EXTENDS-- Dispatcher --EXTENDS--> Custody <--EXTENDS-- Worker --implements--> TenantLine
                          `--implements--> WorkerLine
   ^                   ^      ^                  ^                 ^     ^
MCBalancer   MCDispatcher  DispatcherProofs --> CustodyProofs <-- WorkerProofs  MCWorker

Classifier, Nat, Firewall, Ids, AesCipher, AesModes, Handlers <--EXTENDS-- NetworkFunctions <-- MCFunctions
                 ^         ^
                FunctionProofs

Reasm <-- MCReasm, ReasmProofs              Host  <-- MCHost, HostProofs
P4Dispatcher <-- MCP4, P4Proofs             L2fwd <-- MCL2fwd, L2fwdProofs
```

**Balancer** is the two tables of the dispatcher. One packet of a tenant is one step, because only the
dispatcher thread touches the tables. The four actions are the four paths through the loop body:
`SameSlot` (180-183), `Stay` (184-193), `NoRoom` (194-205) and `Migrate` (194-210); the packet is
charged in each of them to the worker read *before* a migration (179, 212). Columns are `uint32_t`:
sums are taken modulo `U32`. `Tick` changes the slot `gettimeofday` would yield. The slot is only
compared for equality and the wall clock may be stepped, so `Slots` is any set and any slot may
follow any other. Slot 0, with which the tables are zeroed, is 1970 and is excluded.

**Dispatcher** extends Balancer with custody of the packet buffers. `Dispatch(m, t)` is a whole
pass for a packet received into mbuf `m`: quota check, metering, binding, append and, when the
q_buffer is full, the flush with what the ring refuses freed. `pool` and `held` are bags, because
`main.c:183` frees an over-quota packet and then goes on with it: the mbuf is then in the pool and in
a queue. `quotaFrees` counts these frees. The workers appear as `TakeBurst` and `GiveBack`.

**WorkerLine** is the promise of the dispatcher while no tenant exceeds its quota: an mbuf is free, in the line of one
worker, or out with a worker; a line is served from the front, and what it loses it loses at the end, when it is longer than
the ring. A line is the ring with the q_buffer behind it; that it waits in two places, one of them served and the other filled,
and that both are cut at different lengths, is not visible in it. `Dispatcher!MbufsAreHandedOver` is the refinement.

**Custody** is what Dispatcher and Worker count mbufs with. An mbuf is a pointer, so it may be in several places, or
several times in one. `Occurrences` counts it in a sequence, `Queued` in a family of sequences, `Put` returns a sequence to
the pool with one copy for each time it occurs there, and `Dropped` is what a filter leaves out. `Select` keeps the members of a
sequence that are in a set, for instance those of one tenant, in their order.

**Classifier** is the table in front of both: eight hashes entered when the thread starts (`FillRow`),
one looked up per frame (`Classify`). It is checked with the flows and the prime of `main.c`; the hash is
computed as the code does, the products in 64 bits. A frame that is no IPv4 makes the code read
through a null pointer (`NoIpv4Header`), where the model stops.

**Worker** is the inside of the workers, one access to shared memory per step: `num` is read, the slot
written, `num` written (262); the lock is tested and set in two steps (`mtnf_tenant.c` 37-39); the
buffer is reset after the unlock (50) and sent after that. The spin loop reads a plain `bool`, so with
the `-O3` of the makefile the read may be hoisted: a worker that finds the lock taken may be `hung`.
Past the last slot of a buffer nothing is defined: `overrun`. `Handler` is what a network function
may do to a batch: choose the positions it keeps, move what is there to the front in order, free the rest. The dispatcher appears as
`Arrive`, `ArriveOverQuota` and `Rebind`. A packet over its tenant's quota is freed and enqueued all the same (`main.c` 182-183), so its
mbuf is in the pool and on a ring at once: it may be received again, which puts it on a ring twice, and a port may write
the next packet, of another tenant, into it while a worker has it (`Overwrite`). `quotaFrees` counts the frees of each mbuf,
`shared` records the tenants that have had packets at two workers at once, whether by a migration or because an mbuf at
another worker became theirs.

**TenantLine** is the promise the workers make each tenant: its packets form a line that is served
a full batch at a time from the front. `Worker!ServesTheLine` is the refinement.

**Host** is what surrounds the data path, of both frameworks (`program`): the options in any order and
number (`mtnf_args.c`), the steps of `init`, the launch of the threads on the lcores, each thread's search
for its ring, whose name goes through one static buffer (`mtnf_common.h` 78-84: write and lookup are two
steps), and its port; the counters of the ports, a read and a write apart, which the display of
the master reads twice, once for the differences it shows (`Show`) and once to remember them (`Remember`), while the workers go on; the
signal. A worker serves one full buffer per pass. The numbers of a mask are
kept as the sets of their bits; what the options mean when malformed, given twice, or written in their long form
(declared without an argument, so that `optarg` is NULL) is followed and noted in `oddities`. A
division by 0 or a row outside the tables ends in `fault`: nothing is defined from there. Two threads in one transmit queue are
no fault of the model; `PortsHaveOneWorker` says when they meet.

**P4Dispatcher** is `plugin.c`, which the card runs in many contexts. Each `mem_read32` or `mem_write32`
is one step of one context; registers are the context's own. The limits are never written, so reading them
is no step. Histories say which packets overlapped (`mixed`: two of one tenant; `crossed`: two for one worker;
`before.alone`: none at all) and what was really forwarded and charged, and the properties compare them to the tables.

**L2fwd** is the four container programs, which differ in the function applied to a packet
(`MonitorForward`, `IdsForward`, `FirewallForward`, `AesForward`), in whether it is announced that
something was found, and in the initialisation of a port of `aes`. `main` runs from the options through
pairing, the assignment of ports to cores, the ports, the links and the launch to the end; a core's loop
is the steps `Top`, `Poll`, `Store`, one step per packet of a full buffer, and `Send`. `tx_buffer` is a
global array, `my_cnt` a local of every core. `fate` records for every packet from which port, with whose address
and with what success it was handed to the network card.

**Reasm** is `mtnf_reasm.c`. A packet takes its flow's next number (`InSequence` or `OutOfSequence`), with
the plan shifted and shuffled as `get_pkt_seq` may (any pair at most `MaxSwap` apart may be swapped,
which covers the probabilities). For a number out of sequence the handler *looks up* a free packet
buffer in one step and *marks* it in another (`Save`), for the packet buffers belong to the
handlers of all tenants, while a tenant's table is protected by its lock. The search for a free
packet buffer is one step, and so is the release of those a flow has advanced over: a handler that
sees half of a release only sees fewer free buffers. A new flow for a full bucket uses an entry outside
the table, because a `-1` in a `uint16_t` passes `>= 0` (169); the model stops there.

**NetworkFunctions** puts the other functions side by side: the one compiled in runs and the variables of
the others stay as they are.

- **Nat** is `mtnf_nat.c`. A packet is one step, as the tenant's lock keeps its handlers apart. The actions
  are the outcomes of the loop body: `Forward`, `FullBucket`, `Create` (with `SameBucket` when the
  backward entry is written over the forward one), `CreateHalf` (no room for the backward entry).
  `ForwardWithoutBackward` and `LeaveBucket` lead to a use of memory whose effect the code does not
  define; the model stops there. Packets are those of the clients and the replies to whatever was sent.
- **Firewall** is `mtnf_firewall.c`: the rule table filled from a list, and the filter with one packet per
  step so that the array is seen half filtered. The table as built contains only rules that
  pass; the model takes every list.
- **Ids** is `mtnf_ids.c`: the failure tables (`mtnf_get_next`, called for all rules after each is written) and
  the matcher (`mtnf_kmp`), one pass of a loop per step, with the -1 of the code.
- **AesCipher** is the key schedule, a word a step, and the rounds, a transformation a step. The S-box
  is the code's table, and `TablesAreFips197` compares it and the inverse to the definition of the standard.
- **AesModes** is CBC, CTR and CCM of the same file over a cipher that is a constant; CCM is
  called by nothing in the repository but is part of its library.
- **Handlers** is the four handlers that do not change which packets there are (monitor, IDS, both of AES)
  together with what the worker does with their answer. `leaked` are mbufs that nobody has any more:
  `aes_encrypt` does not count packets that are neither TCP nor UDP, and the worker forgets as many.

Throughout, printing and prefetching are left out; a packet is its mbuf, its tenant or its flow key; the hash of
a table is a constant function into buckets.

## 3. The runs

| run | module, configuration | states | what it shows |
|---|---|---|---|
| `balancer` | 2 tenants, 2 workers, both bound to worker 1, limit 3, slots {1, 2} | 0.8 M | loads never wrap; streaks are never stale; migrations are sound; a worker emptied at the limit stays excluded |
| `dispatcher` | 4 mbufs, batches of 2, rings of 3, quotas 3 and 1 | 1.5 M | custody: an mbuf is in two places only through `main.c:183`, once per such free; queues stay bounded |
| `dispatcher_live` | 3 mbufs, batches of 2, rings of 1, no quota reached | 1.2 M | the pool always recovers although partial batches wait for good; the queues, rings and cuts implement WorkerLine |
| `worker` | 2 workers, 2 tenants, 2 mbufs, one tenant migrates, the other exceeds its quota | 2.3 M | until a tenant has packets at two workers everything is exclusive and the copies of an mbuf are conserved; locks always have a holder, even after that |
| `worker_bound` | both tenants bound to one worker for good, and within their quotas | 0.3 M | the workers implement TenantLine; full batches are served |
| `reasm` | 2 tenants, 3 flows, one bucket of 2, 3 planned numbers, 2 segments, 4 packet buffers, four kinds of traffic | 0.16 M | flows advance in order, plans are complete, one entry per flow, packet buffers do not leak and are exclusive until handlers race |
| `functions` | every function at its own size, one compiled in | 0.5 M | the properties of the classifier and of NAT, firewall, IDS, AES, its modes and the handlers |
| `host` | 2 devices, 2 rings, lcores {1, 3} and {1, 4}, 2 options, 2 passes of the workers | 1.1 M | both frameworks from the command line to the end: what is polled is started, threads, rings and ports are one's own but in named cases, what is displayed is real, undefined behaviour is asked for |
| `p4` | 2 contexts, 2 tenants, 2 workers, 4 packets, quotas 2 and 0 | 4.8 M | what stays exact while contexts interleave; a packet alone is dispatched as a whole |
| `container` | 3 ports, 2 cores of 3 lcores, 3 packets, all four programs, a mask with a gap among them | 0.2 M | pairing, assignment, counting, forwarding and the end of the container programs |
| `reasm_shared`, `container_keys` | as `reasm`, with 3 packet buffers, and as `container` | - | two disagreements, section 4 |

Several of the properties a configuration names are conjunctions of parts that belong together and are defined, each with its own
comment, beside them:

| property | parts |
|---|---|
| `WorkerRowsAreSound` (Balancer) | `LoadsAreReal`, `StreakIsJustified` |
| `DispatcherTypeOK` | `BalancerTypeOK`, `QueuesAreBounded`, the types of the queues |
| `TablesAreConsistent`, `PktbufsAreAccountedFor` (Reasm) | `TypeOK`, `FlowsHaveOneEntry`, `PlanIsComplete`; `NoPktbufLeaks`, `PktbufsAreExclusive` |
| `FunctionsTypeOK` | the type invariants of all network functions |
| `FlowsAreToldApart` (Nat) | `PortsAreDistinct`, `RepliesFindTheirFlow` |
| `RulesDecide` (Firewall) | `OnlyRulesDrop`, `LatestRuleDecides` |
| `MatcherIsSound` (Ids) | `MatchIsExact`, `TableIsExact`, `IndicesStayInside` |
| `CipherIsFips197` (AesCipher) | `AnswersAreFips197`, `TablesAreFips197` |
| `AesIsUndone` (NetworkFunctions) | `RoundsAreUndone` (AesCipher); `ModesAreUndone` (AesModes): `ModesRoundTrip`, `CcmAcceptsItsOwn` |
| `BlocksAreSound` (AesModes) | `CountersCount`, `CountersAreFresh`, `FormatFits` |
| `BatchesAreAnswered` (Handlers) | `LeaksAreTheOthers`, `AnswerFitsTheArray`, `MonitorCounts` |
| `StartupIsSound`, `QueuesHaveOneUser`, `StatisticsAreReal`, `PhasesEnd` (Host) | `HostTypeOK`, `PolledPortsAreStarted`, `LaunchesNeverCollide`; `RingsAreOwn`, `PortsHaveOneWorker`; `CountersAreExact`, `RatesAreReal`; `StartupEnds`, `EndsAfterSignal` |
| `PortsAreServed`, `PacketsAreAccountedFor` (L2fwd) | `TypeOK`, `OnlyAskedPortsRun`, `EveryPortHasOneCore`; `PacketsAreCounted`, `PacketsAreForwardedOnce`, `AddressedToPartner`, `ReportsAreReal` |

What the properties say, and what they do **not** say:

- `LoadsAreReal`, `StreakIsJustified`, `MigrationsAreSound` hold unconditionally. `ExclusionIsPermanent`
  states a behaviour rather than a merit: the last load of a worker is refreshed only by a packet of
  a tenant bound to it (187-191), so a worker that lost its last tenant with a load at the limit (or one
  below it, after the subtraction of 208) never gets a tenant again, idle as it is.
- `CopiesAreAccountedFor` equates the copies of an mbuf with one plus the number of its over-quota frees:
  batching, partial enqueueing and freeing add and lose none. As built, tenants 4 to 15 have quota 0, so
  every packet of theirs but the first in a slot takes this path.
- `FlowsGetTheirTenant` says that the eight flows of `main.c` have eight hashes. A stranger whose hash is that of a flow is
  served as the flow's tenant, and one of the frames is such a one.
- `HandlerIsExclusive` and `MbufsAreConserved` are stated for `shared = {}`. That is the point: the lock does
  not exclude, and what protects the buffers is that a tenant's packets are at one worker. `MbufsAreConserved` does not say that an
  mbuf is in one place, which is false as soon as a tenant exceeds its quota, but that the workers change nothing about the number
  of places the dispatcher has put it in. After a migration that leaves packets behind, or an mbuf received again while another
  worker has it, two workers inside the lock, a hung worker and a `num` that passes
  32 without equalling it are all reachable in the model. `Rebind` may happen at any time, so the
  run covers a tenant that moves and comes back before, during and after its packets are served.
  In the hardware framework the workers of all ports share the buffers from the start.
- `LockHasHolder` holds with no condition.
- `ServesTheLine` and `FullBatchIsServed` are for tenants that neither move nor exceed their quota. With a tenant over its quota the line is broken
  without any move, for an mbuf in it may become another tenant's; and no lock is contended for, so nothing is said there of the
  spinning worker.
- `FlowsAdvanceInOrder` ties a flow's expected number and its segments to the history of the numbers
  issued and lost: it fails both when the pull loop ends early and when it skips. A number that was lost
  stops the flow's advance for good, and the model shows it as such.
- `PktbufsAreExclusive` is for handlers none of which has been between finding and saving while another was.
  When they have, it fails, which is `reasm_shared`. `NoPktbufLeaks` holds in both cases.
- `RepliesFindTheirFlow` is for flows that have a port of their own; when ten random trials fail, a flow is
  made with port 0 and shares its backward key with others (`mtnf_nat.c` 199, section 4). The source address it finds is
  the 16-bit one: `new_ip` is declared `uint16_t` and the model truncates as the code does. It is also not the
  constant the comment announces: it is overwritten with the source of every new flow of a batch (217, section 4).
- `LatestRuleDecides` is about buckets that have not overflowed; `OnlyRulesDrop` about all.
- `MatchIsExact` is about the characters that are scanned, which the code takes from the *total* length of the IP packet,
  divided by five.
- `AnswersAreFips197` runs the examples of the standard for all three key sizes through the steps of the model;
  `RoundsAreUndone` compares the state of every decryption step with that of the encryption step it undoes.
- `FormatFits` and `CountersAreFresh` are for all lengths but those for which the code is wrong: one combination of lengths for which the
  buffer of the MAC's input is a byte short, and MACs of nearly a block, for which `increment_iv` has no byte to count with, so
  that the payload is encrypted with the counter of the MAC. They promise nothing there, and what the comments say of these places is
  false (section 4). The nonce sizes are smaller than a caller would use.
- `LeaksAreTheOthers` and `AnswerFitsTheArray` likewise say exactly when mbufs are forgotten and when the answer is beyond
  the array; `MonitorCounts` that the length counters, which are multiplied and never incremented, stay 0.
- `RingsAreOwn` holds unless two threads are in the static name buffer at once (`overlapped`); how a mixed up name is
  resolved is not followed. `PortsHaveOneWorker` holds unless there are more workers than ports or the mask was given
  twice or malformed. `FaultsAreAskedFor` says that these, a period of 0, a `-t` other than `MAX_TENANTS` and a long option are
  the only ways into undefined behaviour; they are ways into it: `host` reaches all of them. "Asked for" means that an option is
  involved, not that the user could know: a `-t` of 3 and a period of 0 are documented uses, and the period is among the disagreements of section 4.
- `CountersAreExact`, `RatesAreReal`: a counter is below what happened, and decreases, only if several workers raise it.
- `StartupEnds` excludes the software framework on one lcore: the walk over the lcores, which wraps and skips the master,
  never returns. `EndsAfterSignal` of Host shows the end of the process; the packets other threads hold then are lost.
- `CountsAreExact`, `LoadsAreExact` hold for a tenant or worker none of whose own packets overlapped, whatever the others do and
  whichever migrations read and write their rows. Without the condition both fail in one lost update. `DispatchIsWhole` starts
  from *any* reachable tables, those that earlier overlaps left inconsistent included: two reliefs of one worker that race can leave
  a last load below 0, which in a word is a very large load, so `Opened` adds to it as the code does, in a word.
- `PacketsAreForwardedOnce`, `AddressedToPartner` and `ReportsAreReal` are for one polling core: with several, a core
  overwrites what another stored, and packets are sent twice or never. `PacketsAreCounted` holds for any number.
- `AddressedToPartner` is about the port the *batch* leaves from: with several ports per core a packet leaves from another port than
  the one it came from, which is how the code works; in no program does it leave from the partner. It states what the code does with the
  addresses, which is not what the usage text says (section 4).
- `OnlyAskedPortsRun` allows bits without a port only above all ports (a mask with such bits is refused).

### Bounds

| bound | where | why it is enough |
|---|---|---|
| `LineRate` | Balancer | packets per worker and slot; a port cannot deliver 2^32 in a second. It is above the limit, so that overload occurs, and with `U32` = 6 the next sum would wrap |
| `U32`, `U16` | Balancer, Nat, Host, P4Dispatcher | the widths, small enough that wrapping is reachable |
| `CopyBound` = 2 | Dispatcher | copies of one mbuf: one duplication. An mbuf with two copies is not received again in the run; `CopiesStayAccountedFor` is without the bound |
| `FreeBound` = 1 | Worker | frees over a quota before arrivals over it stop: an mbuf that is in the pool and on a ring is received again and written over; the proofs are for any bound |
| `MayMove`, `MayExceed` | Worker | which tenants migrate and which exceed their quota: one of each, and another, so that each is seen beside the other |
| `SharedBound` = 1 | Worker | arrivals stop once a tenant was shared: the properties with a condition say nothing after that, and `LockHasHolder` still sees all that follows from the packets already there |
| 2 mbufs | Worker | a full batch of two packets, of one mbuf twice, and a batch at one worker while the other mbuf is at the second |
| batches of 2 | Dispatcher, Worker, Handlers, L2fwd | a partial and a full batch; rings of 3 and 1 refuse part of a batch |
| `Traffics` | Reasm | packets per flow: one flow for three turns of its plan, two flows of a tenant, one flow each of two tenants, three flows for a bucket of two; the wrap of the numbers at 2^32 is not reached |
| `RuleBound` = 4 | Firewall | a bucket of 2 overflows twice |
| `MAX_PKT_BUFFER` = 2, 3 slots | Worker | one slot more than a batch, so that an overrun is visible |
| `STR_LEN` = 6, `LETTERS` = 2, `TextBound` = 6 | Ids | rules of five letters that repeat, as the code's repeat the alphabet, so that there are borders to fall back over |
| `BatchBound` = 3 | Handlers | after one leak a second batch fits the pool, after two none |
| blocks of 4 bytes of 2 bits | AesModes | the carry runs through all bytes; every remainder of a length occurs |
| `OptBound` = 2 | Host, L2fwd | every pair of options, in both orders, one given twice included |
| `WorkBound` = 2, `MAX_CHECK_TIME` | Host | a counter is raised over a stale value; the wait times out |
| `PacketBound` = 4 | P4Dispatcher | one to overload a worker, one to open the next slot, and two that overlap |
| `SLOTS` = 3 | P4Dispatcher | slots repeat, as the two bits of the clock do |
| 3 packets | L2fwd | a full batch and a partial one; one packet of each kind |

Symmetry is used for mbufs, tenants, flows and contexts in the safety runs of modules that only compare them, and
in no run with a temporal property under fairness.

### Deadlock

It is checked except where the system really may stop. In the runs of Worker, with every packet in an
incomplete batch or every worker hung, nothing happens until a packet arrives, and there may be no mbuf
to receive it. In `p4` the packets of the bound are dispatched. `host` and `container` are programs that end. Reasm, Nat,
Firewall and Classifier stutter after a fault and when their bound is reached.

### Fairness

`dispatcher_live`: weak fairness of each worker's dequeue and of each return of an mbuf. Workers poll
in an endless loop and ports complete what they were given; neither waits for the dispatcher.
`worker_bound`: weak fairness of each worker's steps, which have a core of their own. No fairness is
assumed of arrivals, of migrations or of the clock: nothing obliges packets to come. Hence no property
claims that a *partial* batch is ever served: the code has no timer for it (that of l2fwd is
commented out in the container programs).
`host`: weak fairness of the main thread alone; `EndsAfterSignal` needs no other thread to move, because `main` does not wait.
`container`: weak fairness of main and of each core's loop; there `main` does wait.

`PoolRecovers` and `MbufsAreHandedOver` are checked with quotas that are not reached. With more mbufs than the partial batches can
hold, which the pool of the real configuration has, some mbuf always returns.

### Mutants

For each property of each passing run `PROJECT.json` names an altered definition (they are marked "A bug"
in the modules), in the way the code could plausibly be wrong: a flush that does not free, a hash computed in 32 bits, a
comparison with the wrong load. With it TLC finds the property violated.

## 4. Disagreements with the comments

| run | code | comment or usage text |
|---|---|---|
| `reasm_shared` | `get_pktbuf_index` finds a packet buffer that is marked only after the copy (251, 261); another tenant's handler finds the same one | `mtnf_reasm.c` 257-259: saved if "there is free buf" |
| `container_keys` | the initialisation of a port clears the statistics of all ports, and with them the key schedules of the ports before (`container_fn/aes/main.c` 778); the loop encrypts with the partner's | `container_fn/aes/mtnf_aes.h` 66: "Key setup must be done before any AES en/de-cryption functions can be used" |


Seen while modelling and without a run of its own. Where a property concerns the place it states what the code does, or is for the cases in
which the code does what is said; none passes by asserting the disagreement away.

| code | comment or usage text |
|---|---|
| a packet of the container programs gets the addresses of the partner (`container_fn/monitor/main.c` 189-191) and leaves from the port that was polled (337); in all four alike. `AddressedToPartner` states this | usage text, `monitor/main.c` 363-365: "The source MAC address is replaced by the TX port MAC address", the destination by "02:00:00:00:00:TX_PORT_ID" (ids 428, firewall 475, aes 358) |
| a MAC of a whole block leaves `increment_iv` -1 bytes to count with, and the payload of CCM starts with the counter 0 of the MAC (`mtnf_aes.c` 453). `CountersAreFresh` is for shorter MACs | `mtnf_aes.c` 451: "Encrypt the Payload with CTR mode with a counter starting at 1." (453 asks "BUG?") |
| associated data that needs no padding gets a block of it (564); with a payload of one byte more than whole blocks the formatted data is a byte longer than the buffer. `FormatFits` is for all other lengths | `mtnf_aes.c` 422: "Round both payload and associated data up a block size and add an extra block." |
| a refresh period of 0 is taken and is the divisor of every rate (`mtnf_stats.c` 39, 95). `FaultsAreAskedFor` counts it among the ways into a fault | usage text, `mtnf_args.c` 20: "0 to disable" |
| `new_ip` is overwritten with the source of a new flow, and the next new flow of the batch is translated to it (`mtnf_nat.c` 217) | `mtnf_nat.c` 146-147: "here just say 1" |
| when ten trials fail a flow has port 0, as others may (199). `RepliesFindTheirFlow` is for flows with a port | `mtnf_nat.c` 191, 193: "new port should be from 1 to 65535", "port 0 is reserved" |
| a new reassembly flow for a full bucket uses an entry outside the table (`mtnf_reasm.c` 169), where the model stops | `mtnf_reasm.c` 168: "if new flow and bucket not full, create new data entry" |
| a NAT bucket whose count was raised by two is no longer taken for full (181), and the model stops at the access outside it | `mtnf_nat.c` 175: "if bucket is full, do nothing" |
| the firewall container sends all packets | `container_fn/firewall/main.c` 334: "drop packets" |

## 5. The proofs

Proved by TLAPS for every value of the constants that satisfies the named assumptions, which are those of the
modules (`ASSUME`) but where a theorem states a hypothesis of its own.

**DispatcherProofs**, on Balancer (any number of tenants and workers, any limit, any set of slots)

| theorem | property |
|---|---|
| `TypeCorrect` | `BalancerTypeOK` |
| `LoadsStayReal` | `LoadsAreReal` |
| `StreaksStayJustified` | `StreakIsJustified` |
| `WorkerRowsStaySound` | `WorkerRowsAreSound` |
| `MigrationsStaySound` | `MigrationsAreSound` |
| `ExclusionStaysPermanent` | `ExclusionIsPermanent` |

Assumptions: `SizesAssumption` (there is a tenant and a worker, initial bindings are workers),
`WidthAssumption` (the limit is positive and fits its column; fewer packets than a counter holds arrive in a
slot), `SlotsAssumption` (slot 0 is past).

Argument. Types alone are not inductive in a useful way: `TargetLoad` adds one to a last load and
`Migrate` subtracts one from another, and both could wrap. The invariant is therefore
`IInv == BalancerTypeOK /\ LoadsAreReal`: a last load is at most `LineRate` or below the limit, so the sum fits
(`Target`), and the worker a tenant leaves is at the limit, so the difference does not wrap
(`MigrateStep`). `StreakIsJustified` is inductive together with it: a streak runs only at a worker whose
last load is at the limit; a migration lowers it by one and the next lowering needs an overload again.
`LeastLoadedIsMinimal` says what the scan of `main.c` 196-203 yields; it rests on `LeastNatural`, a minimum of a set
of naturals, from well-foundedness. The step lemmas (`SameSlotStep`, `BoundStep`, `MigrateStep`) describe
the two rows each path changes, and the preservation lemmas work from these descriptions.

**DispatcherProofs**, on Dispatcher (any number of tenants, workers and mbufs, any quota, batch and ring)

| theorem | property |
|---|---|
| `DispatcherStaysTyped` | `DispatcherTypeOK`, with `QueuesAreBounded` in it |
| `CopiesStayAccountedFor` | `CopiesAreAccountedFor` |
| `DispatcherHandsOver` | `MbufsAreHandedOver` |

Assumptions: those of Balancer and `DispatcherAssumption` (there are mbufs; batch and ring have room for at least one).
Every step of the dispatcher is a step of Balancer or leaves the tables alone, so `IInv` carries over and
`DispatcherInvariant` only adds the queues. For the second theorem each step moves copies between pool, batch, ring and
worker, and only the free over the quota adds one, where `quotaFrees` adds one too. That every queue is no longer than
what `Queued` looks at comes from the first theorem.

`DispatcherHandsOver` is `Spec /\ []QuotasKept => MbufsAreHandedOver`: a behaviour in which no tenant exceeds its quota implements
WorkerLine. Without that hypothesis it is false, for an mbuf that `main.c:183` frees is free and in a line. With it
the second theorem gives `OneCopy`, so that the pool and the workers have disjoint sets of mbufs and a packet received is in no line. Then a packet
that does not fill the q_buffer waits behind the others (`BufferWaits`), and one that fills it either moves the batch
to the ring, which leaves the line as it is, or makes the line longer than the ring, and what the ring refuses is just what
lies beyond its size (`FlushWaitsOrCuts`); a burst is the front of the line (`BurstIsTaken`). `CutInFirst` and `CutInSecond` of
CustodyProofs say what is left of two sequences put together when the one or the other is cut.

**CustodyProofs** holds what Dispatcher and Worker need about copies, for any sequences and any finite family of them.
The copies of an mbuf are numbers of places: two sequences put together have the places of both
(`OccurrencesOfConcat`, by a bijection that shifts the second), so a batch that is cut at what the ring has room for keeps
its copies (`OccurrencesOfCut`), and one that a function filters has them among what it keeps and what it drops
(`OccurrencesOfKept`, by the bijection that enumerates the kept positions); and replacing the queue of one member changes the
sum over the family by the difference of the two (`QueuedUpdate`, since the places elsewhere are the same set). Also here is
what `Select` picks of a sequence: its selections from the first places are determined step by step (`SelectionsAgree`), so those of two
sequences put together are the two put together (`SelectOfConcat`). The induction is on the length: the set of lengths for which
the claim holds has 0 and all successors (`EveryNatural`).

**WorkerProofs** (any number of workers, tenants and mbufs, any sizes; but for the last, tenants move and exceed their quotas at will)

| theorem | property |
|---|---|
| `LocksHaveHolders` | `LockHasHolder` |
| `WorkerStaysTyped` | `TypeOK` |
| `HandlersStayExclusive` | `HandlerIsExclusive` |
| `MbufsStayConserved` | `MbufsAreConserved` |
| `LinesAreServed` | `ServesTheLine`, the refinement of TenantLine, if no tenant moves (`MayMove = {}`) or exceeds its quota (`MayExceed = {}`) |

The first two hold whatever races there are. For the lock the invariant adds only that `pc`, `tid` and `tenant_lock` are
defined for all workers and tenants: ten of the twelve steps of a worker change neither a lock nor who is between taking and
releasing one (`OutsideStep`, `InsideStep`); `AcquireStep` makes the worker a holder; `UnlockStep` frees the lock
whoever else is inside, and those others are then harmlessly inside a free lock. For the types it is what a worker has read
(`reg`) that has to be bounded with the count: a stale count is still at most `MAX_PKT_BUFFER`, and the test before the
store keeps what is written back there.

The other two are conditional on `shared = {}`, that no tenant has had packets at two workers, and the condition is in the invariant:
`WorkerInvariant == WorkerTypes /\ LockInv /\ (shared = {} => Solo)`. `Solo` is `Alone` (two workers that have
packets of a tenant are one), `Stage` of every worker (what it has read of the buffer is still so: the register is the count before
the store, the slot holds the packet before the count is written, the lock it is about to test is free, the buffer it calls the handler
for is full, and empty when it has sent it), `Fresh` (a buffer nobody is serving is not full, so that the
next packet has a slot) and `Copies(m) = 1 + quotaFrees[m]`. None of them holds without the others: the late reset is harmless
only because no other worker can append meanwhile, and what is in a slot counts as a place only because the count is
exact. An arrival over the quota adds a copy and a free (`EnqueueKeepsSolo`); what a port writes into an mbuf that is still queued moves no
packet, and either leaves all tenants at one worker or adds to `shared` (`UnmovedKeepsSolo`, `NotedAlone`). `shared` grows monotonically, so a step with `shared' = {}` starts from `Solo`.

For the refinement `BoundInvariant` adds `WithinQuota`, that no mbuf was freed over a quota, so that each is in one place, and `Settled`,
that every packet of a tenant is at the worker it is bound to, and `Stamped`, that the tenant a worker has read from a packet is still in it; a tenant
that does not move is then never shared, and `Solo` holds for good. Both hypotheses are needed: with an mbuf in the pool and on a ring the
next packet received changes the line of another tenant. A line has three parts (`LineParts`): what waits in the
buffer, what is in the worker's hand and what is on its ring. A packet that arrives joins the third part (`ArriveJoins`; it is in no
line before, `NotInLine`, because its only copy was in the pool), a burst goes from the third to the second, which is empty
(`DequeueKeepsLines`), a packet that is counted from the front of the second to the end of the first (`WriteNumKeepsLines`), and the first
leaves the line when the network function is called, a full batch because `Stage` says that the buffer is full (`HandlerServes`).
Nothing else moves a line (`QuietStep`): the reset and the transmission come when the buffer's packets are out of it.

**ReasmProofs** (any number of tenants, flows, buckets, segments and packet buffers, any length of the plan and of a swap, any hash)

| theorem | property |
|---|---|
| `PlansStayComplete` | `TablesAreConsistent` |
| `FlowsStayInOrder` | `FlowsAdvanceInOrder` |
| `PktbufsStayAccountedFor` | `PktbufsAreAccountedFor` |

`ReasmInvariant` has five parts. `FlowsHaveOneEntry`; `EntriesAreSound`, for an entry in use that the planned numbers and those out
are exactly the ones generated, each once, and that the flow has advanced over the first unbroken run of the numbers it kept and
buffers the rest, and for an entry not in use that it is still zeroed; `PendingIsSound`, that what a handler found out about its *own*
tenant between looking up a packet buffer and saving is still so, which the tenant's lock gives; and `PktbufsAreSound`, in which the
packet buffers of *all* tenants meet: those marked are held by a segment whatever happens (`MarkedAreHeld`, so none leaks), and until two
handlers have been between finding and saving at once, those held are marked, by one segment only, and the one a handler is
about to take is free. That a flow advances exactly to the first number missing needs that the loop over the segments stops there
although it looks at one place for each number: among more numbers than places one is missing (`FirstMissingIsFirst`, a pigeonhole on
cardinalities). `ReplannedIsSound` says that wherever two
numbers of the plan change places, the plan loses its first number, which goes out, and gains the next one generated.

**FunctionProofs**, on Classifier (any table, prime and frames): `FlowsReachTheirTenants` for `FlowsGetTheirTenant`, under the hypothesis
`FlowsAreApart`, that the flows of the table differ in their hashes and in their tenants. The code neither checks nor handles a
collision; the eight flows of `main.c` satisfy it, and the run `functions` computes their hashes.

**FunctionProofs**, on Nat (any hash, sizes, ports and clients): `FlowsStayApart` for `FlowsAreToldApart` and `TranslationsStayStable`
for the action property `TranslationIsStable`. Hypotheses: `HashesAreBuckets` (a hash is a bucket) and `ServersAreNoClients` (no
address a client sends from is one it sends to). The second is needed: with a client that is another's
server, the key of a reply may be the key of a forward flow, and the first entry found for it need not be the reply's. `NatInv` adds to the
types and to `PortsAreDistinct` that a forward entry has its backward entry in the bucket that entry's key
hashes to, that every backward entry is in the bucket of its own key and has a server's address in it (`RowsAreSound`), and that no two
entries have the same backward key with a port (`BackwardsAreUnique`). Since rows are only ever appended (`Grows`), the first entry that
matches a key stays the first, from which both theorems follow.

**FunctionProofs**, on Firewall (any rules, hash, bucket and batch sizes): `RulesAlwaysDecide` for `RulesDecide`, `FilterStaysExact` for `FilterIsExact`,
`FirewallTypeCorrect` for `FirewallTypeOK` and `OnlyRulesEverDrop` for `OnlyRulesDrop`.

`OnlyRulesDrop` follows from `NodesAreRules`, that every node in a bucket is one of the rules: what the lookup drops for is a node of
the bucket (`LookupIsInBucket`), and inserting leaves nodes or replaces one as a whole (`PlacedRule`). `LatestRuleDecides` is inductive
together with `BucketsRemember`, that a bucket which was given no more rules than it has room for holds as many nodes as it was given:
so the next one is appended, both to the list and to the bucket, and becomes the last match in both or in neither (`AppendedHits`).
`FilterIsExact` is inductive with the types and with `AtRest`, that nothing is left of a batch between two. The last match of a bucket
exists because a set of places has a greatest element, which is by well-foundedness (`GreatestPlace`).

**FunctionProofs**, on Ids (any number and length of rules and payloads, any alphabet): `MatcherStaysSound` for `MatcherIsSound`, from
`MatchesAreExact`, `TablesAreExact` and `IndicesAreInside` for its parts; `IdsTypeCorrect` for `IdsTypeOK`; `LoopsEnd` for
`LoopsMakeProgress`, an action property: every pass of either loop makes `2i - j` grow.

The invariant `IdsInv` says, for each phase, what is finished and where the running loop is. While tables are written, every table
before `index` is complete and `NextLoop` says of the current one that its entries up to `i` are the longest borders, that `j`
is a border of what has been read, and that no longer one can be extended by the next character. Before a payload all tables are
complete. During a search `KmpLoop` says that the text read so far ends in the first `j` characters of the rule, that a longer
beginning it ends in cannot be extended either, and that no occurrence has ended before. The lemmas are about borders: one is extended by a
character, shortened by one (`EndExtended`, `EndShortened`), a border of a border is one (`EndOfEnd`), and of two the shorter is a border of
the longer (`EndsNest`), which is why falling back over the table misses none.

**FunctionProofs**, on Handlers (any pool, batch size, number of batches and packets): `BatchesStayAnswered` for `BatchesAreAnswered`.
`HandlersInv` consists of the types, of `MbufsInOnePlace` (a mbuf is free, in the batch or forgotten, and in one of these), of
`AnswerSoFar` and of `MonitorCounts`. `AnswerSoFar` says of a batch how much of it has been answered: while encrypting, what was looked at and not
answered will be forgotten; while decrypting, the whole batch is answered from the start and its UDP packets once more. The counters of
`monitor` for lengths no packet has stay 0 because no pass over a batch is the first to change one (`ZeroIsCounted`).

**FunctionProofs**, on AesModes (any sizes of block and byte, messages of any length): `ModesStayUndone` for `ModesAreUndone`. What is
assumed of the cipher and of the exclusive or, in `AesModesAssumption`, is what the modes rely on: `AesDecrypt` undoes `AesEncrypt` on
blocks, and `XorByte` undoes itself. The first is what `RoundsStayUndone`, below, shows of the real rounds. `ModesInv` follows each loop: `CbcInv`
says that every block of the ciphertext is the encryption of its plaintext mixed with the block before (`Chained`) and that `iv_buf`
is the block before the place the loop is at, `CtrInv` that `iv_buf` is the counter of that place and that what has been put out is that
much of the whole pass. A pass of the loop adds one block (`ChainGrows`, `CtrGrows`) or gets one back (`ChainIsUndone`). CCM is one call
a step: a ciphertext is cut in one way into what was the payload and what was the MAC (`CutOneWay`), and each half is undone by the counter
it was made with (`CcmIsUndone`), whatever the MAC computes, as long as it is a block (`MacsAreBlocks`). The counters
and the MAC are recursive functions; that they are defined for all lengths comes from `IteratesForever`: a step that stays in a set
can be repeated any number of times, since the set of numbers of times has 0 and all successors (`EveryNumber`).

`BlocksStaySound` for `BlocksAreSound` has one more assumption, `CounterAssumption`: a byte has more than one value, and a payload has
fewer bytes than there are counter blocks, which a `WORD` of 32 bits against a block of 16 bytes gives. A block is the number its bytes write,
and the proof goes over the prefixes of the block: `increment_iv` runs from the last byte until one does not overflow, so that the number of
each prefix grows by the carry that reaches it (`CarryCounts`, `PrefixesCount`), and that of the whole block by 1 modulo `NumbersOf[AES_BLOCK_SIZE]`
(`IncrementCounts`, `NextIsModulo`). Hence the counters of CTR differ as long as they are fewer than the numbers of a block (`CountersCountUp`).
In CCM the MAC may leave `increment_iv` no byte, and then the payload starts with the counter of the MAC; in all other cases `CcmCounters` says that it does not
(`PayloadCounterIs`, `CountersDiffer`). `FormattedLength` and `FilledUp` count the bytes the MAC is computed of, and `FormattedFits` compares them with the buffer.

**FunctionProofs**, on AesCipher (every key of 128, 192 or 256 bits, every block): `RoundsStayUndone` for `RoundsAreUndone`, `CipherTypeCorrect` for
`CipherTypeOK`. The invariant `CipherInv` relates the state before every step of a decryption to `trace`, the states after the rounds of
the encryption: before the key of a round is added it is the state after that round, and after each of the transformations it is that state
with the transformations of the encryption not yet undone. So each step of `aes_decrypt` has to undo one of `aes_encrypt`, for any state of 16 bytes:

- `++` is taken apart into bits. It is defined on nibbles; a byte is the sum of its bits, and two bytes with equal bits are equal, so that
  adding a key twice leaves the state as it was.
- the two tables undo each other, entry by entry;
- shifting the rows one way and back is arithmetic modulo 4;
- `InvMixColumns` after `MixColumns`: the product with 2 moves the bits of a byte up and adds three carries, so a bit of `GfMul(b, c)` is a sum modulo 2 of bits of
  `b` moved up 0 to 3 times. With four bytes in a column the lemmas compute the bits of the products with 14, 11, 13 and 9 of the sums of products
  with 2, 3, 1 and 1, in which all but one byte appear an even number of times.

Nothing is assumed of the key schedule but that its words are bytes: any round keys are undone by themselves. That the schedule and
the tables are those of the standard is `CipherIsFips197`, which TLC checks.

**FunctionProofs**, on the functions together: the lemma `EachKeepsToItself` shows that NetworkFunctions, which the run `functions` checks, implements the
specification of each function, the ones that are not compiled in by never leaving their initial state. So the theorems above hold there:
`AesStaysUndone` for `AesIsUndone`, the two halves of which are `RoundsStayUndone` and `ModesStayUndone`;
`FunctionsTypeCorrect` for `FunctionsTypeOK`, from the type theorems of the eight parts (`ClassifierTypeCorrect`, `NatTypeCorrect`, `HandlersTypeCorrect`,
`ModesTypeCorrect` and those named above), under `HashesAreBuckets`; and `FunctionsStaySound` for all other invariants of the run but `CipherIsFips197`, with
`TranslationIsStable`, under the hypotheses of the classifier and of NAT, `FlowsAreApart`, `HashesAreBuckets` and `ServersAreNoClients`. The
configuration of the run satisfies all three.

**P4Proofs** (any number of contexts, tenants and workers, any quotas)

| theorem | property |
|---|---|
| `P4TypeCorrect` | `P4TypeOK` |
| `CountsStayExact` | `CountsAreExact` |
| `LoadsStayExact` | `LoadsAreExact` |
| `DispatchesStayWhole` | `DispatchIsWhole` |

The first three properties speak of the tables between packets; the invariants add what a context in the middle of one has in its registers.
`CountInv` says of a tenant none of whose packets overlapped that at most one context works for it and that the count this
context read is the one in the table when it writes; `LoadInv` says the same of a worker's row, which migrations of any tenant may read
meanwhile. Of the two dozen accesses of a pass only those named in `Counting` and `Charging` concern the count or the load; for all
others `Frame` and `DispatchFrame` say what a context leaves alone, so that the other contexts' part of the invariant is untouched.

`DispatchIsWhole` is about the end of a pass and compares the tables to those at its start, `before`. `WholeInv` therefore follows
the pass: if no other packet has arrived since (`before.alone`), the busy context is the only one, and `Stage` says for each of its accesses
what its registers hold and how the tables differ from `before` by then. The scan for the least loaded worker is one such place visited
once per worker (`ScanStages`); the migration writes four words and is assembled from `TakenOff`, `Relieved` and `MoveStages`. Nothing
is assumed of `before` except `NbInv`, that no tenant's count exceeds the limit: the tables may be whatever earlier overlaps left. Two
reliefs of one worker that race can for instance leave a last load below 0, that is 2^32 less one; the property
counts as the words do.

Assumptions: `P4Assumption` (there are contexts, tenants, workers and slots; initial bindings are workers) and `P4WidthAssumption` (quotas
are not above the limit, and the limit does not fill a word).

**HostProofs** (any number of devices, lcores, queues and tenants, any command line, any amount of work)

| theorem | property |
|---|---|
| `StartsAreSound` | `StartupIsSound` |
| `QueuesAreOwn` | `QueuesHaveOneUser` |
| `CountsAreReal` | `StatisticsAreReal` |
| `FaultsNeedAReason` | `FaultsAreAskedFor` |

`HostInv` is a conjunction with a part for each thing that goes through several steps: `ArgInv` (a command line that is odd in nothing leaves
`port_id` the list of the mask), `InitInv` (which devices are started at each step of `init`), `LaunchInv` (`thread` is
determined by `cur_lcore`, so a launch finds its lcore free), `NameInv` (until two threads overlap in the static name buffer it holds the
name of the one thread between write and lookup), `CountInv` (a counter with one writer is exact, and what a worker
has read of it is still its value when it writes), `ShowInv` (no value displayed of such a counter is above the counter)
and `FaultsAreAskedFor`, which needs the others: that a port's row is inside the tables (`PlainIsInside`) comes from the parsing of
the mask, the launch and the number of workers together. That the list of a mask exists for every finite set of ports,
`EverySetIsListed`, is by well-founded induction on a bound of the set.

**L2fwdProofs** (any number of ports and lcores, any options and traffic): `PairingsAreInvolutions` for `PairingIsInvolution`,
`PortsCloseAfterTheirCores` for `NoPortClosesUnderACore` and `PortsStayServed` for `PortsAreServed`. For the first, `PairInv` says of
the ports visited so far, without the last if it is still alone (`PairedPorts`), that the partner of each is among them, is another
port and has it as its own partner; pairing the lone port with the next one touches no couple, since both are outside of the set
(`PairStep`). For the second, `CloseInv` follows the ports from the mask through the lists of the cores to the started ones, and
says that after `main` has waited every core is off or has returned. `PortsAreServed` contains the types of both `main` and the
cores: `ServedInv` says which ports are in the lists in each phase, each in one place (`ListsAreSound`, `PhaseIsSound`), that a core's list
is never longer than its array, and that only ports asked for are started (`MaskIsSound`); `LoopInv` that a core's index, its count
and the array all cores share stay inside their bounds although any core may write any slot. `CoreStep` and `MainSteps` separate what the cores
and `main` change. The least port of a set, which every loop visits next, exists by well-foundedness (`LeastPort`).

`PacketsStayAccountedFor` is for `PacketsAreAccountedFor`, from `PacketInv`, whose three parts need less of each other than the property
suggests. `Apart` says for any number of polling cores that no packet is in two places of the bursts and of the buffer, used slots
and unused: a store moves the head of a burst and what it overwrites is nowhere any more (`StorePlaces`). `CountInv` is `PacketsAreCounted`
with the finiteness of what is counted. A total is the number of the units its values have, so that it changes by what one value
changes (`TotalChanged`) and grows by the number of values that are raised (`TotalRaised`), without an induction; `Send` hands over the
batch in its slots, which are as many packets because of `Apart` (`FirstSlotsCount`). `LoneInv` is about the only core that polls, and
`Untouched` before any does: each packet is in its burst, or in a slot it counts, or was handed over once (`HeldOnce`), the looked-at
part of the batch carries the address of the partner of the port it will leave from (`Addressed`), and a pending message is about the packet looked at last
(`Noticed`).

Only model-checked: every temporal property under fairness (`PoolRecovers`, `FullBatchIsServed`, `PhasesEnd`,
`EndsAfterSignal`), which is out of the prover's reach, and `CipherIsFips197`. That one compares the tables, entry by entry, with the definition of the
standard, and the ciphertexts with the examples of the standard: a finite computation without a parameter, which TLC does as a whole.

## 6. What is not covered

- Checksums, the arithmetic of the hashes of the network functions, and the rules of the P4 tables: inputs.
- Reordering of memory accesses by the hardware: steps are sequentially consistent, which on x86
  leaves out stores that wait in a store buffer.
- Effects of undefined accesses (`overrun`, `fault`): the model stops there.
- What a port writes over a queued mbuf besides its tenant, and over one that is already in a tenant's buffer: contents, which no
  property is about. That Dispatcher counts an over-quota packet to its line while its mbuf is rewritten is excluded by the condition of
  `MbufsAreHandedOver`; Worker follows it (`Overwrite`).
- The table of products in `mtnf_aes.c` 139-268 and the round constants (607-609), which AesCipher replaces by their definition: a wrong
  entry in these would not show. The S-box and its inverse are the code's tables.
- The value printed beside each difference of the display, and refreshes torn between counters: the readings of one refresh are
  two steps for all counters, and each counter is compared with its own last value only.
- The packets other threads hold when `main` returns; they are lost with the process.
- What happens after a tenant is at two workers, after two threads met in the static name buffer, or after two packets of one P4 tenant
  overlapped: the models go on, and the properties that need exclusion no longer speak. These races are in the code.
- Packet contents, but for the matcher and the modes of AES.
- The counters of the tenants, which are raised where those of the ports are; `stats_clear`, which nothing calls.
- The display and the timer of the container programs, and the option that turns the updating of addresses off.
- The tenant buffers of the hardware framework (see `HandlerIsExclusive` above).
- `main_debugging.c`, an older variant that is not built; scripts; generated and empty files.

## 7. What is left

The wrap of reassembly numbers at 2^32. An abstract key schedule that `KeyWord` implements word by word for every key; so far TLC compares it with the
examples of the standard.
