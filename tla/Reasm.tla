-------------------------------- MODULE Reasm --------------------------------
(***************************************************************************)
(* The TCP reassembly function, mtnf/nfs/mtnf_reasm.c.  Every tenant has a *)
(* hash table of flows.  A flow hands out planned sequence numbers, which  *)
(* it shuffles to imitate a network that reorders; a packet whose number   *)
(* is the expected one lets the flow advance over everything buffered      *)
(* behind it, any other is saved in the packet buffers.  The tables belong *)
(* to a tenant, and the lock of the framework keeps the handlers of one    *)
(* tenant apart; the packet buffers (global_pkt_buf, flag_pkt_buf) are     *)
(* shared by the handlers of all tenants, which run on several workers.    *)
(***************************************************************************)
EXTENDS Integers, Sequences, FiniteSets, FiniteSetsExt

CONSTANTS
    Tenants,             \* the tenants whose handlers run concurrently
    Flows,               \* the 5-tuples their packets carry
    BIG_PRIME,           \* buckets of a tenant's table
    RE_BUCKET_SIZE,      \* flows a bucket has room for
    HashFlowkey,         \* hash_flowkey
    PLANNED_SEQ_SIZE,    \* numbers planned ahead
    MaxSwap,             \* length of my_reorder_prob: the furthest swap
    BUFFERED_SEGS_SIZE,  \* segments a flow can have buffered
    PKTBUF_SIZE,         \* packet buffers; number 0 is never used
    Traffics             \* bounds: the last number each flow of each tenant plans

Buckets == 0 .. BIG_PRIME - 1
Entries == Buckets \X (0 .. RE_BUCKET_SIZE - 1)
Plan == 0 .. PLANNED_SEQ_SIZE - 1
Segs == 0 .. BUFFERED_SEGS_SIZE - 1
Pktbufs == 1 .. PKTBUF_SIZE - 1

ASSUME ReasmAssumption ==
    /\ BIG_PRIME \in Nat \ {0}
    /\ RE_BUCKET_SIZE \in Nat \ {0}
    /\ HashFlowkey \in [Flows -> Buckets]
    /\ PLANNED_SEQ_SIZE \in Nat \ {0}
    /\ MaxSwap \in 0 .. PLANNED_SEQ_SIZE - 1
    /\ BUFFERED_SEGS_SIZE \in Nat \ {0}
    /\ PKTBUF_SIZE \in Nat \ {0}
    /\ Traffics \subseteq [Tenants -> [Flows -> Nat]]

VARIABLES
    flowkey_map,    \* [Tenants -> [Buckets -> Seq(Flows)]]: its first bucket_cnt keys
    dataentry_map,  \* [Tenants -> [Entries -> data_entry]]
    flag_pkt_buf,   \* [Pktbufs -> BOOLEAN]
    pend,           \* what a handler that is about to save a packet has found out
    fault,          \* an entry outside the table has been used
    issued, lost,   \* history, per entry: numbers given to packets; those not kept
    raced,          \* history: two handlers have been between finding and saving
    traffic         \* the bounds chosen for this behaviour

vars == <<flowkey_map, dataentry_map, flag_pkt_buf, pend, fault, issued, lost, raced, traffic>>

Idle == [busy |-> FALSE]

TypeOK ==
    /\ flowkey_map \in [Tenants -> [Buckets -> Seq(Flows)]]
    /\ \A t \in Tenants, b \in Buckets : Len(flowkey_map[t][b]) <= RE_BUCKET_SIZE
    /\ dataentry_map \in
         [Tenants -> [Entries ->
             [next_expected_seq : Nat, next_generated_seq : Nat,
              planned_seqs : [Plan -> Nat],
              buffered_segs : [Segs -> [seq : Nat, pktbuf_key : Nat]]]]]
    /\ flag_pkt_buf \in [Pktbufs -> BOOLEAN]
    /\ \A t \in Tenants :
         \/ pend[t] = Idle
         \/ pend[t] \in [busy : {TRUE}, entry : Entries, seq : Nat \ {0},
                         seg_index : 0 .. BUFFERED_SEGS_SIZE,
                         pktbuf_index : Pktbufs \cup {-1}, fits : BOOLEAN]
    /\ fault \in BOOLEAN /\ raced \in BOOLEAN
    /\ traffic \in Traffics

\* The state is zeroed by mtnf_reasm_init.
Zeroed ==
    [next_expected_seq |-> 0, next_generated_seq |-> 0,
     planned_seqs |-> [i \in Plan |-> 0],
     buffered_segs |-> [i \in Segs |-> [seq |-> 0, pktbuf_key |-> 0]]]

Init ==
    /\ flowkey_map = [t \in Tenants |-> [b \in Buckets |-> <<>>]]
    /\ dataentry_map = [t \in Tenants |-> [e \in Entries |-> Zeroed]]
    /\ flag_pkt_buf = [k \in Pktbufs |-> FALSE]
    /\ pend = [t \in Tenants |-> Idle]
    /\ fault = FALSE /\ raced = FALSE
    /\ traffic \in Traffics
    /\ issued = [t \in Tenants |-> [e \in Entries |-> {}]]
    /\ lost = [t \in Tenants |-> [e \in Entries |-> {}]]

-----------------------------------------------------------------------------
(* get_data_entry: where the flow is, or where it would go *)

BucketIndex(t, f) ==
    LET keys == flowkey_map[t][HashFlowkey[f]]
        found == {i \in 1 .. Len(keys) : keys[i] = f}
    IN  IF found = {} THEN Len(keys) ELSE Min(found) - 1

EntryOf(t, f) == <<HashFlowkey[f], BucketIndex(t, f)>>

IsNew(t, f) == BucketIndex(t, f) = Len(flowkey_map[t][HashFlowkey[f]])

\* The index is then 65535, which the handler's test (>= 0) takes for an entry.
BucketIsFull(t, f) == BucketIndex(t, f) = RE_BUCKET_SIZE

\* A new entry plans the first numbers; its segments stay as they were zeroed.
Opened(entry) ==
    [entry EXCEPT !.next_expected_seq = 1,
                  !.next_generated_seq = PLANNED_SEQ_SIZE + 1,
                  !.planned_seqs = [i \in Plan |-> i + 1]]

EntryBefore(t, f) ==
    LET entry == dataentry_map[t][EntryOf(t, f)]
    IN  IF IsNew(t, f) THEN Opened(entry) ELSE entry

(* get_pkt_seq: the first number leaves the plan, a new one joins it, and    *)
(* two numbers diff apart may change places                                  *)
Shifted(entry) ==
    [i \in Plan |-> IF i < PLANNED_SEQ_SIZE - 1 THEN entry.planned_seqs[i + 1]
                                                ELSE entry.next_generated_seq]

\* A bug: only one of the two numbers is moved.
SwappedHalf(plan, i, diff) == [plan EXCEPT ![i] = plan[i + diff]]

Swapped(plan, i, diff) ==
    [plan EXCEPT ![i] = plan[i + diff], ![i + diff] = plan[i]]

Replanned(entry, i, diff) ==
    [entry EXCEPT !.planned_seqs = Swapped(Shifted(entry), i, diff),
                  !.next_generated_seq = @ + 1]

(* The pull loop: from one above the expected number to the first that is    *)
(* not buffered; what it passes leaves the buffers                           *)
BufferedSeqs(entry) ==
    {entry.buffered_segs[i].seq : i \in Segs} \ {0}

\* A bug: one number at most is pulled.
FirstMissingOnce(entry) ==
    LET next == entry.next_expected_seq + 1
    IN  IF next \in BufferedSeqs(entry) THEN next + 1 ELSE next

FirstMissing(entry) ==
    LET next == entry.next_expected_seq + 1
    IN  Min((next .. next + BUFFERED_SEGS_SIZE) \ BufferedSeqs(entry))

Pulled(entry) ==
    {i \in Segs : entry.buffered_segs[i].seq
                    \in entry.next_expected_seq + 1 .. FirstMissing(entry) - 1}

Released(entry) ==
    LET keys == {entry.buffered_segs[i].pktbuf_key : i \in Pulled(entry)}
    IN  [k \in Pktbufs |-> flag_pkt_buf[k] /\ k \notin keys]

Advanced(entry) ==
    [entry EXCEPT
        !.next_expected_seq = FirstMissing(entry),
        !.buffered_segs =
            [i \in Segs |-> IF i \in Pulled(entry) THEN [@[i] EXCEPT !.seq = 0]
                                                  ELSE @[i]]]

-----------------------------------------------------------------------------
(* mtnf_reasm_handler, one packet *)

\* get_pktbuf_index and the search for an empty segment.
FreePktbuf ==
    LET free == {k \in Pktbufs : ~flag_pkt_buf[k]}
    IN  IF free = {} THEN -1 ELSE Min(free)

FreeSeg(entry) ==
    Min({i \in Segs : entry.buffered_segs[i].seq = 0} \cup {BUFFERED_SEGS_SIZE})

\* The packet's flow has an entry, found or opened, and takes its next number.
TakeNumber(t, f, entry) ==
    LET e == EntryOf(t, f)
        h == HashFlowkey[f]
    IN  /\ ~pend[t].busy
        /\ ~BucketIsFull(t, f)
        /\ entry.next_generated_seq <= traffic[t][f]
        /\ flowkey_map' =
             IF IsNew(t, f) THEN [flowkey_map EXCEPT ![t][h] = Append(@, f)]
                            ELSE flowkey_map
        /\ issued' = [issued EXCEPT ![t][e] = @ \cup {entry.planned_seqs[0]}]
        /\ raced' = (raced \/ \E u \in Tenants : pend[u].busy)
        /\ UNCHANGED <<fault, lost, traffic>>

\* The expected number: the flow advances.  Other handlers see the buffers
\* released at once; none of them depends on more than one.
InSequence(t, f) ==
    LET entry == EntryBefore(t, f)
    IN  /\ TakeNumber(t, f, entry)
        /\ entry.planned_seqs[0] = entry.next_expected_seq
        /\ \E diff \in 0 .. MaxSwap : \E i \in 0 .. PLANNED_SEQ_SIZE - 1 - diff :
             dataentry_map' =
               [dataentry_map EXCEPT
                   ![t][EntryOf(t, f)] = Advanced(Replanned(entry, i, diff))]
        /\ flag_pkt_buf' = Released(entry)
        /\ UNCHANGED pend

\* Any other number: the handler looks for a place, with the packet's length
\* within PKTBUF_CAP or beyond it ...
OutOfSequence(t, f) ==
    LET entry == EntryBefore(t, f)
    IN  /\ TakeNumber(t, f, entry)
        /\ entry.planned_seqs[0] # entry.next_expected_seq
        /\ \E diff \in 0 .. MaxSwap : \E i \in 0 .. PLANNED_SEQ_SIZE - 1 - diff :
             dataentry_map' =
               [dataentry_map EXCEPT ![t][EntryOf(t, f)] = Replanned(entry, i, diff)]
        /\ \E fits \in BOOLEAN :
             pend' = [pend EXCEPT ![t] =
                        [busy |-> TRUE, entry |-> EntryOf(t, f),
                         seq |-> entry.planned_seqs[0],
                         seg_index |-> FreeSeg(entry),
                         pktbuf_index |-> FreePktbuf, fits |-> fits]]
        /\ UNCHANGED flag_pkt_buf

HasPlace(p) ==
    /\ p.fits
    /\ p.pktbuf_index > 0
    /\ p.seg_index < BUFFERED_SEGS_SIZE

\* A bug: the packet buffer is not marked.
SaveUnmarked(t) ==
    LET p == pend[t]
    IN  /\ p.busy
        /\ HasPlace(p)
        /\ dataentry_map' =
             [dataentry_map EXCEPT ![t][p.entry].buffered_segs[p.seg_index] =
                [seq |-> p.seq, pktbuf_key |-> p.pktbuf_index]]
        /\ pend' = [pend EXCEPT ![t] = Idle]
        /\ UNCHANGED <<flowkey_map, flag_pkt_buf, fault, issued, lost, raced, traffic>>

\* ... and saves the packet there, if it has found one.
Save(t) ==
    LET p == pend[t]
    IN  /\ p.busy
        /\ HasPlace(p)
        /\ flag_pkt_buf' = [flag_pkt_buf EXCEPT ![p.pktbuf_index] = TRUE]
        /\ dataentry_map' =
             [dataentry_map EXCEPT ![t][p.entry].buffered_segs[p.seg_index] =
                [seq |-> p.seq, pktbuf_key |-> p.pktbuf_index]]
        /\ pend' = [pend EXCEPT ![t] = Idle]
        /\ UNCHANGED <<flowkey_map, fault, issued, lost, raced, traffic>>

Lose(t) ==
    LET p == pend[t]
    IN  /\ p.busy
        /\ ~HasPlace(p)
        /\ pend' = [pend EXCEPT ![t] = Idle]
        /\ lost' = [lost EXCEPT ![t][p.entry] = @ \cup {p.seq}]
        /\ UNCHANGED <<flowkey_map, dataentry_map, flag_pkt_buf, fault, issued, raced, traffic>>

\* A new flow for a full bucket: entry 65535 of the bucket is used.  What it
\* overwrites depends on the build; nothing is modelled after it.
OutsideTable(t, f) ==
    /\ ~pend[t].busy
    /\ BucketIsFull(t, f)
    /\ traffic[t][f] > 0
    /\ fault' = TRUE
    /\ UNCHANGED <<flowkey_map, dataentry_map, flag_pkt_buf, pend, issued, lost, raced, traffic>>

\* After a fault, and when every flow has planned its last number, nothing more
\* is followed.
Exhausted ==
    \A t \in Tenants :
        /\ ~pend[t].busy
        /\ \A f \in Flows :
             IF BucketIsFull(t, f) THEN traffic[t][f] = 0
                                   ELSE EntryBefore(t, f).next_generated_seq > traffic[t][f]

Stopped == (fault \/ Exhausted) /\ UNCHANGED vars

Handle(t) ==
    \/ \E f \in Flows :
         InSequence(t, f) \/ OutOfSequence(t, f) \/ OutsideTable(t, f)
    \/ Save(t)
    \/ Lose(t)

Next == (\E t \in Tenants : ~fault /\ Handle(t)) \/ Stopped

Spec == Init /\ [][Next]_vars

-----------------------------------------------------------------------------
(* Properties *)

Pending(t, e) ==
    IF pend[t].busy /\ pend[t].entry = e THEN {pend[t].seq} ELSE {}

Kept(t, e) == issued[t][e] \ (lost[t][e] \cup Pending(t, e))

InUse(t, f) == \E i \in DOMAIN flowkey_map[t][HashFlowkey[f]] :
                   flowkey_map[t][HashFlowkey[f]][i] = f

(* Whatever order the shuffled numbers come in, a flow has advanced over     *)
(* exactly the unbroken run of numbers kept so far and holds exactly the     *)
(* kept numbers beyond it: the pull loop neither stops early nor skips.      *)
FlowsAdvanceInOrder ==
    \A t \in Tenants : \A f \in {g \in Flows : InUse(t, g)} :
        LET entry == dataentry_map[t][EntryOf(t, f)]
            kept == Kept(t, EntryOf(t, f))
        IN  /\ 1 .. entry.next_expected_seq - 1 \subseteq kept
            /\ entry.next_expected_seq \notin kept
            /\ BufferedSeqs(entry) = {s \in kept : s > entry.next_expected_seq}

(* Shifting and swapping lose no number and duplicate none: each number up   *)
(* to the last generated is either planned, at one place, or issued.         *)
PlanIsComplete ==
    \A t \in Tenants : \A f \in {g \in Flows : InUse(t, g)} :
        LET entry == dataentry_map[t][EntryOf(t, f)]
            planned == {entry.planned_seqs[i] : i \in Plan}
        IN  /\ planned \cup issued[t][EntryOf(t, f)] = 1 .. entry.next_generated_seq - 1
            /\ planned \cap issued[t][EntryOf(t, f)] = {}
            /\ Cardinality(planned) = PLANNED_SEQ_SIZE

(* A flow has one entry: no key is in the table twice.                       *)
FlowsHaveOneEntry ==
    \A t \in Tenants, b \in Buckets :
        \A i, j \in DOMAIN flowkey_map[t][b] :
            flowkey_map[t][b][i] = flowkey_map[t][b][j] => i = j

Holders(k) ==
    {h \in Tenants \X Entries \X Segs :
        LET seg == dataentry_map[h[1]][h[2]].buffered_segs[h[3]]
        IN  seg.seq # 0 /\ seg.pktbuf_key = k}

(* No packet buffer leaks: one that is marked as taken belongs to a segment, *)
(* also when handlers of several tenants race for it.                        *)
NoPktbufLeaks == \A k \in Pktbufs : flag_pkt_buf[k] => Holders(k) # {}

(* As long as no two handlers have been between finding a packet buffer and  *)
(* saving into it, a packet buffer belongs to one segment, and is marked as   *)
(* taken as long as it does.                                                  *)
PktbufsAreExclusive ==
    ~raced =>
        \A k \in Pktbufs :
            /\ Cardinality(Holders(k)) <= 1
            /\ Holders(k) # {} => flag_pkt_buf[k]

(* The comment of mtnf_reasm.c:257-259 has a packet saved when "there is     *)
(* free buf": at the moment of saving the buffer is free.                    *)
SavedInFreeBuf ==
    [][\A t \in Tenants :
         Save(t) => ~flag_pkt_buf[pend[t].pktbuf_index]]_vars

(* The table and the plans in it are consistent.                             *)
TablesAreConsistent == TypeOK /\ FlowsHaveOneEntry /\ PlanIsComplete

(* Packet buffers are neither leaked nor shared.                             *)
PktbufsAreAccountedFor == NoPktbufLeaks /\ PktbufsAreExclusive

=============================================================================
