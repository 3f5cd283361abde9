--------------------------------- MODULE Nat ---------------------------------
(***************************************************************************)
(* The NAT function, mtnf/nfs/mtnf_nat.c: one hash table holds, for every  *)
(* translated flow, a forward and a backward entry.  The handler of a      *)
(* tenant is never run twice at once, so a packet is one step.             *)
(***************************************************************************)
EXTENDS Integers, Sequences, FiniteSets, FiniteSetsExt

CONSTANTS
    NatPackets,         \* the flow keys of the packets clients send
    HashFlowkey(_),  \* hash_flowkey
    NAT_BIG_PRIME,       \* buckets
    NAT_BUCKET_SIZE,     \* entries a bucket has room for
    U16,             \* 2^16: new_ip is a uint16_t
    MaxPort          \* the largest port the generator yields

NatBuckets == 0 .. NAT_BIG_PRIME - 1
Ports == 1 .. MaxPort

\* A flow key without its protocol: every packet is TCP, or every one UDP.
FlowKeys == [src_ip : Nat, src_port : Nat, dst_ip : Nat, dst_port : Nat]

ASSUME NatAssumption ==
    /\ NatPackets \subseteq FlowKeys
    /\ NAT_BIG_PRIME \in Nat \ {0}
    /\ NAT_BUCKET_SIZE \in Nat \ {0}
    /\ U16 \in Nat \ {0, 1}
    /\ MaxPort \in Nat

VARIABLES
    natentry_map, \* [NatBuckets -> Seq(rows)]: the two maps up to bucket_cnt
    port_used,    \* the ports whose flag is set
    new_ip,       \* the handler's address; 1 when it starts on a batch
    nat_fault,    \* why the handler could not go on
    sent_hdr      \* the header the last packet left with

natVars == <<natentry_map, port_used, new_ip, nat_fault, sent_hdr>>

NatRows == [key : FlowKeys, new_ip : 0 .. U16 - 1, new_port : Nat, is_forward : BOOLEAN]

NatTypeOK ==
    /\ natentry_map \in [NatBuckets -> Seq(NatRows)]
    /\ port_used \subseteq Ports
    /\ new_ip \in 0 .. U16 - 1
    /\ nat_fault \in {"none", "outside bucket", "no backward entry"}
    /\ sent_hdr \in FlowKeys

NoKey == [src_ip |-> 0, src_port |-> 0, dst_ip |-> 0, dst_port |-> 0]
ZeroedRow == [key |-> NoKey, new_ip |-> 0, new_port |-> 0, is_forward |-> FALSE]

NatInit ==
    /\ natentry_map = [b \in NatBuckets |-> <<>>]
    /\ port_used = {}
    /\ new_ip = 1
    /\ nat_fault = "none"
    /\ sent_hdr = NoKey

-----------------------------------------------------------------------------
(* get_natentry *)

\* A bug: the last match is taken.
FindLast(k) ==
    LET rows == natentry_map[HashFlowkey(k)]
        hits == {i \in DOMAIN rows : rows[i].key = k}
    IN  IF hits = {} THEN 0 ELSE Max(hits)

Find(k) ==
    LET rows == natentry_map[HashFlowkey(k)]
        hits == {i \in DOMAIN rows : rows[i].key = k}
    IN  IF hits = {} THEN 0 ELSE Min(hits)

Known(k) == Find(k) # 0

Row(k) == natentry_map[HashFlowkey(k)][Find(k)]

\* bucket_cnt can pass NAT_BUCKET_SIZE; the scan then leaves the bucket.
ScansOutside(k) == ~Known(k) /\ Len(natentry_map[HashFlowkey(k)]) > NAT_BUCKET_SIZE

(* Headers *)

Reversed(k) == [src_ip |-> k.dst_ip, src_port |-> k.dst_port,
                dst_ip |-> k.src_ip, dst_port |-> k.src_port]

\* A bug: the port of the backward key is left as it was.
BackwardKeyOldPort(k, ip, port) == [Reversed(k) EXCEPT !.dst_ip = ip]

\* The key of the packets that come back for a flow that left with ip and port.
BackwardKey(k, ip, port) == [Reversed(k) EXCEPT !.dst_ip = ip, !.dst_port = port]

UpdateHdr(k, row) == [k EXCEPT !.src_ip = row.new_ip, !.src_port = row.new_port]

Translated(k, fwd, bwd) == UpdateHdr(Reversed(UpdateHdr(k, fwd)), bwd)

\* A bug: the address is kept whole.
Uint16Whole(ip) == ip

Uint16(ip) == ip % U16

-----------------------------------------------------------------------------
(* mtnf_nat_handler *)

RowsInUse == UNION {{natentry_map[b][i] : i \in DOMAIN natentry_map[b]} : b \in NatBuckets}

\* The framework calls the handler with the next batch.
NatStartBatch ==
    /\ nat_fault = "none"
    /\ new_ip' = 1
    /\ UNCHANGED <<natentry_map, port_used, nat_fault, sent_hdr>>

NatFault(why) ==
    /\ nat_fault' = why
    /\ UNCHANGED <<natentry_map, port_used, new_ip, sent_hdr>>

Backward(k) == BackwardKey(k, Row(k).new_ip, Row(k).new_port)

\* A packet of a known flow.
Forward(k) ==
    /\ Known(k) /\ Known(Backward(k))
    /\ sent_hdr' = Translated(k, Row(k), Row(Backward(k)))
    /\ UNCHANGED <<natentry_map, port_used, new_ip, nat_fault>>

\* The missing backward entry is printed and then used.
ForwardWithoutBackward(k) ==
    /\ Known(k) /\ ~Known(Backward(k))
    /\ NatFault("no backward entry")

\* A full bucket: the packet leaves reversed and untranslated.
FullBucket(k) ==
    /\ ~Known(k)
    /\ Len(natentry_map[HashFlowkey(k)]) = NAT_BUCKET_SIZE
    /\ sent_hdr' = Reversed(k)
    /\ UNCHANGED <<natentry_map, port_used, new_ip, nat_fault>>

\* The ten trials find an unused port, or all of them fail and leave 0.
PickPort(port) ==
    /\ port = 0 \/ port \notin port_used
    /\ port_used' = port_used \cup ({port} \ {0})

\* Forward and backward entries share a bucket: the second is written over the
\* first, and the count then passes a slot that was never written.
SameBucket(h, bwd) ==
    natentry_map' = [natentry_map EXCEPT ![h] = @ \o <<bwd, ZeroedRow>>]

TwoBuckets(h, fwd, g, bwd) ==
    natentry_map' = [natentry_map EXCEPT ![h] = Append(@, fwd), ![g] = Append(@, bwd)]

\* A new flow, both of whose entries find room.
Create(k, port) ==
    LET h == HashFlowkey(k)
        back == BackwardKey(k, new_ip, port)
        g == HashFlowkey(back)
        fwd == [key |-> k, new_ip |-> new_ip, new_port |-> port, is_forward |-> TRUE]
        bwd == [key |-> back, new_ip |-> Uint16(k.src_ip), new_port |-> k.src_port,
                is_forward |-> FALSE]
    IN  /\ ~Known(k)
        /\ Len(natentry_map[h]) < NAT_BUCKET_SIZE
        /\ Len(natentry_map[g]) < NAT_BUCKET_SIZE
        /\ PickPort(port)
        /\ IF g = h THEN SameBucket(h, bwd) ELSE TwoBuckets(h, fwd, g, bwd)
        \* The pointer to the forward entry sees what was written over it.
        /\ sent_hdr' = Translated(k, IF g = h THEN bwd ELSE fwd, bwd)
        /\ new_ip' = Uint16(k.src_ip)
        /\ UNCHANGED nat_fault

\* A new flow whose backward entry finds no room: the forward entry is not
\* counted, the port stays taken and new_ip stays changed.
CreateHalf(k, port) ==
    LET h == HashFlowkey(k)
        g == HashFlowkey(BackwardKey(k, new_ip, port))
    IN  /\ ~Known(k)
        /\ Len(natentry_map[h]) < NAT_BUCKET_SIZE
        /\ Len(natentry_map[g]) >= NAT_BUCKET_SIZE
        /\ PickPort(port)
        /\ sent_hdr' = Reversed(k)
        /\ new_ip' = Uint16(k.src_ip)
        /\ UNCHANGED <<natentry_map, nat_fault>>

\* The count has passed NAT_BUCKET_SIZE and the bucket is not taken for full.
LeaveBucket(k) == ScansOutside(k) /\ NatFault("outside bucket")

NatPacket(k) ==
    \/ Forward(k)
    \/ ForwardWithoutBackward(k)
    \/ FullBucket(k)
    \/ \E port \in Ports \cup {0} : Create(k, port) \/ CreateHalf(k, port)
    \/ LeaveBucket(k)

\* After a nat_fault nothing is modelled: the process is gone, or its tables are.
NatStopped == nat_fault # "none" /\ UNCHANGED natVars

\* A server answers what it was sent_hdr.
Replies ==
    {row.key : row \in {r \in RowsInUse : r.key # NoKey /\ ~r.is_forward}}

NatNext ==
    \/ NatStartBatch
    \/ \E k \in NatPackets \cup Replies : nat_fault = "none" /\ NatPacket(k)
    \/ NatStopped

NatSpec == NatInit /\ [][NatNext]_natVars

-----------------------------------------------------------------------------
(* Properties *)

ForwardRows == {row \in RowsInUse : row.is_forward}

(* No port is given to two flows, though ports are tried at random, entries  *)
(* are written over each other and a half-made flow keeps its port.          *)
PortsAreDistinct ==
    /\ \A r, s \in ForwardRows : r.new_port = s.new_port /\ r.new_port # 0 => r = s
    /\ {r.new_port : r \in ForwardRows} \subseteq port_used \cup {0}

(* A flow that has a port of its own can be undone: the key its replies have *)
(* leads to a backward entry with the flow's own (16-bit) source.            *)
RepliesFindTheirFlow ==
    \A k \in NatPackets :
        Known(k) /\ Row(k).new_port # 0 =>
            /\ Known(Backward(k))
            /\ ~Row(Backward(k)).is_forward
            /\ Row(Backward(k)).new_ip = Uint16(k.src_ip)
            /\ Row(Backward(k)).new_port = k.src_port

\* The entries a packet of k finds: the forward one and, through it, the backward.
Found(k) == {natentry_map[HashFlowkey(k)][i] : i \in {Find(k)} \ {0}}

EntryPair(k) ==
    LET fwd == Found(k)
    IN  <<fwd, UNION {Found(BackwardKey(k, row.new_ip, row.new_port)) : row \in fwd}>>

(* The translation of a known flow never changes, whatever entries are added *)
(* to its buckets, written over or left half-made.                           *)
TranslationIsStable ==
    [][\A k \in NatPackets : Known(k) => EntryPair(k)' = EntryPair(k)]_natVars

(* Flows are told apart in both directions.                                  *)
FlowsAreToldApart == PortsAreDistinct /\ RepliesFindTheirFlow

=============================================================================
