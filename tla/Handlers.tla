------------------------------- MODULE Handlers -------------------------------
(***************************************************************************)
(* The handlers that inspect packets or rewrite payloads: monitor, IDS and *)
(* the two of AES, mtnf/nfs/mtnf_{monitor,ids,aes_encrypt,aes_decrypt}.c,  *)
(* with the accessors of mtnf_help.c they rest on, and what the worker     *)
(* does with the number they answer (main.c:294-304): so many packets are  *)
(* sent from the front of the array, the rest is forgotten.                *)
(***************************************************************************)
EXTENDS Integers, Sequences, FiniteSets, FiniteSetsExt, SequencesExt

CONSTANTS
    HandlerMbufs,  \* the mbufs of the pool
    HandlerBatch,  \* MAX_PKT_BUFFER: packets handed to a handler
    Lengths,       \* IP total lengths
    BatchBound     \* bound: batches handled

Versions == {4, 6}
Protocols == {1, 6, 17}   \* ICMP, for all others; IP_PROTOCOL_TCP, IP_PROTOCOL_UDP
Headers == [version : Versions, next_proto_id : Protocols, total_length : Lengths]

LEN_CNT == 17
U16Range == 0 .. 2 ^ 16 - 1

ASSUME HandlersAssumption ==
    /\ IsFiniteSet(HandlerMbufs)
    /\ HandlerBatch \in 1 .. Cardinality(HandlerMbufs)
    /\ Lengths \subseteq U16Range /\ Lengths # {}
    /\ BatchBound \in Nat

VARIABLES
    handler,       \* the one compiled in
    free_mbufs,    \* mbufs back in the pool
    slots,         \* buffer_slot: the batch at work on
    header,        \* the headers of the packets in slots
    looked,        \* packets the loop has gone through
    answer,        \* num_out
    tcp_num, udp_num, len_cnt,   \* monitor_statistics
    handler_fault, \* why nothing more can be said
    batches,       \* batches received (BatchBound)
    leaked,        \* history: mbufs nobody has any more
    seen           \* history: packets looked at that were TCP, UDP and neither

handlerVars == <<handler, free_mbufs, slots, header, looked, answer, tcp_num, udp_num,
                 len_cnt, handler_fault, batches, leaked, seen>>
batchVarsH == <<handler, free_mbufs, slots, header, batches, leaked>>
statVars == <<tcp_num, udp_num, len_cnt>>

HandlersTypeOK ==
    /\ handler \in {"monitor", "ids", "aes_encrypt", "aes_decrypt"}
    /\ free_mbufs \subseteq HandlerMbufs /\ leaked \subseteq HandlerMbufs
    /\ slots \in Seq(HandlerMbufs)
    /\ header \in Seq(Headers) /\ Len(header) = Len(slots)
    /\ looked \in 0 .. Len(slots)
    /\ answer \in 0 .. 2 * HandlerBatch
    /\ tcp_num \in Nat /\ udp_num \in Nat
    /\ len_cnt \in [0 .. LEN_CNT - 1 -> U16Range]
    /\ handler_fault \in {"none", "null header", "outside buffer"}
    /\ batches \in 0 .. BatchBound
    /\ seen \in [{"tcp", "udp", "neither"} -> Nat]

HandlersInit ==
    /\ handler \in {"monitor", "ids", "aes_encrypt", "aes_decrypt"}
    /\ free_mbufs = HandlerMbufs /\ leaked = {}
    /\ slots = <<>> /\ looked = 0 /\ answer = 0
    /\ header = <<>>
    /\ tcp_num = 0 /\ udp_num = 0
    /\ len_cnt = [n \in 0 .. LEN_CNT - 1 |-> 0]
    /\ handler_fault = "none"
    /\ batches = 0
    /\ seen = [k \in {"tcp", "udp", "neither"} |-> 0]

-----------------------------------------------------------------------------
(* The accessors answer NULL or the header; here, whether there is one *)

HasIpv4Hdr(p) == p.version = 4

HasTcpHdr(p) == HasIpv4Hdr(p) /\ p.next_proto_id = 6

HasUdpHdr(p) == HasIpv4Hdr(p) /\ p.next_proto_id = 17

-----------------------------------------------------------------------------
(* The loops *)

\* num_out before the loop.
AnswerAtStart == IF handler = "aes_encrypt" THEN 0 ELSE HandlerBatch

HandlerReceive ==
    /\ slots = <<>> /\ handler_fault = "none"
    /\ batches < BatchBound /\ batches' = batches + 1
    /\ \E ms \in kSubset(HandlerBatch, free_mbufs) :
         /\ free_mbufs' = free_mbufs \ ms
         /\ slots' = SetToSeq(ms)
    /\ header' \in [1 .. HandlerBatch -> Headers]
    /\ looked' = 0
    /\ answer' = AnswerAtStart
    /\ UNCHANGED <<handler, statVars, handler_fault, leaked, seen>>

\* The batch has a packet left for the loop of handler h.
Looks(h) ==
    /\ handler = h /\ handler_fault = "none"
    /\ looked < Len(slots)

pkt == header[looked + 1]

Kind(p) == IF HasTcpHdr(p) THEN "tcp" ELSE IF HasUdpHdr(p) THEN "udp" ELSE "neither"

NextPacket ==
    /\ looked' = looked + 1
    /\ seen' = [seen EXCEPT ![Kind(pkt)] = @ + 1]
    /\ UNCHANGED <<batchVarsH, handler_fault>>

\* What a pass of the loop makes of a length counter.
LengthStep(sum) ==
    (IF sum % 2 = 1 THEN (sum * 11315137) % 141331
                    ELSE (sum * 13515113) % 111343) % 2 ^ 16

\* A pass for every seven bytes.
LengthCounted(n, len) ==
    LET passes == (len + 6) \div 7
        sum[k \in 0 .. passes] == IF k = 0 THEN n ELSE LengthStep(sum[k - 1])
    IN  sum[passes]

Monitor ==
    /\ Looks("monitor") /\ HasIpv4Hdr(pkt)
    /\ tcp_num' = tcp_num + IF HasTcpHdr(pkt) THEN 1 ELSE 0
    /\ udp_num' = udp_num + IF HasUdpHdr(pkt) THEN 1 ELSE 0
    /\ len_cnt' = [len_cnt EXCEPT ![pkt.total_length % LEN_CNT] =
                      LengthCounted(@, pkt.total_length)]
    /\ NextPacket
    /\ UNCHANGED answer

\* total_length is read through the null pointer.
MonitorNull ==
    /\ Looks("monitor") /\ ~HasIpv4Hdr(pkt)
    /\ handler_fault' = "null header"
    /\ UNCHANGED <<batchVarsH, statVars, looked, answer, seen>>

\* The matcher is module Ids; whatever it finds, the packet passes.
IdsHandle ==
    /\ Looks("ids")
    /\ NextPacket
    /\ UNCHANGED <<statVars, answer>>

\* What is encrypted goes to a buffer of the function: the packet is as it was.
AesEncryptHandle ==
    /\ Looks("aes_encrypt")
    /\ answer' = answer + IF HasUdpHdr(pkt) \/ HasTcpHdr(pkt) THEN 1 ELSE 0
    /\ NextPacket
    /\ UNCHANGED statVars

\* The answer starts at the number of packets, and is raised for each UDP packet.
AesDecryptHandle ==
    /\ Looks("aes_decrypt")
    /\ answer' = answer + IF HasUdpHdr(pkt) THEN 1 ELSE 0
    /\ NextPacket
    /\ UNCHANGED statVars

HandlerReturned == slots # <<>> /\ looked = Len(slots) /\ handler_fault = "none"

\* A bug: of the packets that are not sent the first is freed.
SendFrontFree ==
    /\ HandlerReturned /\ answer <= HandlerBatch
    /\ LET gone == IF answer < HandlerBatch THEN answer + 1 ELSE answer
       IN  /\ free_mbufs' = free_mbufs \cup ToSet(SubSeq(slots, 1, gone))
           /\ leaked' = leaked \cup ToSet(SubSeq(slots, gone + 1, HandlerBatch))
    /\ slots' = <<>> /\ header' = <<>> /\ looked' = 0 /\ answer' = 0
    /\ UNCHANGED <<handler, statVars, handler_fault, batches, seen>>

\* The first of the array are transmitted, or freed if the port refuses them.
SendFront ==
    /\ HandlerReturned /\ answer <= HandlerBatch
    /\ free_mbufs' = free_mbufs \cup ToSet(SubSeq(slots, 1, answer))
    /\ leaked' = leaked \cup ToSet(SubSeq(slots, answer + 1, HandlerBatch))
    /\ slots' = <<>> /\ header' = <<>> /\ looked' = 0 /\ answer' = 0
    /\ UNCHANGED <<handler, statVars, handler_fault, batches, seen>>

\* What lies behind the buffer is transmitted as if it were packets.
SendOutside ==
    /\ HandlerReturned /\ answer > HandlerBatch
    /\ handler_fault' = "outside buffer"
    /\ UNCHANGED <<batchVarsH, statVars, looked, answer, seen>>

\* After a fault, with an empty pool or after BatchBound batches.
HandlerStopped ==
    /\ \/ handler_fault # "none"
       \/ slots = <<>> /\ (batches = BatchBound \/ Cardinality(free_mbufs) < HandlerBatch)
    /\ UNCHANGED handlerVars

HandlersNext ==
    \/ HandlerReceive
    \/ Monitor \/ MonitorNull \/ IdsHandle \/ AesEncryptHandle \/ AesDecryptHandle
    \/ SendFront \/ SendOutside
    \/ HandlerStopped

HandlersSpec == HandlersInit /\ [][HandlersNext]_handlerVars

-----------------------------------------------------------------------------
(* Properties *)

(* mtnf_aes_encrypt.c:78-109: the answer counts TCP and UDP packets wherever  *)
(* they stand, so that for every other packet one mbuf, not always its own,   *)
(* is neither sent nor freed; no other handler loses any.                     *)
LeaksAreTheOthers ==
    /\ free_mbufs \cup ToSet(slots) \cup leaked = HandlerMbufs
    /\ Cardinality(free_mbufs) + Len(slots) + Cardinality(leaked) = Cardinality(HandlerMbufs)
    /\ slots = <<>> =>
         Cardinality(leaked) = IF handler = "aes_encrypt" THEN seen["neither"] ELSE 0

(* mtnf_aes_decrypt.c:76-97: an answer beyond the array comes from the        *)
(* decrypting handler, and from every batch of its with a UDP packet.         *)
AnswerFitsTheArray ==
    HandlerReturned =>
        (answer > HandlerBatch
            <=> handler = "aes_decrypt" /\ \E n \in DOMAIN header : HasUdpHdr(header[n]))

(* mtnf_monitor.c:31-49: every packet is counted once, as what it is, and the *)
(* length counters, which are multiplied and never incremented, stay at 0.    *)
MonitorCounts ==
    /\ handler = "monitor" => tcp_num = seen["tcp"] /\ udp_num = seen["udp"]
    /\ len_cnt = [n \in 0 .. LEN_CNT - 1 |-> 0]
    /\ handler_fault = "null header" => ~HasIpv4Hdr(pkt)

(* Every packet of a batch is answered, counted or lost as stated above.     *)
BatchesAreAnswered == LeaksAreTheOthers /\ AnswerFitsTheArray /\ MonitorCounts

=============================================================================
