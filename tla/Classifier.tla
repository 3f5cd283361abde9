------------------------------ MODULE Classifier ------------------------------
(***************************************************************************)
(* How dispatcher_thread (mtnf/framework_software/main.c) finds the tenant *)
(* of a packet: a table of hashes, entered when the thread starts from the  *)
(* tenants' flows, is looked up with the hash of the packet's 5-tuple, and *)
(* what it holds is written to the packet, where the worker reads it.      *)
(* Nothing but the hash is compared.                                       *)
(***************************************************************************)
EXTENDS Integers, Sequences

CONSTANTS
    CL_BIG_PRIME,     \* buckets
    ClassifierTable,  \* its rows: a flow and the tenant it belongs to
    Frames            \* the frames that are received

FiveTuple == [src_addr : Nat, dst_addr : Nat, src_port : Nat, dst_port : Nat, proto : Nat]
Rows == DOMAIN ClassifierTable
NoFrame == [version |-> 0]

ASSUME ClassifierAssumption ==
    /\ CL_BIG_PRIME \in Nat \ {0}
    /\ ClassifierTable \in Seq([key : FiveTuple, tenant_id : Nat \ {0}])
    /\ \A f \in Frames : f.version \in {4, 6} /\ f.key \in FiveTuple

VARIABLES
    entered,      \* rows entered in hash_table
    hash_table,   \* the buckets that are not 0
    frame,        \* the frame at work on
    tos,          \* type_of_service, which it is sent on with
    classifier_fault

classifierVars == <<entered, hash_table, frame, tos, classifier_fault>>

ClassifierTypeOK ==
    /\ entered \in 0 .. Len(ClassifierTable)
    /\ DOMAIN hash_table \subseteq 0 .. CL_BIG_PRIME - 1
    /\ \A h \in DOMAIN hash_table : \E r \in Rows : hash_table[h] = ClassifierTable[r].tenant_id
    /\ frame \in Frames \cup {NoFrame}
    /\ tos \in {0} \cup {ClassifierTable[r].tenant_id : r \in Rows}
    /\ classifier_fault \in BOOLEAN

ClassifierInit ==
    /\ entered = 0 /\ hash_table = <<>>
    /\ frame = NoFrame /\ tos = 0
    /\ classifier_fault = FALSE

-----------------------------------------------------------------------------
(* The hash *)

\* r, below the prime, shifted by at most 16 bits: in 64 bits nothing is lost.
Shifted(r, bits) == (r * 2 ^ bits) % CL_BIG_PRIME

Mixed(r, bits, value) == (Shifted(r, bits) + value) % CL_BIG_PRIME

\* The ports and the protocol, after the addresses gave r.
HashRest(r, k) == Mixed(Mixed(Mixed(r, 16, k.src_port), 16, k.dst_port), 8, k.proto)

\* A bug: in 32 bits the first shift leaves nothing of the source address.
HashValNarrow(k) == HashRest(k.dst_addr % CL_BIG_PRIME, k)

HashVal(k) ==
    HashRest(Mixed(Shifted(k.src_addr % CL_BIG_PRIME, 16), 16, k.dst_addr), k)

\* TCP and UDP packets have ports.
KeyOf(f) ==
    IF f.key.proto \in {6, 17} THEN f.key
    ELSE [f.key EXCEPT !.src_port = 0, !.dst_port = 0]

-----------------------------------------------------------------------------

\* A later row with the same hash replaces an earlier one.
FillRow ==
    LET row == ClassifierTable[entered + 1]
        bucket == HashVal(row.key)
    IN  /\ entered < Len(ClassifierTable)
        /\ entered' = entered + 1
        /\ hash_table' = [h \in DOMAIN hash_table \cup {bucket} |->
                             IF h = bucket THEN row.tenant_id ELSE hash_table[h]]
        /\ UNCHANGED <<frame, tos, classifier_fault>>

Receives == entered = Len(ClassifierTable) /\ ~classifier_fault

Classify(f) ==
    LET hash_index == HashVal(KeyOf(f))
    IN  /\ Receives /\ f.version = 4
        /\ frame' = f
        /\ tos' = IF hash_index \in DOMAIN hash_table THEN hash_table[hash_index] ELSE 0
        /\ UNCHANGED <<entered, hash_table, classifier_fault>>

\* mtnf_pkt_ipv4_hdr answers NULL, and its fields are read.
NoIpv4Header(f) ==
    /\ Receives /\ f.version # 4
    /\ frame' = f
    /\ classifier_fault' = TRUE
    /\ UNCHANGED <<entered, hash_table, tos>>

\* Nothing is defined after that.
ClassifierStopped == classifier_fault /\ UNCHANGED classifierVars

ClassifierNext ==
    FillRow \/ (\E f \in Frames : Classify(f) \/ NoIpv4Header(f)) \/ ClassifierStopped

ClassifierSpec == ClassifierInit /\ [][ClassifierNext]_classifierVars

-----------------------------------------------------------------------------
(* Properties *)

(* The eight flows as built have eight hashes (main.c:60-69, 127-132), so the *)
(* packets of each reach their own tenant; any other packet is tenant 0's     *)
(* unless its hash is that of a flow, when it is taken for the flow's tenant, *)
(* and only a frame without an IPv4 header is the end (main.c:141-161).       *)
FlowsGetTheirTenant ==
    /\ classifier_fault <=> frame.version = 6
    /\ frame.version = 4 =>
        \A r \in Rows :
            /\ KeyOf(frame) = ClassifierTable[r].key => tos = ClassifierTable[r].tenant_id
            /\ tos = ClassifierTable[r].tenant_id
                  <=> HashVal(KeyOf(frame)) = HashVal(ClassifierTable[r].key)

=============================================================================
