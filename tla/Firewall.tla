------------------------------- MODULE Firewall -------------------------------
(***************************************************************************)
(* The firewall function, mtnf/nfs/mtnf_firewall.c: a hash table of rules, *)
(* filled once from a list, and a handler that filters a batch of packets  *)
(* in the array it came in.  The packets of a batch are numbered in the    *)
(* order they come in.                                                     *)
(***************************************************************************)
EXTENDS Integers, Sequences, FiniteSets, FiniteSetsExt

CONSTANTS
    FiveTuples,     \* the keys packets and rules have
    NotIpv4,        \* what stands for the key of any other packet
    MtnfHashVal,    \* mtnf_hash_val
    FW_BIG_PRIME,   \* BIG_PRIME: buckets
    FW_BUCKET_SIZE, \* BUCKET_SIZE: rules a bucket has room for
    FwBatch,        \* packets in a batch: the framework's MAX_PKT_BUFFER
    RuleBound       \* bound: rules in ipv4_firewall_hash_entry_array

FwBuckets == 0 .. FW_BIG_PRIME - 1
FwActions == {"PASS", "DROP"}
FwRules == [key : FiveTuples, action : FwActions]
FwPkts == 1 .. FwBatch

ASSUME FirewallAssumption ==
    /\ FW_BIG_PRIME \in Nat \ {0}
    /\ FW_BUCKET_SIZE \in Nat \ {0}
    /\ MtnfHashVal \in [FiveTuples -> FwBuckets]
    /\ NotIpv4 \notin FiveTuples
    /\ FwBatch \in Nat \ {0}
    /\ RuleBound \in Nat

VARIABLES
    fw_at,       \* "init", "idle", "handler" or, after a null pointer, "fault"
    rules,       \* history: the rules inserted so far, in their order
    hash_map,    \* [FwBuckets -> Seq(FwRules)]: the valid nodes, which come first
    pkt_key,     \* the key each packet of the batch carries
    fw_pkt,      \* pkt, the array of the batch
    fw_i,        \* packets looked at
    fw_num_out,  \* packets kept
    fw_freed     \* packets freed

firewallVars == <<fw_at, rules, hash_map, pkt_key, fw_pkt, fw_i, fw_num_out, fw_freed>>

tableVars == <<rules, hash_map>>

FirewallTypeOK ==
    /\ fw_at \in {"init", "idle", "handler", "fault"}
    /\ rules \in Seq(FwRules)
    /\ hash_map \in [FwBuckets -> Seq(FwRules)]
    /\ \A b \in FwBuckets : Len(hash_map[b]) <= FW_BUCKET_SIZE
    /\ pkt_key \in [FwPkts -> FiveTuples \cup {NotIpv4}]
    /\ fw_pkt \in [FwPkts -> FwPkts]
    /\ fw_i \in 0 .. FwBatch
    /\ fw_num_out \in 0 .. fw_i
    /\ fw_freed \subseteq FwPkts

FirewallInit ==
    /\ fw_at = "init"
    /\ rules = <<>>
    /\ hash_map = [b \in FwBuckets |-> <<>>]
    /\ pkt_key = [n \in FwPkts |-> NotIpv4]
    /\ fw_pkt = [n \in FwPkts |-> n]
    /\ fw_i = 0 /\ fw_num_out = 0
    /\ fw_freed = {}

-----------------------------------------------------------------------------
(* mtnf_hash_insert, called for each rule by mtnf_firewall_init *)

\* A bug: a node that is used again keeps its action.
PlacedOldAction(nodes, rule) ==
    IF Len(nodes) < FW_BUCKET_SIZE THEN Append(nodes, rule)
                                   ELSE [nodes EXCEPT ![1].key = rule.key]

\* A full bucket has its first node overwritten.
Placed(nodes, rule) ==
    IF Len(nodes) < FW_BUCKET_SIZE THEN Append(nodes, rule)
                                   ELSE [nodes EXCEPT ![1] = rule]

Insert(rule) ==
    /\ fw_at = "init"
    /\ Len(rules) < RuleBound
    /\ rules' = Append(rules, rule)
    /\ hash_map' = [hash_map EXCEPT ![MtnfHashVal[rule.key]] = Placed(@, rule)]
    /\ UNCHANGED <<fw_at, pkt_key, fw_pkt, fw_i, fw_num_out, fw_freed>>

Loaded ==
    /\ fw_at = "init"
    /\ fw_at' = "idle"
    /\ UNCHANGED <<tableVars, pkt_key, fw_pkt, fw_i, fw_num_out, fw_freed>>

(* mtnf_hash_lookup *)

\* All nodes are looked at and the last match decides.
Lookup(k) ==
    LET nodes == hash_map[MtnfHashVal[k]]
        hits == {n \in DOMAIN nodes : nodes[n].key = k}
    IN  IF hits = {} THEN "PASS" ELSE nodes[Max(hits)].action

(* mtnf_firewall_handler *)

FwReceive ==
    /\ fw_at = "idle"
    /\ fw_at' = "handler"
    /\ pkt_key' \in [FwPkts -> FiveTuples \cup {NotIpv4}]
    /\ UNCHANGED <<tableVars, fw_pkt, fw_i, fw_num_out, fw_freed>>

FwLooks(key) == fw_at = "handler" /\ fw_i < FwBatch /\ pkt_key[fw_pkt[fw_i + 1]] = key

\* The accessor answers NULL, which firewall_fill_ipv4_5tuple_key reads from.
NullHeader ==
    /\ FwLooks(NotIpv4)
    /\ fw_at' = "fault"
    /\ UNCHANGED <<tableVars, pkt_key, fw_pkt, fw_i, fw_num_out, fw_freed>>

\* A bug: the packet is kept where the next one is read.
KeepAhead(k) ==
    /\ FwLooks(k)
    /\ Lookup(k) = "PASS"
    /\ fw_pkt' = [fw_pkt EXCEPT ![IF fw_i + 2 > FwBatch THEN fw_i + 1 ELSE fw_i + 2] =
                                    fw_pkt[fw_i + 1]]
    /\ fw_num_out' = fw_num_out + 1
    /\ fw_i' = fw_i + 1
    /\ UNCHANGED <<fw_at, tableVars, pkt_key, fw_freed>>

Keep(k) ==
    /\ FwLooks(k)
    /\ Lookup(k) = "PASS"
    /\ fw_pkt' = [fw_pkt EXCEPT ![fw_num_out + 1] = fw_pkt[fw_i + 1]]
    /\ fw_num_out' = fw_num_out + 1
    /\ fw_i' = fw_i + 1
    /\ UNCHANGED <<fw_at, tableVars, pkt_key, fw_freed>>

Drop(k) ==
    /\ FwLooks(k)
    /\ Lookup(k) = "DROP"
    /\ fw_freed' = fw_freed \cup {fw_pkt[fw_i + 1]}
    /\ fw_i' = fw_i + 1
    /\ UNCHANGED <<fw_at, tableVars, pkt_key, fw_pkt, fw_num_out>>

\* The handler answers num_out; its caller sends and reuses the array.
FwReturn ==
    /\ fw_at = "handler" /\ fw_i = FwBatch
    /\ fw_at' = "idle"
    /\ fw_pkt' = [n \in FwPkts |-> n]
    /\ fw_i' = 0 /\ fw_num_out' = 0
    /\ fw_freed' = {}
    /\ pkt_key' = [n \in FwPkts |-> NotIpv4]
    /\ UNCHANGED tableVars

\* Nothing is modelled after a null pointer has been read from.
FwStopped == fw_at = "fault" /\ UNCHANGED firewallVars

FirewallNext ==
    \/ \E rule \in FwRules : Insert(rule)
    \/ Loaded
    \/ FwReceive
    \/ \E k \in FiveTuples : Keep(k) \/ Drop(k)
    \/ NullHeader
    \/ FwReturn
    \/ FwStopped

FirewallSpec == FirewallInit /\ [][FirewallNext]_firewallVars

-----------------------------------------------------------------------------
(* Properties *)

RulesOf(k) == {n \in DOMAIN rules : rules[n].key = k}

RulesInBucket(b) == {n \in DOMAIN rules : MtnfHashVal[rules[n].key] = b}

(* mtnf_firewall.c:68-117: as long as a bucket has not overflowed, the latest *)
(* rule for a 5-tuple decides, as if the list were read backwards, and no     *)
(* rule means PASS.                                                           *)
LatestRuleDecides ==
    \A k \in FiveTuples :
        Cardinality(RulesInBucket(MtnfHashVal[k])) <= FW_BUCKET_SIZE =>
            Lookup(k) = IF RulesOf(k) = {} THEN "PASS"
                                           ELSE rules[Max(RulesOf(k))].action

(* mtnf_firewall.c:79-85: an overflowing bucket forgets rules but never       *)
(* invents one: what is dropped, some rule drops.                             *)
OnlyRulesDrop ==
    \A k \in FiveTuples :
        Lookup(k) = "DROP" => [key |-> k, action |-> "DROP"] \in {rules[n] : n \in DOMAIN rules}

(* mtnf_firewall.c:155-167: filtering in place is filtering: what has been    *)
(* kept passes, is in its order and together with what was freed is what has  *)
(* been looked at; the rest of the array is untouched.                        *)
FilterIsExact ==
    LET kept == {fw_pkt[n] : n \in 1 .. fw_num_out}
    IN  /\ kept \cup fw_freed = 1 .. fw_i
        /\ \A m \in kept : Lookup(pkt_key[m]) = "PASS"
        /\ \A m \in fw_freed : Lookup(pkt_key[m]) = "DROP"
        /\ \A n \in 1 .. fw_num_out : \A m \in 1 .. n - 1 : fw_pkt[m] < fw_pkt[n]
        /\ \A n \in fw_i + 1 .. FwBatch : fw_pkt[n] = n

(* What the table answers is what the rules say, as far as a bucket remembers *)
(* them.                                                                      *)
RulesDecide == OnlyRulesDrop /\ LatestRuleDecides

=============================================================================
