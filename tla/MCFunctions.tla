----------------------------- MODULE MCFunctions -----------------------------
(* NetworkFunctions at small sizes, each function with its own:            *)
(* NAT: three flows of two hosts, whose addresses do not fit 16 bits, to   *)
(* one server, and a hash that puts some forward entries in the bucket of  *)
(* their own backward entry.  Firewall: three 5-tuples, two of them in one *)
(* bucket of two nodes.  Modes: blocks of four bytes of two bits, under a  *)
(* permutation of them.  Cipher: the examples of FIPS 197 and the key of   *)
(* mtnf_aes_encrypt.c.  Classifier: the eight flows of main.c with the     *)
(* prime of main.c; frames of the flows, their replies, with another       *)
(* protocol or port, and one that is no IPv4.                              *)
EXTENDS NetworkFunctions

CONSTANTS k1, k2, k3

FlowOf(tenant) ==
    [src_addr |-> 43200 + 16777216 * tenant, dst_addr |-> 16885952,
     src_port |-> 1234, dst_port |-> 5678, proto |-> 6]
MCClassifierTable == [t \in 1 .. 8 |-> [key |-> FlowOf(t), tenant_id |-> t]]

Reply(k) == [k EXCEPT !.src_addr = k.dst_addr, !.dst_addr = k.src_addr,
                      !.src_port = k.dst_port, !.dst_port = k.src_port]
MCFrames ==
    {[version |-> 6, key |-> FlowOf(1)]} \cup
    [version : {4}, key : UNION {{FlowOf(t), Reply(FlowOf(t)),
                                  [FlowOf(t) EXCEPT !.proto = 17],
                                  [FlowOf(t) EXCEPT !.proto = 1],
                                  [FlowOf(t) EXCEPT !.src_port = @ + 1],
                                  [FlowOf(t) EXCEPT !.src_port = @ + 10019]} : t \in 1 .. 9}]

Flow(host, port) == [src_ip |-> host, src_port |-> port, dst_ip |-> 9, dst_port |-> 1]
MCPackets == {Flow(6, 1), Flow(6, 2), Flow(7, 1)}
MCHash(k) == (k.src_ip + k.dst_ip + k.src_port + 2 * k.dst_port) % NAT_BIG_PRIME

MCHashVal == [k \in FiveTuples |-> IF k = k3 THEN 1 ELSE 0]

MCXor(a, b) == (((a % 2) + (b % 2)) % 2) + 2 * (((a \div 2) + (b \div 2)) % 2)

MCEncrypt(b) ==
    LET c2 == (b[2] + b[1] * b[1] + 1) % 4
        c3 == (b[3] + c2 * b[1]) % 4
        c4 == (b[4] + c3 * c2 + 3) % 4
        c1 == (b[1] + c4 * c3) % 4
    IN  <<c2, c3, c4, c1>>

MCDecrypt(c) ==
    LET b1 == (c[4] - c[3] * c[2]) % 4
    IN  <<b1, (c[1] - b1 * b1 - 1) % 4, (c[2] - c[1] * b1) % 4, (c[3] - c[2] * c[1] - 3) % 4>>

Ramp(n, a, d) == [k \in 1 .. n |-> (a + d * k) % 4]
MCMessages == {Ramp(n, a, d) : n \in 0 .. 9, a \in 0 .. 3, d \in 0 .. 1}
MCIvs == {<<0, 0, 0, 0>>, <<1, 0, 3, 3>>, <<3, 3, 3, 3>>}
MCPayloads == {Ramp(n, a, 1) : n \in 0 .. 5, a \in {0, 2}}
MCAssocs == {Ramp(n, 1, 1) : n \in 0 .. 3}
MCNonces == {<<>>, <<2>>, <<1, 3>>}

FipsKey == [k \in 1 .. 32 |-> k - 1]
FipsBlock == [k \in 1 .. 16 |-> 17 * (k - 1)]
FunctionKey ==
    <<96, 61, 235, 16, 21, 202, 113, 190, 43, 115, 174, 240, 133, 125, 119, 129,
      31, 53, 44, 7, 59, 97, 8, 215, 45, 152, 16, 163, 9, 20, 223, 244>>
MCKeys == {FipsKey, FunctionKey}
MCBlocks == {FipsBlock, [k \in 1 .. 16 |-> k - 1]}
Vector(size, out) == [size |-> size, key |-> FipsKey, block |-> FipsBlock, out |-> out]
MCVectors ==
    {Vector(128, <<105, 196, 224, 216, 106, 123, 4, 48, 216, 205, 183, 128, 112, 180, 197, 90>>),
     Vector(192, <<221, 169, 124, 164, 134, 76, 223, 224, 110, 175, 112, 160, 236, 13, 113, 145>>),
     Vector(256, <<142, 162, 183, 202, 81, 103, 69, 191, 234, 252, 73, 144, 75, 73, 96, 137>>)}

=============================================================================
