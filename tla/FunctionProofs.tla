---------------------------- MODULE FunctionProofs ----------------------------
(***************************************************************************)
(* Theorems about the network functions and the classifier before them.    *)
(* Classifier: for any table of flows that differ in their hashes.  Nat:   *)
(* for any hash, sizes of the table and any clients.  Firewall: for any    *)
(* hash, any sizes of the table and of a batch, and any list of rules.     *)
(* Ids: for any number of rules, any length of rule and payload and any    *)
(* alphabet, the tables are right, the search finds what is there, no      *)
(* index leaves its array and every pass makes progress.  Handlers: for    *)
(* any pool, batch and packets, which mbufs are lost and what is counted.  *)
(* AesModes: for any cipher that its inverse undoes, blocks and bytes of   *)
(* any size and messages of any length.                                    *)
(* AesCipher: for every key of 128, 192 and 256 bits and every block, the  *)
(* decryption undoes the rounds.  NetworkFunctions: all of them together.  *)
(***************************************************************************)
EXTENDS NetworkFunctions,
        FiniteSetTheorems, FunctionTheorems, SequenceTheorems, WellFoundedInduction, TLAPS

-----------------------------------------------------------------------------
(* Classifier: every flow has its bucket *)

(* What makes the table right, a fact about its rows: the flows differ in    *)
(* their hashes, and the tenants are different ones.                         *)
FlowsAreApart ==
    \A q, r \in Rows :
        q # r => /\ HashVal(ClassifierTable[q].key) # HashVal(ClassifierTable[r].key)
                 /\ ClassifierTable[q].tenant_id # ClassifierTable[r].tenant_id

RowHash(r) == HashVal(ClassifierTable[r].key)

\* The buckets are those of the rows entered, each with its own tenant.
ClassifierInv ==
    /\ entered \in 0 .. Len(ClassifierTable)
    /\ DOMAIN hash_table = {RowHash(r) : r \in 1 .. entered}
    /\ \A r \in 1 .. entered : hash_table[RowHash(r)] = ClassifierTable[r].tenant_id
    /\ frame \in Frames \cup {NoFrame}
    /\ frame # NoFrame => entered = Len(ClassifierTable)
    /\ FlowsGetTheirTenant

(* The lookup of a frame finds the row with the same hash, and no other.     *)
LEMMA LookedUp ==
    ASSUME FlowsAreApart, ClassifierInv, entered = Len(ClassifierTable),
           NEW k, NEW tenant,
           tenant = IF HashVal(k) \in DOMAIN hash_table
                    THEN hash_table[HashVal(k)] ELSE 0
    PROVE  \A r \in Rows :
             /\ k = ClassifierTable[r].key => tenant = ClassifierTable[r].tenant_id
             /\ tenant = ClassifierTable[r].tenant_id
                  <=> HashVal(k) = HashVal(ClassifierTable[r].key)
<1>1. Rows = 1 .. entered
  BY ClassifierAssumption DEF Rows
<1> SUFFICES ASSUME NEW r \in Rows
             PROVE  /\ k = ClassifierTable[r].key => tenant = ClassifierTable[r].tenant_id
                    /\ tenant = ClassifierTable[r].tenant_id <=> HashVal(k) = RowHash(r)
  BY DEF RowHash
<1>2. ClassifierTable[r].tenant_id # 0
  <2>1. ClassifierTable[r] \in [key : FiveTuple, tenant_id : Nat \ {0}]
    <3> DEFINE TableRow == [key : FiveTuple, tenant_id : Nat \ {0}]
    <3>1. ClassifierTable \in Seq(TableRow)
      BY ClassifierAssumption
    <3> HIDE DEF TableRow
    <3>2. ClassifierTable[r] \in TableRow
      BY <3>1 DEF Rows
    <3> QED
      BY <3>2 DEF TableRow
  <2> QED
    BY <2>1
<1>3. HashVal(k) = RowHash(r) => tenant = ClassifierTable[r].tenant_id
  BY <1>1 DEF ClassifierInv
<1>4. ASSUME tenant = ClassifierTable[r].tenant_id
      PROVE  HashVal(k) = RowHash(r)
  <2>1. HashVal(k) \in DOMAIN hash_table
    BY <1>2, <1>4
  <2>2. PICK q \in Rows : HashVal(k) = RowHash(q)
    BY <1>1, <2>1 DEF ClassifierInv
  <2>3. tenant = ClassifierTable[q].tenant_id
    BY <1>1, <2>1, <2>2 DEF ClassifierInv
  <2> QED
    BY <1>4, <2>2, <2>3 DEF FlowsAreApart
<1> QED
  BY <1>3, <1>4 DEF RowHash

LEMMA ClassifierStep ==
    ASSUME FlowsAreApart, ClassifierInv, [ClassifierNext]_classifierVars
    PROVE  ClassifierInv'
<1>1. Len(ClassifierTable) \in Nat /\ Rows = 1 .. Len(ClassifierTable)
  BY ClassifierAssumption DEF Rows
<1>2. CASE FillRow
  <2> DEFINE row == ClassifierTable[entered + 1]
             bucket == HashVal(row.key)
  <2>1. /\ entered < Len(ClassifierTable) /\ entered' = entered + 1
        /\ hash_table' = [h \in DOMAIN hash_table \cup {bucket} |->
                            IF h = bucket THEN row.tenant_id ELSE hash_table[h]]
        /\ frame' = frame /\ tos' = tos /\ classifier_fault' = classifier_fault
    BY <1>2 DEF FillRow
  <2>2. bucket = RowHash(entered + 1)
    BY DEF RowHash
  <2>3. entered + 1 \in Rows /\ 1 .. (entered + 1) = (1 .. entered) \cup {entered + 1}
    BY <1>1, <2>1 DEF ClassifierInv
  <2> HIDE DEF bucket
  <2>4. DOMAIN hash_table' = {RowHash(r) : r \in 1 .. (entered + 1)}
    BY <2>1, <2>2, <2>3 DEF ClassifierInv
  <2>5. ASSUME NEW r \in 1 .. (entered + 1)
        PROVE  hash_table'[RowHash(r)] = ClassifierTable[r].tenant_id
    <3>1. r \in Rows /\ RowHash(r) \in DOMAIN hash_table'
      <4>1. RowHash(r) \in {RowHash(q) : q \in 1 .. (entered + 1)}
        OBVIOUS
      <4>2. r \in Rows
        BY <1>1, <2>1 DEF ClassifierInv
      <4> QED
        BY <2>4, <4>1, <4>2
    <3>2. CASE r = entered + 1
      BY <2>1, <2>2, <3>1, <3>2
    <3>3. CASE r # entered + 1
      <4>1. r \in 1 .. entered
        BY <2>3, <3>3
      <4>2. RowHash(r) # bucket
        BY <2>2, <2>3, <3>1, <3>3 DEF FlowsAreApart, RowHash
      <4> QED
        BY <2>1, <3>1, <4>1, <4>2 DEF ClassifierInv
    <3> QED
      BY <3>2, <3>3
  <2>6. frame = NoFrame
    BY <1>1, <2>1 DEF ClassifierInv
  <2>7. FlowsGetTheirTenant'
    BY <2>1, <2>6 DEF ClassifierInv, FlowsGetTheirTenant, NoFrame
  <2>8. entered + 1 \in 0 .. Len(ClassifierTable)
    BY <1>1, <2>1 DEF ClassifierInv
  <2> QED
    BY <2>1, <2>4, <2>5, <2>6, <2>7, <2>8 DEF ClassifierInv
<1>3. ASSUME NEW f \in Frames, Classify(f)
      PROVE  ClassifierInv'
  <2> DEFINE k == KeyOf(f)
  <2>1. /\ entered = Len(ClassifierTable) /\ ~classifier_fault /\ f.version = 4
        /\ frame' = f
        /\ tos' = IF HashVal(k) \in DOMAIN hash_table THEN hash_table[HashVal(k)] ELSE 0
        /\ entered' = entered /\ hash_table' = hash_table
        /\ classifier_fault' = classifier_fault
    BY <1>3 DEF Classify, Receives
  <2>2. \A r \in Rows :
          /\ k = ClassifierTable[r].key => tos' = ClassifierTable[r].tenant_id
          /\ tos' = ClassifierTable[r].tenant_id
               <=> HashVal(k) = HashVal(ClassifierTable[r].key)
    <3> HIDE DEF k
    <3> QED
      BY <2>1, LookedUp
  <2>3. FlowsGetTheirTenant'
    BY <2>1, <2>2 DEF FlowsGetTheirTenant
  <2> QED
    BY <2>1, <2>3 DEF ClassifierInv
<1>4. ASSUME NEW f \in Frames, NoIpv4Header(f)
      PROVE  ClassifierInv'
  <2>1. f.version = 6
    BY <1>4, ClassifierAssumption DEF NoIpv4Header
  <2> QED
    BY <1>4, <2>1 DEF NoIpv4Header, Receives, ClassifierInv, FlowsGetTheirTenant
<1>5. CASE UNCHANGED classifierVars
  BY <1>5 DEF classifierVars, ClassifierInv, FlowsGetTheirTenant
<1> QED
  BY <1>2, <1>3, <1>4, <1>5 DEF ClassifierNext, ClassifierStopped

(* For any table whose flows have different hashes and tenants, and any      *)
(* frames: the packets of a flow get its own tenant, and no others do but    *)
(* those that have its hash.                                                 *)
THEOREM FlowsReachTheirTenants ==
    ASSUME FlowsAreApart
    PROVE  ClassifierSpec => []FlowsGetTheirTenant
<1>1. ClassifierInit => ClassifierInv
  BY ClassifierAssumption
     DEF ClassifierInit, ClassifierInv, FlowsGetTheirTenant, NoFrame
<1>2. ClassifierInv /\ [ClassifierNext]_classifierVars => ClassifierInv'
  BY ClassifierStep
<1>3. ClassifierInv => FlowsGetTheirTenant
  BY DEF ClassifierInv
<1> QED
  BY <1>1, <1>2, <1>3, PTL DEF ClassifierSpec

-----------------------------------------------------------------------------
(* Nat: searches in a bucket *)

LEMMA LeastPlace ==
    ASSUME NEW T, T \subseteq Nat, T # {}
    PROVE  Min(T) \in T /\ \A y \in T : Min(T) <= y
<1> DEFINE R == OpToRel(<, Nat)
<1>1. IsWellFoundedOn(R, Nat)
  BY NatLessThanWellFounded
<1> HIDE DEF R
<1>2. PICK d \in T : \A e \in T : ~ (<<e, d>> \in R)
  BY <1>1, WFMin
<1>3. \A y \in T : d <= y
  <2> TAKE y \in T
  <2>1. d \in Nat /\ y \in Nat /\ ~ (y < d)
    BY <1>2 DEF R, OpToRel
  <2> QED
    BY <2>1
<1> QED
  BY <1>3 DEF Min

LEMMA LeastIs ==
    ASSUME NEW T, T \subseteq Nat, NEW m \in T, \A y \in T : m <= y
    PROVE  Min(T) = m
<1>1. Min(T) \in T /\ Min(T) <= m
  BY LeastPlace
<1>2. Min(T) \in Nat /\ m \in Nat /\ m <= Min(T)
  BY <1>1
<1> QED
  BY <1>1, <1>2

\* The first of the rows with the key k, 0 if there is none.
FirstHit(rows, k) ==
    LET hits == {n \in DOMAIN rows : rows[n].key = k}
    IN  IF hits = {} THEN 0 ELSE Min(hits)

(* It is what it is called.                                                  *)
LEMMA FirstHitIs ==
    ASSUME NEW rows \in Seq(NatRows), NEW k
    PROVE  /\ FirstHit(rows, k) = 0 <=> \A n \in DOMAIN rows : rows[n].key # k
           /\ FirstHit(rows, k) # 0 =>
                /\ FirstHit(rows, k) \in DOMAIN rows
                /\ rows[FirstHit(rows, k)].key = k
                /\ \A n \in DOMAIN rows : rows[n].key = k => FirstHit(rows, k) <= n
<1> DEFINE hits == {n \in DOMAIN rows : rows[n].key = k}
<1>1. DOMAIN rows \subseteq Nat \ {0}
  OBVIOUS
<1>2. CASE hits = {}
  BY <1>2 DEF FirstHit
<1>3. CASE hits # {}
  <2>1. hits \subseteq Nat
    BY <1>1
  <2>2. FirstHit(rows, k) = Min(hits)
    BY <1>3 DEF FirstHit
  <2> HIDE DEF hits
  <2>3. Min(hits) \in hits /\ \A y \in hits : Min(hits) <= y
    BY <1>3, <2>1, LeastPlace
  <2>4. FirstHit(rows, k) \in hits /\ \A y \in hits : FirstHit(rows, k) <= y
    BY <2>2, <2>3
  <2>5. FirstHit(rows, k) \in DOMAIN rows /\ rows[FirstHit(rows, k)].key = k
    BY <2>4 DEF hits
  <2>6. \A n \in DOMAIN rows : rows[n].key = k => FirstHit(rows, k) <= n
    BY <2>4 DEF hits
  <2>7. FirstHit(rows, k) # 0
    BY <1>1, <2>5
  <2> QED
    BY <2>5, <2>6, <2>7
<1> QED
  BY <1>2, <1>3

\* Rows are added behind the ones there are.
Grows(old, new) ==
    /\ old \in Seq(NatRows) /\ new \in Seq(NatRows)
    /\ Len(old) <= Len(new)
    /\ \A n \in DOMAIN old : new[n] = old[n]

(* What is found in a bucket is found in it after rows were added.           *)
LEMMA FirstHitStays ==
    ASSUME NEW old, NEW new, Grows(old, new), NEW k, FirstHit(old, k) # 0
    PROVE  FirstHit(new, k) = FirstHit(old, k)
<1> DEFINE n == FirstHit(old, k)
           p == FirstHit(new, k)
<1>1. /\ n \in DOMAIN old /\ old[n].key = k
      /\ \A q \in DOMAIN old : old[q].key = k => n <= q
  BY FirstHitIs DEF Grows
<1>2. DOMAIN old \subseteq DOMAIN new
  BY DEF Grows
<1>3. n \in DOMAIN new /\ new[n].key = k
  BY <1>1, <1>2 DEF Grows
<1>4. p # 0
  BY <1>3, FirstHitIs DEF Grows
<1>5. p \in DOMAIN new /\ new[p].key = k /\ p <= n
  BY <1>3, <1>4, FirstHitIs DEF Grows
<1> HIDE DEF n, p
<1>6. n \in Nat /\ p \in Nat /\ p \in DOMAIN old
  BY <1>1, <1>5 DEF Grows
<1>7. old[p].key = k
  BY <1>5, <1>6 DEF Grows
<1>8. n <= p
  BY <1>1, <1>6, <1>7
<1> QED
  BY <1>5, <1>6, <1>8 DEF n, p

-----------------------------------------------------------------------------
(* Nat: the inductive invariant *)

\* What a hash is, and whom the clients talk to: not to each other.
HashesAreBuckets == \A k \in FlowKeys : HashFlowkey(k) \in NatBuckets
ServersAreNoClients == \A k, l \in NatPackets : k.src_ip # l.dst_ip

FwdRow(k, ip, port) ==
    [key |-> k, new_ip |-> ip, new_port |-> port, is_forward |-> TRUE]
BwdRow(k, ip, port) ==
    [key |-> BackwardKey(k, ip, port), new_ip |-> Uint16(k.src_ip),
     new_port |-> k.src_port, is_forward |-> FALSE]

IsIn(row, rows) == \E n \in DOMAIN rows : rows[n] = row

\* A forward entry is a client's, and its backward entry is where it belongs.
ForwardIsSound(row) ==
    /\ row.is_forward
    /\ row.key \in NatPackets
    /\ row.new_port \in port_used \cup {0}
    /\ IsIn(BwdRow(row.key, row.new_ip, row.new_port),
            natentry_map[HashFlowkey(BackwardKey(row.key, row.new_ip, row.new_port))])

\* A backward entry has a server's key.
BackwardIsSound(b, row) ==
    /\ ~row.is_forward
    /\ \E k \in NatPackets : row.key.src_ip = k.dst_ip
    /\ row.key.dst_port \in port_used \cup {0}
    /\ HashFlowkey(row.key) = b

\* The row that is counted but never written, in the third case.
RowsAreSound ==
    \A b \in NatBuckets : \A n \in DOMAIN natentry_map[b] :
        \/ ForwardIsSound(natentry_map[b][n])
        \/ BackwardIsSound(b, natentry_map[b][n])
        \/ natentry_map[b][n] = ZeroedRow

\* A backward key with a port is one flow's.
BackwardsAreUnique ==
    \A b \in NatBuckets : \A m, n \in DOMAIN natentry_map[b] :
        LET r == natentry_map[b][m]
            s == natentry_map[b][n]
        IN  ~r.is_forward /\ ~s.is_forward /\ r.key = s.key /\ r.key.dst_port # 0 => m = n

NatInv ==
    /\ NatTypeOK
    /\ RowsAreSound
    /\ BackwardsAreUnique
    /\ PortsAreDistinct

-----------------------------------------------------------------------------
(* Nat: a new flow *)

\* What is new in the tables after a flow k got a port.
Adds(k, port) ==
    LET g == HashFlowkey(BackwardKey(k, new_ip, port))
        p == Len(natentry_map[g]) + 1
    IN  /\ \A b \in NatBuckets : Grows(natentry_map[b], natentry_map'[b])
        /\ p \in DOMAIN natentry_map'[g]
        /\ natentry_map'[g][p] = BwdRow(k, new_ip, port)
        /\ \A b \in NatBuckets : \A n \in DOMAIN natentry_map'[b] :
             \/ n \in DOMAIN natentry_map[b]
             \/ natentry_map'[b][n] = FwdRow(k, new_ip, port)
             \/ b = g /\ n = p
             \/ natentry_map'[b][n] = ZeroedRow

LEMMA RowTypes ==
    ASSUME NatTypeOK, NEW k \in FlowKeys, NEW port \in Nat
    PROVE  /\ BackwardKey(k, new_ip, port) \in FlowKeys
           /\ Uint16(k.src_ip) \in 0 .. U16 - 1
           /\ FwdRow(k, new_ip, port) \in NatRows
           /\ BwdRow(k, new_ip, port) \in NatRows
           /\ ZeroedRow \in NatRows /\ NoKey \in FlowKeys
<1>1. /\ k.src_ip \in Nat /\ k.src_port \in Nat /\ k.dst_ip \in Nat /\ k.dst_port \in Nat
      /\ new_ip \in 0 .. U16 - 1 /\ U16 \in Nat \ {0, 1}
  BY NatAssumption DEF NatTypeOK, FlowKeys
<1>2. BackwardKey(k, new_ip, port) \in FlowKeys
  <2>1. \A a \in FlowKeys, ip, q \in Nat : BackwardKey(a, ip, q) \in FlowKeys
    BY DEF BackwardKey, Reversed, FlowKeys
  <2>2. new_ip \in Nat
    BY <1>1
  <2> QED
    BY <2>1, <2>2
<1>3. Uint16(k.src_ip) \in 0 .. U16 - 1
  BY <1>1 DEF Uint16
<1>4. NoKey \in FlowKeys
  BY DEF NoKey, FlowKeys
<1>5. ZeroedRow \in NatRows
  BY <1>1, <1>4 DEF ZeroedRow, NatRows
<1> QED
  BY <1>1, <1>2, <1>3, <1>4, <1>5 DEF FwdRow, BwdRow, NatRows

LEMMA OneMoreRow ==
    ASSUME NEW rows \in Seq(NatRows), NEW r \in NatRows
    PROVE  /\ Grows(rows, Append(rows, r))
           /\ DOMAIN Append(rows, r) = DOMAIN rows \cup {Len(rows) + 1}
           /\ Append(rows, r)[Len(rows) + 1] = r
BY DEF Grows

LEMMA TwoMoreRows ==
    ASSUME NEW rows \in Seq(NatRows), NEW r \in NatRows, NEW s \in NatRows
    PROVE  /\ Grows(rows, rows \o <<r, s>>)
           /\ DOMAIN (rows \o <<r, s>>) = DOMAIN rows \cup {Len(rows) + 1, Len(rows) + 2}
           /\ (rows \o <<r, s>>)[Len(rows) + 1] = r
           /\ (rows \o <<r, s>>)[Len(rows) + 2] = s
<1> DEFINE two == <<r, s>>
<1>1. two \in Seq(NatRows) /\ Len(two) = 2 /\ two[1] = r /\ two[2] = s
  OBVIOUS
<1> HIDE DEF two
<1>2. /\ rows \o two \in Seq(NatRows)
      /\ Len(rows \o two) = Len(rows) + 2
      /\ \A n \in 1 .. Len(rows) + 2 :
           (rows \o two)[n] = IF n <= Len(rows) THEN rows[n] ELSE two[n - Len(rows)]
  <2>1. /\ rows \o two \in Seq(NatRows)
        /\ Len(rows \o two) = Len(rows) + Len(two)
        /\ \A n \in 1 .. Len(rows) + Len(two) :
             (rows \o two)[n] = IF n <= Len(rows) THEN rows[n] ELSE two[n - Len(rows)]
    BY <1>1, ConcatProperties
  <2> QED
    BY <1>1, <2>1
<1>3. Len(rows) \in Nat /\ DOMAIN rows = 1 .. Len(rows)
  OBVIOUS
<1>4. DOMAIN (rows \o two) = 1 .. Len(rows) + 2
  BY <1>2
<1>5. (rows \o two)[Len(rows) + 1] = r /\ (rows \o two)[Len(rows) + 2] = s
  BY <1>1, <1>2, <1>3
<1>6. Grows(rows, rows \o two)
  BY <1>2, <1>3 DEF Grows
<1>7. 1 .. Len(rows) + 2 = DOMAIN rows \cup {Len(rows) + 1, Len(rows) + 2}
  BY <1>3
<1> QED
  BY <1>4, <1>5, <1>6, <1>7 DEF two

LEMMA SameRows ==
    ASSUME NEW rows \in Seq(NatRows)
    PROVE  Grows(rows, rows)
BY DEF Grows

(* A new flow adds its two entries, or, if they have one bucket, the         *)
(* backward one and a row that is not written.                               *)
LEMMA CreateAdds ==
    ASSUME HashesAreBuckets, NatTypeOK, NEW k \in FlowKeys, NEW port \in Nat,
           Create(k, port)
    PROVE  Adds(k, port) /\ natentry_map' \in [NatBuckets -> Seq(NatRows)]
<1> DEFINE h == HashFlowkey(k)
           g == HashFlowkey(BackwardKey(k, new_ip, port))
           fwd == FwdRow(k, new_ip, port)
           bwd == BwdRow(k, new_ip, port)
<1>1. /\ fwd \in NatRows /\ bwd \in NatRows /\ ZeroedRow \in NatRows
      /\ h \in NatBuckets /\ g \in NatBuckets
  BY RowTypes DEF HashesAreBuckets
<1>2. IF g = h THEN SameBucket(h, bwd) ELSE TwoBuckets(h, fwd, g, bwd)
  BY DEF Create, FwdRow, BwdRow
<1>3. \A b \in NatBuckets : natentry_map[b] \in Seq(NatRows)
  BY DEF NatTypeOK
<1> HIDE DEF h, g, fwd, bwd
<1>4. CASE g = h
  <2>1. natentry_map' = [natentry_map EXCEPT ![g] = natentry_map[g] \o <<bwd, ZeroedRow>>]
    BY <1>2, <1>4 DEF SameBucket
  <2>2. /\ natentry_map'[g] = natentry_map[g] \o <<bwd, ZeroedRow>>
        /\ \A b \in NatBuckets \ {g} : natentry_map'[b] = natentry_map[b]
        /\ DOMAIN natentry_map' = NatBuckets
    BY <1>1, <2>1 DEF NatTypeOK
  <2>3. /\ Grows(natentry_map[g], natentry_map'[g])
        /\ DOMAIN natentry_map'[g] = DOMAIN natentry_map[g]
              \cup {Len(natentry_map[g]) + 1, Len(natentry_map[g]) + 2}
        /\ natentry_map'[g][Len(natentry_map[g]) + 1] = bwd
        /\ natentry_map'[g][Len(natentry_map[g]) + 2] = ZeroedRow
    BY <1>1, <1>3, <2>2, TwoMoreRows
  <2>4. \A b \in NatBuckets : Grows(natentry_map[b], natentry_map'[b])
    BY <1>3, <2>2, <2>3, SameRows
  <2>5. natentry_map' \in [NatBuckets -> Seq(NatRows)]
    BY <2>1, <2>4 DEF Grows, NatTypeOK
  <2>6. \A b \in NatBuckets : \A n \in DOMAIN natentry_map'[b] :
             \/ n \in DOMAIN natentry_map[b]
             \/ b = g /\ n = Len(natentry_map[g]) + 1
             \/ natentry_map'[b][n] = ZeroedRow
    BY <2>2, <2>3
  <2> QED
    BY <2>3, <2>4, <2>5, <2>6 DEF Adds, g, bwd
<1>5. CASE g # h
  <2>1. natentry_map' = [natentry_map EXCEPT ![h] = Append(natentry_map[h], fwd),
                                             ![g] = Append(natentry_map[g], bwd)]
    BY <1>1, <1>2, <1>5 DEF TwoBuckets, NatTypeOK
  <2>2. /\ natentry_map'[g] = Append(natentry_map[g], bwd)
        /\ natentry_map'[h] = Append(natentry_map[h], fwd)
        /\ \A b \in NatBuckets \ {g, h} : natentry_map'[b] = natentry_map[b]
        /\ DOMAIN natentry_map' = NatBuckets
    BY <1>1, <1>5, <2>1 DEF NatTypeOK
  <2>3. /\ Grows(natentry_map[g], natentry_map'[g])
        /\ DOMAIN natentry_map'[g] = DOMAIN natentry_map[g] \cup {Len(natentry_map[g]) + 1}
        /\ natentry_map'[g][Len(natentry_map[g]) + 1] = bwd
    BY <1>1, <1>3, <2>2, OneMoreRow
  <2>4. /\ Grows(natentry_map[h], natentry_map'[h])
        /\ DOMAIN natentry_map'[h] = DOMAIN natentry_map[h] \cup {Len(natentry_map[h]) + 1}
        /\ natentry_map'[h][Len(natentry_map[h]) + 1] = fwd
    BY <1>1, <1>3, <2>2, OneMoreRow
  <2>5. \A b \in NatBuckets : Grows(natentry_map[b], natentry_map'[b])
    BY <1>3, <2>2, <2>3, <2>4, SameRows
  <2>6. natentry_map' \in [NatBuckets -> Seq(NatRows)]
    BY <2>1, <2>5 DEF Grows, NatTypeOK
  <2>7. \A b \in NatBuckets : \A n \in DOMAIN natentry_map'[b] :
             \/ n \in DOMAIN natentry_map[b]
             \/ natentry_map'[b][n] = fwd
             \/ b = g /\ n = Len(natentry_map[g]) + 1
    BY <2>2, <2>3, <2>4
  <2> QED
    BY <2>3, <2>5, <2>6, <2>7 DEF Adds, g, bwd, fwd
<1> QED
  BY <1>4, <1>5

LEMMA BackwardKeyIs ==
    \A k, ip, port : /\ BackwardKey(k, ip, port).src_ip = k.dst_ip
                     /\ BackwardKey(k, ip, port).dst_port = port
BY DEF BackwardKey, Reversed

LEMMA BackwardKeyType ==
    ASSUME HashesAreBuckets, NEW k \in FlowKeys, NEW ip \in Nat, NEW port \in Nat
    PROVE  /\ BackwardKey(k, ip, port) \in FlowKeys
           /\ HashFlowkey(BackwardKey(k, ip, port)) \in NatBuckets
<1>1. \A a \in FlowKeys, x, q \in Nat : BackwardKey(a, x, q) \in FlowKeys
  BY DEF BackwardKey, Reversed, FlowKeys
<1> QED
  BY <1>1 DEF HashesAreBuckets

\* What the flow k has added is sound, and what was there stays so.
AddsToRows(k, port) ==
    /\ HashesAreBuckets /\ ServersAreNoClients
    /\ NatInv
    /\ natentry_map' \in [NatBuckets -> Seq(NatRows)]
    /\ k \in NatPackets /\ port \in Ports \cup {0}
    /\ PickPort(port) /\ Adds(k, port)

LEMMA PortIsNat == \A port \in Ports \cup {0} : port \in Nat
BY NatAssumption DEF Ports

LEMMA AddedRows ==
    ASSUME NEW k, NEW port, AddsToRows(k, port)
    PROVE  RowsAreSound'
<1> DEFINE g == HashFlowkey(BackwardKey(k, new_ip, port))
           p == Len(natentry_map[g]) + 1
<1>1. /\ k \in FlowKeys /\ port \in Nat /\ NatTypeOK
      /\ port \in port_used' \cup {0} /\ port_used \subseteq port_used'
  BY NatAssumption, PortIsNat DEF AddsToRows, NatInv, PickPort
<1>2. /\ \A b \in NatBuckets : Grows(natentry_map[b], natentry_map'[b])
      /\ p \in DOMAIN natentry_map'[g]
      /\ natentry_map'[g][p] = BwdRow(k, new_ip, port)
      /\ \A b \in NatBuckets : \A n \in DOMAIN natentry_map'[b] :
             \/ n \in DOMAIN natentry_map[b]
             \/ natentry_map'[b][n] = FwdRow(k, new_ip, port)
             \/ b = g /\ n = p
             \/ natentry_map'[b][n] = ZeroedRow
  BY DEF AddsToRows, Adds
<1>3. new_ip \in Nat /\ g \in NatBuckets
  <2>1. new_ip \in 0 .. U16 - 1
    BY <1>1 DEF NatTypeOK
  <2>2. new_ip \in Nat
    BY <2>1, NatAssumption
  <2> QED
    BY <1>1, <2>2, BackwardKeyType DEF AddsToRows
<1> HIDE DEF g, p
<1> SUFFICES ASSUME NEW b \in NatBuckets, NEW n \in DOMAIN natentry_map'[b]
             PROVE  \/ ForwardIsSound(natentry_map[b][n])'
                    \/ BackwardIsSound(b, natentry_map[b][n])'
                    \/ natentry_map'[b][n] = ZeroedRow
  BY DEF RowsAreSound
<1> DEFINE r == natentry_map'[b][n]
<1>4. CASE n \in DOMAIN natentry_map[b]
  <2>1. r = natentry_map[b][n]
    BY <1>2, <1>4 DEF Grows
  <2>2. r \in NatRows
    <3>1. natentry_map[b] \in Seq(NatRows)
      BY <1>1 DEF NatTypeOK
    <3> QED
      BY <1>4, <2>1, <3>1
  <2>3. \/ ForwardIsSound(r) \/ BackwardIsSound(b, r) \/ r = ZeroedRow
    BY <1>4, <2>1 DEF AddsToRows, NatInv, RowsAreSound
  <2> HIDE DEF r
  <2>4. CASE ForwardIsSound(r)
    <3> DEFINE q == HashFlowkey(BackwardKey(r.key, r.new_ip, r.new_port))
               back == BwdRow(r.key, r.new_ip, r.new_port)
    <3>1. r.key \in FlowKeys /\ r.new_ip \in Nat /\ r.new_port \in Nat
      BY <2>2, NatAssumption DEF NatRows
    <3>2. q \in NatBuckets
      BY <3>1, BackwardKeyType DEF AddsToRows
    <3>3. IsIn(back, natentry_map[q])
      BY <2>4 DEF ForwardIsSound
    <3> HIDE DEF back, q
    <3>4. IsIn(back, natentry_map'[q])
      <4>1. Grows(natentry_map[q], natentry_map'[q])
        BY <1>2, <3>2
      <4>2. DOMAIN natentry_map[q] \subseteq DOMAIN natentry_map'[q]
        BY <4>1 DEF Grows
      <4> QED
        BY <3>3, <4>1, <4>2 DEF Grows, IsIn
    <3>5. /\ r.is_forward /\ r.key \in NatPackets
          /\ r.new_port \in port_used' \cup {0}
      BY <1>1, <2>4 DEF ForwardIsSound
    <3> QED
      BY <3>4, <3>5 DEF ForwardIsSound, r, q, back
  <2>5. CASE BackwardIsSound(b, r)
    <3>1. /\ ~r.is_forward /\ \E l \in NatPackets : r.key.src_ip = l.dst_ip
          /\ r.key.dst_port \in port_used' \cup {0}
          /\ HashFlowkey(r.key) = b
      BY <1>1, <2>5 DEF BackwardIsSound
    <3> QED
      BY <3>1 DEF BackwardIsSound, r
  <2> QED
    BY <2>3, <2>4, <2>5 DEF r
<1>5. CASE r = FwdRow(k, new_ip, port)
  <2>1. /\ r.is_forward /\ r.key = k /\ r.new_port = port /\ r.new_ip = new_ip
    BY <1>5 DEF FwdRow
  <2> HIDE DEF r
  <2>2. IsIn(BwdRow(k, new_ip, port), natentry_map'[g])
    BY <1>2 DEF IsIn
  <2>3. IsIn(BwdRow(r.key, r.new_ip, r.new_port),
             natentry_map'[HashFlowkey(BackwardKey(r.key, r.new_ip, r.new_port))])
    BY <2>1, <2>2 DEF g
  <2>4. r.key \in NatPackets /\ r.new_port \in port_used' \cup {0}
    BY <1>1, <2>1 DEF AddsToRows
  <2> QED
    BY <2>1, <2>3, <2>4 DEF ForwardIsSound, r
<1>6. CASE b = g /\ n = p
  <2>1. ~r.is_forward /\ r.key = BackwardKey(k, new_ip, port)
    BY <1>2, <1>6 DEF BwdRow
  <2> HIDE DEF r
  <2>2. r.key.src_ip = k.dst_ip /\ r.key.dst_port = port
    BY <2>1, BackwardKeyIs
  <2>3. HashFlowkey(r.key) = b /\ k \in NatPackets
    BY <1>6, <2>1 DEF g, AddsToRows
  <2>4. /\ ~r.is_forward /\ \E l \in NatPackets : r.key.src_ip = l.dst_ip
        /\ r.key.dst_port \in port_used' \cup {0}
        /\ HashFlowkey(r.key) = b
    BY <1>1, <2>1, <2>2, <2>3
  <2> QED
    BY <2>4 DEF BackwardIsSound, r
<1> QED
  BY <1>2, <1>4, <1>5, <1>6

LEMMA AddedBackwards ==
    ASSUME NEW k, NEW port, AddsToRows(k, port)
    PROVE  BackwardsAreUnique'
<1> DEFINE g == HashFlowkey(BackwardKey(k, new_ip, port))
           p == Len(natentry_map[g]) + 1
<1>1. /\ port \notin port_used \cup {0} \/ port = 0
      /\ \A b \in NatBuckets : Grows(natentry_map[b], natentry_map'[b])
      /\ natentry_map'[g][p] = BwdRow(k, new_ip, port)
      /\ \A b \in NatBuckets : \A n \in DOMAIN natentry_map'[b] :
             \/ n \in DOMAIN natentry_map[b]
             \/ natentry_map'[b][n] = FwdRow(k, new_ip, port)
             \/ b = g /\ n = p
             \/ natentry_map'[b][n] = ZeroedRow
  BY DEF AddsToRows, Adds, PickPort
<1> HIDE DEF g, p
<1>2. ASSUME NEW b \in NatBuckets, NEW n \in DOMAIN natentry_map[b],
             ~natentry_map'[b][n].is_forward, natentry_map'[b][n].key.dst_port # 0
      PROVE  natentry_map'[b][n].key.dst_port \in port_used
  <2>1. natentry_map'[b][n] = natentry_map[b][n]
    BY <1>1 DEF Grows
  <2>2. natentry_map[b][n] # ZeroedRow
    BY <1>2, <2>1 DEF ZeroedRow, NoKey
  <2>3. BackwardIsSound(b, natentry_map[b][n])
    BY <1>2, <2>1, <2>2 DEF AddsToRows, NatInv, RowsAreSound, ForwardIsSound
  <2> QED
    BY <1>2, <2>1, <2>3 DEF BackwardIsSound
<1>3. ASSUME NEW b \in NatBuckets, NEW n \in DOMAIN natentry_map'[b],
             n \notin DOMAIN natentry_map[b],
             ~natentry_map'[b][n].is_forward, natentry_map'[b][n].key.dst_port # 0
      PROVE  b = g /\ n = p /\ natentry_map'[b][n].key.dst_port = port
  <2>1. natentry_map'[b][n] # ZeroedRow
    BY <1>3 DEF ZeroedRow, NoKey
  <2>2. natentry_map'[b][n] # FwdRow(k, new_ip, port)
    BY <1>3 DEF FwdRow
  <2>3. b = g /\ n = p
    BY <1>1, <1>3, <2>1, <2>2
  <2>4. natentry_map'[b][n].key = BackwardKey(k, new_ip, port)
    BY <1>1, <2>3 DEF BwdRow
  <2> QED
    BY <2>3, <2>4, BackwardKeyIs
<1> SUFFICES ASSUME NEW b \in NatBuckets,
                    NEW m \in DOMAIN natentry_map'[b], NEW n \in DOMAIN natentry_map'[b],
                    ~natentry_map'[b][m].is_forward, ~natentry_map'[b][n].is_forward,
                    natentry_map'[b][m].key = natentry_map'[b][n].key,
                    natentry_map'[b][m].key.dst_port # 0
             PROVE  m = n
  BY DEF BackwardsAreUnique
<1>4. CASE m \in DOMAIN natentry_map[b] /\ n \in DOMAIN natentry_map[b]
  <2>1. /\ natentry_map'[b][m] = natentry_map[b][m]
        /\ natentry_map'[b][n] = natentry_map[b][n]
    BY <1>1, <1>4 DEF Grows
  <2> QED
    BY <1>4, <2>1 DEF AddsToRows, NatInv, BackwardsAreUnique
<1>5. CASE m \notin DOMAIN natentry_map[b] /\ n \notin DOMAIN natentry_map[b]
  BY <1>3, <1>5
<1>6. CASE m \in DOMAIN natentry_map[b] /\ n \notin DOMAIN natentry_map[b]
  BY <1>1, <1>2, <1>3, <1>6
<1>7. CASE m \notin DOMAIN natentry_map[b] /\ n \in DOMAIN natentry_map[b]
  BY <1>1, <1>2, <1>3, <1>7
<1> QED
  BY <1>4, <1>5, <1>6, <1>7

LEMMA AddedPorts ==
    ASSUME NEW k, NEW port, AddsToRows(k, port)
    PROVE  PortsAreDistinct'
<1> DEFINE g == HashFlowkey(BackwardKey(k, new_ip, port))
           p == Len(natentry_map[g]) + 1
           fwd == FwdRow(k, new_ip, port)
<1>1. /\ port \notin port_used \cup {0} \/ port = 0
      /\ port \in port_used' \cup {0} /\ port_used \subseteq port_used'
      /\ \A b \in NatBuckets : Grows(natentry_map[b], natentry_map'[b])
      /\ natentry_map'[g][p] = BwdRow(k, new_ip, port)
      /\ \A b \in NatBuckets : \A n \in DOMAIN natentry_map'[b] :
             \/ n \in DOMAIN natentry_map[b]
             \/ natentry_map'[b][n] = fwd
             \/ b = g /\ n = p
             \/ natentry_map'[b][n] = ZeroedRow
  BY DEF AddsToRows, Adds, PickPort
<1> HIDE DEF g, p
<1>2. fwd.new_port = port
  BY DEF FwdRow
<1> HIDE DEF fwd
<1>3. ASSUME NEW r \in ForwardRows'
      PROVE  r \in ForwardRows \/ r = fwd
  <2>1. PICK b \in NatBuckets : \E n \in DOMAIN natentry_map'[b] : r = natentry_map'[b][n]
    BY <1>3 DEF ForwardRows, RowsInUse
  <2>2. PICK n \in DOMAIN natentry_map'[b] : r = natentry_map'[b][n]
    BY <2>1
  <2>3. r.is_forward
    BY <1>3 DEF ForwardRows
  <2>4. CASE n \in DOMAIN natentry_map[b]
    <3>1. r = natentry_map[b][n]
      BY <1>1, <2>2, <2>4 DEF Grows
    <3>2. r \in RowsInUse
      BY <2>4, <3>1 DEF RowsInUse
    <3> QED
      BY <2>3, <3>2 DEF ForwardRows
  <2>5. CASE b = g /\ n = p
    BY <1>1, <2>2, <2>3, <2>5 DEF BwdRow
  <2>6. CASE r = ZeroedRow
    BY <2>3, <2>6 DEF ZeroedRow
  <2> QED
    BY <1>1, <2>2, <2>4, <2>5, <2>6
<1>4. /\ \A r, s \in ForwardRows : r.new_port = s.new_port /\ r.new_port # 0 => r = s
      /\ \A r \in ForwardRows : r.new_port \in port_used \cup {0}
  BY DEF AddsToRows, NatInv, PortsAreDistinct
<1>5. \A r, s \in ForwardRows' : r.new_port = s.new_port /\ r.new_port # 0 => r = s
  BY <1>1, <1>2, <1>3, <1>4
<1>6. \A r \in ForwardRows' : r.new_port \in port_used' \cup {0}
  BY <1>1, <1>2, <1>3, <1>4
<1> QED
  BY <1>5, <1>6 DEF PortsAreDistinct

-----------------------------------------------------------------------------
(* Nat: what is found *)

(* A key that is known has its first row, one that is not has none.          *)
LEMMA FoundRow ==
    ASSUME HashesAreBuckets, NatTypeOK, NEW k \in FlowKeys
    PROVE  LET rows == natentry_map[HashFlowkey(k)]
           IN  /\ rows \in Seq(NatRows)
               /\ Find(k) = FirstHit(rows, k)
               /\ Known(k) => /\ Find(k) \in DOMAIN rows
                              /\ Row(k) = rows[Find(k)]
                              /\ Row(k) \in NatRows /\ Row(k).key = k
                              /\ Found(k) = {Row(k)}
               /\ (\E n \in DOMAIN rows : rows[n].key = k) => Known(k)
<1> DEFINE rows == natentry_map[HashFlowkey(k)]
<1>1. rows \in Seq(NatRows)
  BY DEF HashesAreBuckets, NatTypeOK
<1>2. Find(k) = FirstHit(rows, k)
  BY DEF Find, FirstHit
<1>3. Row(k) = rows[Find(k)]
  BY DEF Row
<1>4. Known(k) => Found(k) = {Row(k)}
  BY DEF Known, Found, Row
<1> HIDE DEF rows
<1>5. ASSUME Known(k)
      PROVE  Find(k) \in DOMAIN rows /\ Row(k).key = k /\ Row(k) \in NatRows
  <2>1. Find(k) \in DOMAIN rows /\ rows[Find(k)].key = k
    BY <1>1, <1>2, <1>5, FirstHitIs DEF Known
  <2> QED
    BY <1>1, <1>3, <2>1
<1>6. (\E n \in DOMAIN rows : rows[n].key = k) => Known(k)
  BY <1>1, <1>2, FirstHitIs DEF Known
<1> QED
  BY <1>1, <1>2, <1>3, <1>4, <1>5, <1>6 DEF rows

(* A server's packet is known: its key is that of a backward entry.          *)
LEMMA RepliesAreKnown ==
    ASSUME HashesAreBuckets, NatInv, NEW k \in Replies
    PROVE  k \in FlowKeys /\ Known(k)
<1>1. PICK row \in RowsInUse : row.key # NoKey /\ ~row.is_forward /\ k = row.key
  BY DEF Replies
<1>2. PICK b \in NatBuckets : \E n \in DOMAIN natentry_map[b] : row = natentry_map[b][n]
  BY <1>1 DEF RowsInUse
<1>3. PICK n \in DOMAIN natentry_map[b] : row = natentry_map[b][n]
  BY <1>2
<1>4. natentry_map[b] \in Seq(NatRows) /\ NatTypeOK
  BY DEF NatInv, NatTypeOK
<1>5. row \in NatRows
  BY <1>3, <1>4
<1>6. k \in FlowKeys
  BY <1>1, <1>5 DEF NatRows
<1>7. row # ZeroedRow
  BY <1>1 DEF ZeroedRow
<1>8. HashFlowkey(k) = b
  BY <1>1, <1>3, <1>7 DEF NatInv, RowsAreSound, ForwardIsSound, BackwardIsSound
<1> QED
  BY <1>1, <1>3, <1>4, <1>6, <1>8, FoundRow

(* A client's packet finds a forward entry, and the packets that come back   *)
(* find what undoes it, if the flow has a port.                              *)
LEMMA FlowIsFound ==
    ASSUME HashesAreBuckets, ServersAreNoClients, NatInv,
           NEW k \in NatPackets, Known(k)
    PROVE  /\ Backward(k) \in FlowKeys /\ Known(Backward(k))
           /\ Row(k).new_port # 0 =>
                Row(Backward(k)) = BwdRow(k, Row(k).new_ip, Row(k).new_port)
<1> DEFINE r == Row(k)
           h == HashFlowkey(k)
           back == BackwardKey(k, r.new_ip, r.new_port)
           g == HashFlowkey(back)
<1>1. k \in FlowKeys /\ NatTypeOK /\ Backward(k) = back
  BY NatAssumption DEF NatInv, Backward
<1>2. /\ Find(k) \in DOMAIN natentry_map[h] /\ r = natentry_map[h][Find(k)]
      /\ r \in NatRows /\ r.key = k
  BY <1>1, FoundRow
<1>3. h \in NatBuckets
  BY <1>1 DEF HashesAreBuckets
<1>4. r.new_ip \in Nat /\ r.new_port \in Nat
  <2>1. r.new_ip \in 0 .. U16 - 1 /\ r.new_port \in Nat
    BY <1>2 DEF NatRows
  <2> QED
    BY <2>1, NatAssumption
<1> HIDE DEF r, h, back, g
<1>5. r # ZeroedRow
  <2>1. r.key.src_ip # r.key.dst_ip
    BY <1>2 DEF ServersAreNoClients
  <2> QED
    BY <2>1 DEF ZeroedRow, NoKey
<1>6. ForwardIsSound(r)
  BY <1>2, <1>3, <1>5 DEF NatInv, RowsAreSound, BackwardIsSound, ServersAreNoClients
<1>7. back \in FlowKeys /\ g \in NatBuckets
  BY <1>1, <1>4, BackwardKeyType DEF back, g
<1>8. IsIn(BwdRow(k, r.new_ip, r.new_port), natentry_map[g])
  BY <1>2, <1>6 DEF ForwardIsSound, back, g
<1>9. PICK n \in DOMAIN natentry_map[g] :
        natentry_map[g][n] = BwdRow(k, r.new_ip, r.new_port)
  BY <1>8 DEF IsIn
<1>10. natentry_map[g][n].key = back /\ ~natentry_map[g][n].is_forward
  BY <1>9 DEF BwdRow, back
<1>11. Known(back)
  BY <1>1, <1>7, <1>10, FoundRow DEF g
<1>12. ASSUME r.new_port # 0
       PROVE  Row(back) = BwdRow(k, r.new_ip, r.new_port)
  <2> DEFINE m == Find(back)
             s == Row(back)
  <2>1. /\ m \in DOMAIN natentry_map[g] /\ s = natentry_map[g][m] /\ s.key = back
    BY <1>1, <1>7, <1>11, FoundRow DEF g
  <2>2. back.src_ip = k.dst_ip /\ back.dst_port = r.new_port
    BY BackwardKeyIs DEF back
  <2> HIDE DEF m, s
  <2>3. s # ZeroedRow
    BY <1>12, <2>1, <2>2 DEF ZeroedRow, NoKey
  <2>4. ~ForwardIsSound(s)
    BY <2>1, <2>2 DEF ForwardIsSound, ServersAreNoClients
  <2>5. ~s.is_forward
    BY <1>7, <2>1, <2>3, <2>4 DEF NatInv, RowsAreSound, BackwardIsSound
  <2>6. m = n
    BY <1>7, <1>10, <1>12, <2>1, <2>2, <2>5 DEF NatInv, BackwardsAreUnique
  <2> QED
    BY <1>9, <2>1, <2>6 DEF s
<1> QED
  BY <1>1, <1>7, <1>11, <1>12 DEF r

-----------------------------------------------------------------------------
(* Nat: the steps *)

LEMMA HeaderTypes ==
    /\ \A k \in FlowKeys : Reversed(k) \in FlowKeys
    /\ \A k \in FlowKeys, row \in NatRows : UpdateHdr(k, row) \in FlowKeys
    /\ \A k \in FlowKeys, fwd, bwd \in NatRows : Translated(k, fwd, bwd) \in FlowKeys
<1>1. \A k \in FlowKeys : Reversed(k) \in FlowKeys
  BY DEF Reversed, FlowKeys
<1>2. \A k \in FlowKeys, ip, port \in Nat :
        [k EXCEPT !.src_ip = ip, !.src_port = port] \in FlowKeys
  BY DEF FlowKeys
<1>3. \A row \in NatRows : row.new_ip \in Nat /\ row.new_port \in Nat
  <2> TAKE row \in NatRows
  <2>1. row.new_ip \in 0 .. U16 - 1 /\ row.new_port \in Nat
    BY DEF NatRows
  <2> QED
    BY <2>1, NatAssumption
<1>4. \A k \in FlowKeys, row \in NatRows : UpdateHdr(k, row) \in FlowKeys
  BY <1>2, <1>3 DEF UpdateHdr
<1> QED
  BY <1>1, <1>4 DEF Translated

(* If no row changes, all stays sound, whichever ports are taken.            *)
LEMMA SameRowsAreSound ==
    ASSUME NatInv, natentry_map' = natentry_map, port_used \subseteq port_used'
    PROVE  RowsAreSound' /\ BackwardsAreUnique' /\ PortsAreDistinct'
<1>1. RowsAreSound'
  <2> SUFFICES ASSUME NEW b \in NatBuckets, NEW n \in DOMAIN natentry_map[b]
               PROVE  \/ ForwardIsSound(natentry_map[b][n])'
                      \/ BackwardIsSound(b, natentry_map[b][n])'
                      \/ natentry_map'[b][n] = ZeroedRow
    BY DEF RowsAreSound
  <2>1. \/ ForwardIsSound(natentry_map[b][n])
        \/ BackwardIsSound(b, natentry_map[b][n])
        \/ natentry_map[b][n] = ZeroedRow
    BY DEF NatInv, RowsAreSound
  <2> QED
    BY <2>1 DEF ForwardIsSound, BackwardIsSound
<1>2. BackwardsAreUnique'
  BY DEF NatInv, BackwardsAreUnique
<1>3. PortsAreDistinct'
  BY DEF NatInv, PortsAreDistinct, ForwardRows, RowsInUse
<1> QED
  BY <1>1, <1>2, <1>3

LEMMA CreateStep ==
    ASSUME HashesAreBuckets, ServersAreNoClients, NatInv,
           NEW k \in NatPackets, NEW port \in Ports \cup {0}, Create(k, port)
    PROVE  NatInv'
<1>1. k \in FlowKeys /\ NatTypeOK /\ port \in Nat
  BY NatAssumption, PortIsNat DEF NatInv
<1>2. Adds(k, port) /\ natentry_map' \in [NatBuckets -> Seq(NatRows)]
  BY <1>1, CreateAdds
<1>3. AddsToRows(k, port)
  BY <1>2 DEF AddsToRows, Create
<1>4. RowsAreSound' /\ BackwardsAreUnique' /\ PortsAreDistinct'
  BY <1>3, AddedRows, AddedBackwards, AddedPorts
<1>5. port_used' \subseteq Ports
  BY <1>1 DEF Create, PickPort, NatTypeOK
<1>6. /\ FwdRow(k, new_ip, port) \in NatRows /\ BwdRow(k, new_ip, port) \in NatRows
      /\ Uint16(k.src_ip) \in 0 .. U16 - 1
  BY <1>1, RowTypes
<1>7. sent_hdr' \in FlowKeys
  <2>1. \E fwd \in NatRows : sent_hdr' = Translated(k, fwd, BwdRow(k, new_ip, port))
    BY <1>6 DEF Create, FwdRow, BwdRow
  <2> QED
    BY <1>1, <1>6, <2>1, HeaderTypes
<1>8. new_ip' \in 0 .. U16 - 1 /\ nat_fault' = nat_fault
  BY <1>6 DEF Create
<1>9. NatTypeOK'
  BY <1>1, <1>2, <1>5, <1>7, <1>8 DEF NatTypeOK
<1> QED
  BY <1>4, <1>9 DEF NatInv

LEMMA NatStep ==
    ASSUME HashesAreBuckets, ServersAreNoClients, NatInv, [NatNext]_natVars
    PROVE  NatInv'
<1>1. NatTypeOK
  BY DEF NatInv
<1>2. ASSUME natentry_map' = natentry_map, port_used \subseteq port_used', NatTypeOK'
      PROVE  NatInv'
  BY <1>2, SameRowsAreSound DEF NatInv
<1>3. CASE NatStartBatch
  <2>1. 1 \in 0 .. U16 - 1
    BY NatAssumption
  <2>2. NatTypeOK'
    BY <1>1, <1>3, <2>1 DEF NatTypeOK, NatStartBatch
  <2> QED
    BY <1>2, <1>3, <2>2 DEF NatStartBatch
<1>4. ASSUME NEW why \in {"outside bucket", "no backward entry"}, NatFault(why)
      PROVE  NatInv'
  <2>1. NatTypeOK'
    BY <1>1, <1>4 DEF NatTypeOK, NatFault
  <2> QED
    BY <1>2, <1>4, <2>1 DEF NatFault
<1>5. ASSUME NEW k \in NatPackets \cup Replies, NatPacket(k)
      PROVE  NatInv'
  <2>1. k \in FlowKeys
    BY RepliesAreKnown, NatAssumption
  <2>2. CASE Forward(k)
    <3>1. Row(k) \in NatRows
      BY <1>1, <2>1, <2>2, FoundRow DEF Forward
    <3>2. Row(k).new_ip \in Nat /\ Row(k).new_port \in Nat
      <4>1. Row(k).new_ip \in 0 .. U16 - 1 /\ Row(k).new_port \in Nat
        BY <3>1 DEF NatRows
      <4> QED
        BY <4>1, NatAssumption
    <3>3. Backward(k) \in FlowKeys
      BY <2>1, <3>2, BackwardKeyType DEF Backward
    <3>4. Row(Backward(k)) \in NatRows
      BY <1>1, <2>2, <3>3, FoundRow DEF Forward
    <3>5. sent_hdr' \in FlowKeys
      BY <2>1, <2>2, <3>1, <3>4, HeaderTypes DEF Forward
    <3>6. NatTypeOK'
      BY <1>1, <2>2, <3>5 DEF NatTypeOK, Forward
    <3> QED
      BY <1>2, <2>2, <3>6 DEF Forward
  <2>3. CASE ForwardWithoutBackward(k)
    BY <1>4, <2>3 DEF ForwardWithoutBackward
  <2>4. CASE FullBucket(k)
    <3>1. sent_hdr' \in FlowKeys
      BY <2>1, <2>4, HeaderTypes DEF FullBucket
    <3>2. NatTypeOK'
      BY <1>1, <2>4, <3>1 DEF NatTypeOK, FullBucket
    <3> QED
      BY <1>2, <2>4, <3>2 DEF FullBucket
  <2>5. ASSUME NEW port \in Ports \cup {0}, Create(k, port)
        PROVE  NatInv'
    <3>1. k \in NatPackets
      BY <2>5, RepliesAreKnown DEF Create
    <3> QED
      BY <2>5, <3>1, CreateStep
  <2>6. ASSUME NEW port \in Ports \cup {0}, CreateHalf(k, port)
        PROVE  NatInv'
    <3>1. port_used' \subseteq Ports /\ port_used \subseteq port_used'
      BY <1>1, <2>6 DEF CreateHalf, PickPort, NatTypeOK
    <3>2. new_ip' \in 0 .. U16 - 1
      BY <1>1, <2>1, <2>6, PortIsNat, RowTypes DEF CreateHalf
    <3>3. sent_hdr' \in FlowKeys
      BY <2>1, <2>6, HeaderTypes DEF CreateHalf
    <3>4. NatTypeOK'
      BY <1>1, <2>6, <3>1, <3>2, <3>3 DEF NatTypeOK, CreateHalf
    <3> QED
      BY <1>2, <2>6, <3>1, <3>4 DEF CreateHalf
  <2>7. CASE LeaveBucket(k)
    BY <1>4, <2>7 DEF LeaveBucket
  <2> QED
    BY <1>5, <2>2, <2>3, <2>4, <2>5, <2>6, <2>7 DEF NatPacket
<1>6. CASE UNCHANGED natVars
  BY <1>1, <1>2, <1>6 DEF natVars, NatTypeOK
<1> QED
  BY <1>3, <1>5, <1>6 DEF NatNext, NatStopped

LEMMA NatInitInv == NatInit => NatInv
<1> SUFFICES ASSUME NatInit PROVE NatInv
  OBVIOUS
<1>1. /\ natentry_map = [b \in NatBuckets |-> <<>>] /\ port_used = {}
      /\ new_ip = 1 /\ nat_fault = "none" /\ sent_hdr = NoKey
  BY DEF NatInit
<1>2. NoKey \in FlowKeys /\ 1 \in 0 .. U16 - 1
  BY NatAssumption DEF NoKey, FlowKeys
<1>3. NatTypeOK
  BY <1>1, <1>2 DEF NatTypeOK
<1>4. \A b \in NatBuckets : DOMAIN natentry_map[b] = {}
  BY <1>1
<1>5. ForwardRows = {}
  BY <1>4 DEF ForwardRows, RowsInUse
<1> QED
  BY <1>3, <1>4, <1>5 DEF NatInv, RowsAreSound, BackwardsAreUnique, PortsAreDistinct

LEMMA NatStaysSound ==
    ASSUME HashesAreBuckets, ServersAreNoClients
    PROVE  NatSpec => []NatInv
<1>1. NatInv /\ [NatNext]_natVars => NatInv'
  BY NatStep
<1> QED
  BY <1>1, NatInitInv, PTL DEF NatSpec

(* For any hash, bucket size, set of ports and clients, who talk to servers  *)
(* and not to each other: no port is two flows', and the replies of a flow   *)
(* with a port find its own backward entry, though buckets overflow, entries *)
(* overwrite each other and half a flow is left behind.                      *)
THEOREM FlowsStayApart ==
    ASSUME HashesAreBuckets, ServersAreNoClients
    PROVE  NatSpec => []FlowsAreToldApart
<1>1. ASSUME NatInv
      PROVE  FlowsAreToldApart
  <2> SUFFICES ASSUME NEW k \in NatPackets, Known(k), Row(k).new_port # 0
               PROVE  /\ Known(Backward(k))
                      /\ ~Row(Backward(k)).is_forward
                      /\ Row(Backward(k)).new_ip = Uint16(k.src_ip)
                      /\ Row(Backward(k)).new_port = k.src_port
    BY <1>1 DEF FlowsAreToldApart, RepliesFindTheirFlow, NatInv
  <2> QED
    BY <1>1, FlowIsFound DEF BwdRow
<1> QED
  BY <1>1, NatStaysSound, PTL

(* Rows that are added change nothing that is found.                         *)
LEMMA FoundStays ==
    ASSUME HashesAreBuckets, NatTypeOK, NEW k \in FlowKeys, Known(k),
           \A b \in NatBuckets : Grows(natentry_map[b], natentry_map'[b])
    PROVE  Found(k)' = Found(k)
<1> DEFINE h == HashFlowkey(k)
           old == natentry_map[h]
           new == natentry_map'[h]
<1>1. h \in NatBuckets /\ Grows(old, new)
  BY DEF HashesAreBuckets
<1>2. Find(k) = FirstHit(old, k) /\ Find(k)' = FirstHit(new, k)
  BY DEF Find, FirstHit
<1>3. Find(k) \in DOMAIN old
  BY FoundRow
<1>4. Found(k) = {old[n] : n \in {Find(k)} \ {0}}
  BY DEF Found
<1>5. Found(k)' = {new[n] : n \in {Find(k)'} \ {0}}
  BY DEF Found
<1> HIDE DEF h, old, new
<1>6. Find(k)' = Find(k)
  BY <1>1, <1>2, FirstHitStays DEF Known
<1>7. new[Find(k)] = old[Find(k)]
  BY <1>1, <1>3 DEF Grows
<1> QED
  BY <1>4, <1>5, <1>6, <1>7

(* Under the same conditions the translation of a flow that is known never   *)
(* changes.                                                                  *)
THEOREM TranslationsStayStable ==
    ASSUME HashesAreBuckets, ServersAreNoClients
    PROVE  NatSpec => TranslationIsStable
<1>1. ASSUME NatInv, [NatNext]_natVars
      PROVE  \A b \in NatBuckets : Grows(natentry_map[b], natentry_map'[b])
  <2>1. \A b \in NatBuckets : natentry_map[b] \in Seq(NatRows)
    BY <1>1 DEF NatInv, NatTypeOK
  <2>2. CASE natentry_map' = natentry_map
    BY <2>1, <2>2, SameRows
  <2>3. ASSUME NEW k \in NatPackets \cup Replies, NEW port \in Ports \cup {0},
               Create(k, port)
        PROVE  \A b \in NatBuckets : Grows(natentry_map[b], natentry_map'[b])
    <3>1. k \in FlowKeys /\ port \in Nat
      BY <1>1, RepliesAreKnown, PortIsNat, NatAssumption
    <3> QED
      BY <1>1, <2>3, <3>1, CreateAdds DEF Adds, NatInv
  <2> QED
    BY <1>1, <2>2, <2>3
       DEF NatNext, NatPacket, NatStartBatch, Forward, ForwardWithoutBackward, FullBucket,
           CreateHalf, LeaveBucket, NatFault, NatStopped, natVars
<1>2. ASSUME NatInv, [NatNext]_natVars, NEW k \in NatPackets, Known(k)
      PROVE  EntryPair(k)' = EntryPair(k)
  <2>1. NatTypeOK /\ k \in FlowKeys
    BY <1>2, NatAssumption DEF NatInv
  <2>2. Found(k)' = Found(k)
    BY <1>1, <1>2, <2>1, FoundStays
  <2>3. ASSUME NEW row \in Found(k)
        PROVE  Found(BackwardKey(k, row.new_ip, row.new_port))'
                 = Found(BackwardKey(k, row.new_ip, row.new_port))
    <3> DEFINE back == BackwardKey(k, row.new_ip, row.new_port)
    <3>1. row = Row(k)
      BY <1>2, <2>1, <2>3, FoundRow
    <3>2. back \in FlowKeys /\ Known(back)
      BY <1>2, <3>1, FlowIsFound DEF Backward
    <3> QED
      BY <1>1, <1>2, <2>1, <3>2, FoundStays
  <2> QED
    BY <2>2, <2>3 DEF EntryPair
<1>3. NatInv /\ [NatNext]_natVars
        => [\A k \in NatPackets : Known(k) => EntryPair(k)' = EntryPair(k)]_natVars
  BY <1>2
<1> QED
  BY <1>3, NatStaysSound, PTL DEF NatSpec, TranslationIsStable

-----------------------------------------------------------------------------
(* A bucket has a last match *)

(* A non-empty set of places of a bucket has a greatest element. *)
LEMMA GreatestPlace ==
    ASSUME NEW N \in Nat, NEW T, T \subseteq 1 .. N, T # {}
    PROVE  Max(T) \in T
<1> DEFINE R == OpToRel(<, Nat)
           D == {N - x : x \in T}
<1>1. IsWellFoundedOn(R, Nat)
  BY NatLessThanWellFounded
<1>2. D \subseteq Nat /\ D # {}
  <2>1. \A x \in T : x \in Int /\ N - x \in Nat
    OBVIOUS
  <2> QED
    BY <2>1
<1> HIDE DEF R
<1>3. PICK d \in D : \A e \in D : ~ (<<e, d>> \in R)
  BY <1>1, <1>2, WFMin
<1>4. PICK x \in T : d = N - x
  BY <1>3
<1>5. \A y \in T : x >= y
  <2> TAKE y \in T
  <2>1. N - y \in D /\ N - y \in Nat /\ d \in Nat
    BY <1>2
  <2>2. ~ (N - y < d)
    BY <1>3, <2>1 DEF R, OpToRel
  <2> QED
    BY <1>4, <2>1, <2>2
<1> QED
  BY <1>4, <1>5 DEF Max

LEMMA GreatestIs ==
    ASSUME NEW T \in SUBSET Int, NEW m \in T, \A y \in T : m >= y
    PROVE  Max(T) = m
<1>1. Max(T) \in T /\ \A y \in T : Max(T) >= y
  BY DEF Max
<1>2. Max(T) \in Int /\ m \in Int /\ Max(T) >= m /\ m >= Max(T)
  BY <1>1
<1> QED
  BY <1>2

(* What mtnf_hash_lookup drops for, is in the bucket.                        *)
LEMMA LookupIsInBucket ==
    ASSUME FirewallTypeOK, NEW k \in FiveTuples, Lookup(k) = "DROP"
    PROVE  \E n \in DOMAIN hash_map[MtnfHashVal[k]] :
              hash_map[MtnfHashVal[k]][n] = [key |-> k, action |-> "DROP"]
<1> DEFINE nodes == hash_map[MtnfHashVal[k]]
           hits == {n \in DOMAIN nodes : nodes[n].key = k}
<1>1. nodes \in Seq(FwRules)
  BY FirewallAssumption DEF FirewallTypeOK
<1>2. hits # {} /\ nodes[Max(hits)].action = "DROP"
  BY DEF Lookup
<1>3. Max(hits) \in hits
  <2>1. hits \subseteq 1 .. Len(nodes) /\ Len(nodes) \in Nat
    BY <1>1
  <2> HIDE DEF hits
  <2> QED
    BY <1>2, <2>1, GreatestPlace
<1>4. nodes[Max(hits)] \in FwRules /\ nodes[Max(hits)].key = k
  <2>1. Max(hits) \in DOMAIN nodes /\ nodes[Max(hits)].key = k
    BY <1>3
  <2>2. \A n \in DOMAIN nodes : nodes[n] \in FwRules
    BY <1>1
  <2> HIDE DEF nodes, hits
  <2> QED
    BY <2>1, <2>2
<1> QED
  BY <1>2, <1>3, <1>4 DEF FwRules

-----------------------------------------------------------------------------
(* Types *)

(* A rule put in a bucket leaves it a bucket, and every node is the rule or  *)
(* was there before.                                                         *)
LEMMA PlacedRule ==
    ASSUME NEW nodes \in Seq(FwRules), Len(nodes) <= FW_BUCKET_SIZE,
           NEW rule \in FwRules
    PROVE  /\ Placed(nodes, rule) \in Seq(FwRules)
           /\ Len(Placed(nodes, rule)) <= FW_BUCKET_SIZE
           /\ \A n \in DOMAIN Placed(nodes, rule) :
                \/ Placed(nodes, rule)[n] = rule
                \/ n \in DOMAIN nodes /\ Placed(nodes, rule)[n] = nodes[n]
<1>1. CASE Len(nodes) < FW_BUCKET_SIZE
  BY <1>1, FirewallAssumption DEF Placed
<1>2. CASE ~ (Len(nodes) < FW_BUCKET_SIZE)
  <2>1. Placed(nodes, rule) = [nodes EXCEPT ![1] = rule] /\ Len(nodes) >= 1
    BY <1>2, FirewallAssumption DEF Placed
  <2>2. /\ [nodes EXCEPT ![1] = rule] \in Seq(FwRules)
        /\ Len([nodes EXCEPT ![1] = rule]) = Len(nodes)
        /\ DOMAIN [nodes EXCEPT ![1] = rule] = DOMAIN nodes
    BY <2>1
  <2> QED
    BY <2>1, <2>2
<1> QED
  BY <1>1, <1>2

(* Between batches nothing is looked at, kept or freed.                      *)
AtRest == fw_at \in {"init", "idle"} => fw_i = 0

LEMMA StepKeepsTypes ==
    FirewallTypeOK /\ AtRest /\ [FirewallNext]_firewallVars => FirewallTypeOK' /\ AtRest'
<1> SUFFICES ASSUME FirewallTypeOK, AtRest, [FirewallNext]_firewallVars
             PROVE  FirewallTypeOK' /\ AtRest'
  OBVIOUS
<1> USE FirewallAssumption DEF FirewallTypeOK, AtRest, tableVars, FwPkts
<1>1. ASSUME NEW rule \in FwRules, Insert(rule)
      PROVE  FirewallTypeOK' /\ AtRest'
  <2> DEFINE b == MtnfHashVal[rule.key]
  <2>1. b \in FwBuckets
    BY DEF FwRules
  <2>2. Placed(hash_map[b], rule) \in Seq(FwRules) /\ Len(Placed(hash_map[b], rule)) <= FW_BUCKET_SIZE
    BY <2>1, PlacedRule
  <2>3. hash_map' = [hash_map EXCEPT ![b] = Placed(hash_map[b], rule)]
    BY <1>1 DEF Insert
  <2>4. /\ hash_map' \in [FwBuckets -> Seq(FwRules)]
        /\ \A c \in FwBuckets : Len(hash_map'[c]) <= FW_BUCKET_SIZE
    BY <2>1, <2>2, <2>3
  <2>5. rules' \in Seq(FwRules)
    BY <1>1 DEF Insert
  <2> QED
    BY <1>1, <2>4, <2>5 DEF Insert
<1>2. CASE Loaded
  BY <1>2 DEF Loaded
<1>3. CASE FwReceive
  BY <1>3 DEF FwReceive
<1>4. ASSUME NEW k \in FiveTuples, Keep(k)
      PROVE  FirewallTypeOK' /\ AtRest'
  <2>1. fw_i + 1 \in 1 .. FwBatch /\ fw_num_out + 1 \in 1 .. fw_i + 1
    BY <1>4 DEF Keep, FwLooks
  <2>2. fw_pkt' \in [FwPkts -> FwPkts]
    BY <1>4, <2>1 DEF Keep
  <2>3. fw_i' = fw_i + 1 /\ fw_num_out' = fw_num_out + 1 /\ fw_at = "handler"
    BY <1>4 DEF Keep, FwLooks
  <2>4. UNCHANGED <<fw_at, rules, hash_map, pkt_key, fw_freed>>
    BY <1>4 DEF Keep
  <2>5. fw_i' \in 0 .. FwBatch /\ fw_num_out' \in 0 .. fw_i'
    BY <2>1, <2>3
  <2>6. AtRest'
    BY <2>3, <2>4
  <2> QED
    BY <2>2, <2>4, <2>5, <2>6
<1>5. ASSUME NEW k \in FiveTuples, Drop(k)
      PROVE  FirewallTypeOK' /\ AtRest'
  <2>1. fw_i + 1 \in 1 .. FwBatch
    BY <1>5 DEF Drop, FwLooks
  <2>2. fw_freed' \subseteq FwPkts
    BY <1>5, <2>1 DEF Drop
  <2> QED
    BY <1>5, <2>1, <2>2 DEF Drop, FwLooks
<1>6. CASE NullHeader
  BY <1>6 DEF NullHeader, FwLooks
<1>7. CASE FwReturn
  BY <1>7 DEF FwReturn
<1>8. CASE UNCHANGED firewallVars
  BY <1>8 DEF firewallVars
<1> QED
  BY <1>1, <1>2, <1>3, <1>4, <1>5, <1>6, <1>7, <1>8 DEF FirewallNext, FwStopped

(* The table, the array and the counts keep their types, and no bucket is    *)
(* overfilled: FirewallTypeOK (mtnf_firewall.c:68-85, 150-170).              *)
THEOREM FirewallTypeCorrect == FirewallSpec => [](FirewallTypeOK /\ AtRest)
<1>1. FirewallInit => FirewallTypeOK /\ AtRest
  BY FirewallAssumption DEF FirewallInit, FirewallTypeOK, AtRest, FwPkts
<1> QED
  BY <1>1, StepKeepsTypes, PTL DEF FirewallSpec

-----------------------------------------------------------------------------
(* What is dropped, some rule drops *)

\* Every node of the table is a rule that was inserted.
NodesAreRules ==
    \A b \in FwBuckets : \A n \in DOMAIN hash_map[b] :
        \E m \in DOMAIN rules : hash_map[b][n] = rules[m]

LEMMA NodesStayRules ==
    FirewallTypeOK /\ NodesAreRules /\ [FirewallNext]_firewallVars => NodesAreRules'
<1> SUFFICES ASSUME FirewallTypeOK, NodesAreRules, [FirewallNext]_firewallVars
             PROVE  NodesAreRules'
  OBVIOUS
<1>1. ASSUME NEW rule \in FwRules, Insert(rule)
      PROVE  NodesAreRules'
  <2> DEFINE b == MtnfHashVal[rule.key]
  <2>1. b \in FwBuckets /\ hash_map[b] \in Seq(FwRules) /\ Len(hash_map[b]) <= FW_BUCKET_SIZE
    BY FirewallAssumption DEF FwRules, FirewallTypeOK
  <2>2. hash_map' = [hash_map EXCEPT ![b] = Placed(hash_map[b], rule)]
    BY <1>1 DEF Insert
  <2>3. /\ rules' = Append(rules, rule) /\ rules \in Seq(FwRules)
        /\ DOMAIN rules' = 1 .. Len(rules) + 1
        /\ \A m \in DOMAIN rules : m \in DOMAIN rules' /\ rules'[m] = rules[m]
        /\ rules'[Len(rules) + 1] = rule
    BY <1>1 DEF Insert, FirewallTypeOK
  <2>4. Len(rules) + 1 \in DOMAIN rules'
    BY <2>3
  <2>5. \A n \in DOMAIN Placed(hash_map[b], rule) :
          \/ Placed(hash_map[b], rule)[n] = rule
          \/ n \in DOMAIN hash_map[b] /\ Placed(hash_map[b], rule)[n] = hash_map[b][n]
    BY <2>1, PlacedRule
  <2>6. ASSUME NEW c \in FwBuckets, NEW n \in DOMAIN hash_map'[c]
        PROVE  \E m \in DOMAIN rules' : hash_map'[c][n] = rules'[m]
    <3>1. CASE c # b
      BY <2>2, <2>3, <2>6, <3>1 DEF NodesAreRules, FirewallTypeOK
    <3>2. CASE c = b
      <4>1. hash_map'[b] = Placed(hash_map[b], rule)
        BY <2>1, <2>2 DEF FirewallTypeOK
      <4> QED
        BY <2>1, <2>3, <2>4, <2>5, <3>2, <4>1 DEF NodesAreRules
    <3> QED
      BY <3>1, <3>2
  <2> QED
    BY <2>6 DEF NodesAreRules
<1>2. CASE UNCHANGED tableVars
  BY <1>2 DEF tableVars, NodesAreRules
<1>3. FirewallNext => (\E rule \in FwRules : Insert(rule)) \/ UNCHANGED tableVars
  BY DEF FirewallNext, Loaded, FwReceive, Keep, Drop, NullHeader, FwReturn, FwStopped,
         firewallVars, tableVars
<1> QED
  BY <1>1, <1>2, <1>3 DEF firewallVars, tableVars

(* However buckets overflow, a packet is dropped only if a rule for its      *)
(* 5-tuple says so: OnlyRulesDrop (mtnf_firewall.c:79-85).                   *)
THEOREM OnlyRulesEverDrop == FirewallSpec => []OnlyRulesDrop
<1>1. FirewallInit => NodesAreRules
  BY DEF FirewallInit, NodesAreRules
<1>2. FirewallTypeOK /\ NodesAreRules => OnlyRulesDrop
  <2> SUFFICES ASSUME FirewallTypeOK, NodesAreRules, NEW k \in FiveTuples, Lookup(k) = "DROP"
               PROVE  [key |-> k, action |-> "DROP"] \in {rules[n] : n \in DOMAIN rules}
    BY DEF OnlyRulesDrop
  <2>1. PICK n \in DOMAIN hash_map[MtnfHashVal[k]] :
          hash_map[MtnfHashVal[k]][n] = [key |-> k, action |-> "DROP"]
    BY LookupIsInBucket
  <2> QED
    BY <2>1, FirewallAssumption DEF NodesAreRules
<1> QED
  BY <1>1, <1>2, NodesStayRules, FirewallTypeCorrect, PTL DEF FirewallSpec

-----------------------------------------------------------------------------
(* The latest rule decides *)

\* A bucket that has not overflowed holds as many nodes as it was given rules.
BucketsRemember ==
    \A b \in FwBuckets :
        Cardinality(RulesInBucket(b)) <= FW_BUCKET_SIZE
          => Len(hash_map[b]) = Cardinality(RulesInBucket(b))

\* The rules given to one bucket, and to the others, when one more is inserted.
LEMMA RulesGrow ==
    ASSUME FirewallTypeOK, NEW rule \in FwRules, Insert(rule), NEW b \in FwBuckets
    PROVE  /\ IsFiniteSet(RulesInBucket(b))
           /\ RulesInBucket(b)' = IF MtnfHashVal[rule.key] = b
                                    THEN RulesInBucket(b) \cup {Len(rules) + 1}
                                    ELSE RulesInBucket(b)
           /\ Len(rules) + 1 \notin RulesInBucket(b)
<1>1. /\ rules' = Append(rules, rule) /\ rules \in Seq(FwRules)
      /\ Len(rules) \in Nat /\ DOMAIN rules = 1 .. Len(rules)
      /\ DOMAIN rules' = DOMAIN rules \cup {Len(rules) + 1}
      /\ \A n \in DOMAIN rules : rules'[n] = rules[n]
      /\ rules'[Len(rules) + 1] = rule
  BY DEF Insert, FirewallTypeOK
<1>2. IsFiniteSet(1 .. Len(rules)) /\ RulesInBucket(b) \in SUBSET (1 .. Len(rules))
  BY <1>1, FS_Interval DEF RulesInBucket
<1>3. IsFiniteSet(RulesInBucket(b))
  BY <1>2, FS_Subset
<1>4. Len(rules) + 1 \notin DOMAIN rules
  BY <1>1
<1> QED
  BY <1>1, <1>3, <1>4 DEF RulesInBucket

LEMMA BucketsStayRemembered ==
    FirewallTypeOK /\ BucketsRemember /\ [FirewallNext]_firewallVars => BucketsRemember'
<1> SUFFICES ASSUME FirewallTypeOK, BucketsRemember, [FirewallNext]_firewallVars
             PROVE  BucketsRemember'
  OBVIOUS
<1>1. ASSUME NEW rule \in FwRules, Insert(rule)
      PROVE  BucketsRemember'
  <2> DEFINE h == MtnfHashVal[rule.key]
  <2>1. h \in FwBuckets /\ hash_map' = [hash_map EXCEPT ![h] = Placed(hash_map[h], rule)]
    BY <1>1, FirewallAssumption DEF FwRules, Insert
  <2> SUFFICES ASSUME NEW b \in FwBuckets,
                      Cardinality(RulesInBucket(b)') <= FW_BUCKET_SIZE
               PROVE  Len(hash_map'[b]) = Cardinality(RulesInBucket(b)')
    BY DEF BucketsRemember
  <2>2. CASE b # h
    BY <1>1, <2>1, <2>2, RulesGrow DEF BucketsRemember, FirewallTypeOK
  <2>3. CASE b = h
    <3>1. Cardinality(RulesInBucket(b)') = Cardinality(RulesInBucket(b)) + 1
      BY <1>1, <2>3, RulesGrow, FS_AddElement
    <3>2. Cardinality(RulesInBucket(b)) \in Nat
      BY <1>1, RulesGrow, FS_CardinalityType
    <3>3. Len(hash_map[b]) = Cardinality(RulesInBucket(b)) /\ Len(hash_map[b]) < FW_BUCKET_SIZE
      BY <3>1, <3>2, FirewallAssumption DEF BucketsRemember
    <3>4. hash_map[b] \in Seq(FwRules) /\ hash_map'[b] = Append(hash_map[b], rule)
      BY <2>1, <2>3, <3>3 DEF FirewallTypeOK, Placed
    <3> QED
      BY <3>1, <3>3, <3>4
  <2> QED
    BY <2>2, <2>3
<1>2. CASE UNCHANGED tableVars
  BY <1>2 DEF tableVars, BucketsRemember, RulesInBucket
<1>3. FirewallNext => (\E rule \in FwRules : Insert(rule)) \/ UNCHANGED tableVars
  BY DEF FirewallNext, Loaded, FwReceive, Keep, Drop, NullHeader, FwReturn, FwStopped,
         firewallVars, tableVars
<1> QED
  BY <1>1, <1>2, <1>3 DEF firewallVars, tableVars

\* A rule for another 5-tuple changes neither the places of this one's rules
\* nor, in a bucket with room, those of its nodes.
Hits(nodes, k) == {n \in DOMAIN nodes : nodes[n].key = k}

LEMMA AppendedHits ==
    ASSUME NEW nodes \in Seq(FwRules), NEW rule \in FwRules, NEW k \in FiveTuples
    PROVE  LET more == Append(nodes, rule)
           IN  /\ rule.key = k => /\ Hits(more, k) # {}
                                  /\ Max(Hits(more, k)) = Len(nodes) + 1
                                  /\ more[Max(Hits(more, k))] = rule
               /\ rule.key # k => /\ Hits(more, k) = Hits(nodes, k)
                                  /\ Hits(nodes, k) # {} =>
                                       more[Max(Hits(more, k))] = nodes[Max(Hits(nodes, k))]
<1> DEFINE more == Append(nodes, rule)
<1>1. /\ Len(nodes) \in Nat /\ DOMAIN nodes = 1 .. Len(nodes)
      /\ DOMAIN more = DOMAIN nodes \cup {Len(nodes) + 1}
      /\ \A n \in DOMAIN nodes : more[n] = nodes[n]
      /\ more[Len(nodes) + 1] = rule
  OBVIOUS
<1> HIDE DEF more
<1>2. CASE rule.key = k
  <2>1. /\ Hits(more, k) \in SUBSET Int /\ Len(nodes) + 1 \in Hits(more, k)
        /\ \A y \in Hits(more, k) : Len(nodes) + 1 >= y
    BY <1>1, <1>2 DEF Hits
  <2>2. Max(Hits(more, k)) = Len(nodes) + 1
    BY <2>1, GreatestIs
  <2> QED
    BY <1>1, <1>2, <2>1, <2>2 DEF more
<1>3. CASE rule.key # k
  <2>1. Hits(more, k) = Hits(nodes, k)
    BY <1>1, <1>3 DEF Hits
  <2>2. ASSUME Hits(nodes, k) # {}
        PROVE  Max(Hits(nodes, k)) \in Hits(nodes, k)
    <3>1. Hits(nodes, k) \subseteq 1 .. Len(nodes)
      BY <1>1 DEF Hits
    <3> QED
      BY <1>1, <2>2, <3>1, GreatestPlace
  <2>3. \A n \in Hits(nodes, k) : more[n] = nodes[n]
    BY <1>1 DEF Hits
  <2> QED
    BY <1>3, <2>1, <2>2, <2>3 DEF more
<1> QED
  BY <1>2, <1>3

LEMMA LatestKeepsDeciding ==
    FirewallTypeOK /\ BucketsRemember /\ LatestRuleDecides /\ [FirewallNext]_firewallVars
        => LatestRuleDecides'
<1> SUFFICES ASSUME FirewallTypeOK, BucketsRemember, LatestRuleDecides,
                    [FirewallNext]_firewallVars
             PROVE  LatestRuleDecides'
  OBVIOUS
<1>0. \A k : Lookup(k) = IF Hits(hash_map[MtnfHashVal[k]], k) = {} THEN "PASS"
                ELSE hash_map[MtnfHashVal[k]][Max(Hits(hash_map[MtnfHashVal[k]], k))].action
  BY DEF Lookup, Hits
<1>p. \A k : Lookup(k)' = IF Hits(hash_map'[MtnfHashVal[k]], k) = {} THEN "PASS"
                ELSE hash_map'[MtnfHashVal[k]][Max(Hits(hash_map'[MtnfHashVal[k]], k))].action
  BY DEF Lookup, Hits
<1>r. \A k : RulesOf(k) = Hits(rules, k) /\ RulesOf(k)' = Hits(rules', k)
  BY DEF RulesOf, Hits
<1>1. ASSUME NEW rule \in FwRules, Insert(rule)
      PROVE  LatestRuleDecides'
  <2> DEFINE h == MtnfHashVal[rule.key]
  <2>1. /\ h \in FwBuckets /\ hash_map' = [hash_map EXCEPT ![h] = Placed(hash_map[h], rule)]
        /\ rules' = Append(rules, rule) /\ rules \in Seq(FwRules)
    BY <1>1, FirewallAssumption DEF FwRules, Insert, FirewallTypeOK
  <2> SUFFICES ASSUME NEW k \in FiveTuples,
                      Cardinality(RulesInBucket(MtnfHashVal[k])') <= FW_BUCKET_SIZE
               PROVE  Lookup(k)' = IF RulesOf(k)' = {} THEN "PASS"
                                                      ELSE rules'[Max(RulesOf(k)')].action
    BY DEF LatestRuleDecides
  <2> DEFINE b == MtnfHashVal[k]
  <2>2. b \in FwBuckets
    BY FirewallAssumption
  <2>3. /\ Cardinality(RulesInBucket(b)) \in Nat
        /\ Cardinality(RulesInBucket(b)') = IF h = b THEN Cardinality(RulesInBucket(b)) + 1
                                                     ELSE Cardinality(RulesInBucket(b))
    BY <1>1, <2>2, RulesGrow, FS_CardinalityType, FS_AddElement
  <2>4. Lookup(k) = IF RulesOf(k) = {} THEN "PASS" ELSE rules[Max(RulesOf(k))].action
    BY <2>3, FirewallAssumption DEF LatestRuleDecides
  <2>5. CASE h # b
    <3>1. hash_map'[b] = hash_map[b] /\ rule.key # k
      BY <2>1, <2>2, <2>5 DEF FirewallTypeOK
    <3>2. Lookup(k)' = Lookup(k)
      BY <1>0, <1>p, <3>1
    <3>3. /\ Hits(rules', k) = Hits(rules, k)
          /\ Hits(rules, k) # {} => rules'[Max(Hits(rules', k))] = rules[Max(Hits(rules, k))]
      BY <2>1, <3>1, AppendedHits
    <3> QED
      BY <1>r, <2>4, <3>2, <3>3
  <2>6. CASE h = b
    <3>1. Len(hash_map[b]) < FW_BUCKET_SIZE
      BY <2>2, <2>3, <2>6, FirewallAssumption DEF BucketsRemember
    <3>2. hash_map[b] \in Seq(FwRules) /\ hash_map'[b] = Append(hash_map[b], rule)
      BY <2>1, <2>2, <2>6, <3>1 DEF FirewallTypeOK, Placed
    <3>3. CASE rule.key = k
      <4>1. Hits(rules', k) # {} /\ rules'[Max(Hits(rules', k))] = rule
        BY <2>1, <3>3, AppendedHits
      <4>2. Hits(hash_map'[b], k) # {} /\ hash_map'[b][Max(Hits(hash_map'[b], k))] = rule
        BY <3>2, <3>3, AppendedHits
      <4> QED
        BY <1>p, <1>r, <4>1, <4>2
    <3>4. CASE rule.key # k
      <4>1. /\ Hits(rules', k) = Hits(rules, k)
            /\ Hits(rules, k) # {} => rules'[Max(Hits(rules', k))] = rules[Max(Hits(rules, k))]
        BY <2>1, <3>4, AppendedHits
      <4>2. /\ Hits(hash_map'[b], k) = Hits(hash_map[b], k)
            /\ Hits(hash_map[b], k) # {} => hash_map'[b][Max(Hits(hash_map'[b], k))]
                                              = hash_map[b][Max(Hits(hash_map[b], k))]
        <5> DEFINE nodes == hash_map[b]
                   more == hash_map'[b]
        <5>1. nodes \in Seq(FwRules) /\ more = Append(nodes, rule)
          BY <3>2
        <5> SUFFICES /\ Hits(more, k) = Hits(nodes, k)
                     /\ Hits(nodes, k) # {} =>
                          more[Max(Hits(more, k))] = nodes[Max(Hits(nodes, k))]
          OBVIOUS
        <5> HIDE DEF nodes, more
        <5> QED
          BY <3>4, <5>1, AppendedHits
      <4>3. Lookup(k)' = Lookup(k)
        BY <1>0, <1>p, <4>2
      <4> QED
        BY <1>r, <2>4, <4>1, <4>3
    <3> QED
      BY <3>3, <3>4
  <2> QED
    BY <2>5, <2>6
<1>2. CASE UNCHANGED tableVars
  BY <1>2 DEF tableVars, LatestRuleDecides, RulesInBucket, RulesOf, Lookup
<1>3. FirewallNext => (\E rule \in FwRules : Insert(rule)) \/ UNCHANGED tableVars
  BY DEF FirewallNext, Loaded, FwReceive, Keep, Drop, NullHeader, FwReturn, FwStopped,
         firewallVars, tableVars
<1> QED
  BY <1>1, <1>2, <1>3 DEF firewallVars, tableVars

(* The table answers what the rules say: the latest rule for a 5-tuple, as    *)
(* long as its bucket has not overflowed, and never a rule that was not given *)
(* (mtnf_firewall.c:68-117).                                                  *)
THEOREM RulesAlwaysDecide == FirewallSpec => []RulesDecide
<1>1. FirewallInit => BucketsRemember /\ LatestRuleDecides
  <2> SUFFICES ASSUME FirewallInit PROVE BucketsRemember /\ LatestRuleDecides
    OBVIOUS
  <2>1. rules = <<>> /\ DOMAIN rules = {} /\ \A b \in FwBuckets : hash_map[b] = <<>>
    BY DEF FirewallInit
  <2>2. \A b \in FwBuckets : RulesInBucket(b) = {}
    BY <2>1 DEF RulesInBucket
  <2>3. BucketsRemember
    <3>1. Cardinality({}) = 0 /\ Len(<<>>) = 0
      BY FS_EmptySet
    <3>2. \A b \in FwBuckets : Len(hash_map[b]) = 0 /\ Cardinality(RulesInBucket(b)) = 0
      BY <2>1, <2>2, <3>1
    <3> QED
      BY <3>2 DEF BucketsRemember
  <2>4. \A k \in FiveTuples : RulesOf(k) = {} /\ Lookup(k) = "PASS"
    BY <2>1, FirewallAssumption DEF RulesOf, Lookup
  <2> QED
    BY <2>3, <2>4 DEF LatestRuleDecides
<1>2. OnlyRulesDrop /\ LatestRuleDecides => RulesDecide
  BY DEF RulesDecide
<1> QED
  BY <1>1, <1>2, BucketsStayRemembered, LatestKeepsDeciding, OnlyRulesEverDrop,
     FirewallTypeCorrect, PTL DEF FirewallSpec

-----------------------------------------------------------------------------
(* Filtering in place *)

\* One packet further: the array keeps everything that has been decided.
LEMMA StepKeepsFilter ==
    FirewallTypeOK /\ AtRest /\ FilterIsExact /\ [FirewallNext]_firewallVars => FilterIsExact'
<1> SUFFICES ASSUME FirewallTypeOK, AtRest, FilterIsExact, [FirewallNext]_firewallVars
             PROVE  FilterIsExact'
  OBVIOUS
<1>t. /\ fw_pkt \in [1 .. FwBatch -> 1 .. FwBatch] /\ FwBatch \in Nat
      /\ fw_i \in 0 .. FwBatch /\ fw_num_out \in 0 .. fw_i
  BY FirewallAssumption DEF FirewallTypeOK, FwPkts
<1>0. CASE fw_i = 0 /\ UNCHANGED <<fw_pkt, fw_i, fw_num_out, fw_freed>>
  BY <1>0, <1>t DEF FilterIsExact
<1>1. ASSUME NEW rule \in FwRules, Insert(rule)
      PROVE  FilterIsExact'
  BY <1>0, <1>1 DEF Insert, AtRest
<1>2. CASE Loaded
  BY <1>0, <1>2 DEF Loaded, AtRest
<1>3. CASE FwReceive
  BY <1>0, <1>3 DEF FwReceive, AtRest
<1>4. ASSUME NEW k \in FiveTuples, Keep(k)
      PROVE  FilterIsExact'
  <2> DEFINE m == fw_i + 1
  <2>1. /\ m \in 1 .. FwBatch /\ fw_pkt[m] = m
        /\ fw_num_out + 1 \in 1 .. m /\ fw_num_out + 1 \in 1 .. FwBatch
        /\ pkt_key[m] = k /\ Lookup(k) = "PASS"
    <3>1. fw_i < FwBatch /\ pkt_key[fw_pkt[m]] = k /\ Lookup(k) = "PASS"
      BY <1>4 DEF Keep, FwLooks
    <3>2. /\ m \in fw_i + 1 .. FwBatch /\ m \in 1 .. FwBatch
          /\ fw_num_out + 1 \in 1 .. m /\ fw_num_out + 1 \in 1 .. FwBatch
      BY <1>t, <3>1
    <3>3. fw_pkt[m] = m
      BY <3>2 DEF FilterIsExact
    <3> QED
      BY <3>1, <3>2, <3>3
  <2>2. /\ fw_pkt' = [fw_pkt EXCEPT ![fw_num_out + 1] = m]
        /\ fw_num_out' = fw_num_out + 1 /\ fw_i' = m
        /\ UNCHANGED <<hash_map, pkt_key, fw_freed>>
    BY <1>4, <2>1 DEF Keep, tableVars
  <2>3. /\ fw_pkt'[fw_num_out + 1] = m
        /\ \A n \in 1 .. FwBatch : n # fw_num_out + 1 => fw_pkt'[n] = fw_pkt[n]
    BY <2>1, <2>2, <1>t
  <2>4. {fw_pkt'[n] : n \in 1 .. fw_num_out'} =
          {fw_pkt[n] : n \in 1 .. fw_num_out} \cup {m}
    <3>1. fw_num_out \in Nat
      BY <1>t
    <3>2. 1 .. fw_num_out' = (1 .. fw_num_out) \cup {fw_num_out + 1}
      BY <2>2, <3>1
    <3>3. \A n \in 1 .. fw_num_out : fw_pkt'[n] = fw_pkt[n]
      <4> TAKE n \in 1 .. fw_num_out
      <4>1. n # fw_num_out + 1 /\ fw_num_out \in 0 .. FwBatch
        BY <1>t, <3>1
      <4>2. n \in 1 .. FwBatch
        BY <1>t, <2>1, <4>1
      <4> QED
        BY <2>3, <4>1, <4>2
    <3>4. fw_pkt'[fw_num_out + 1] = m
      BY <2>3
    <3> HIDE DEF m
    <3> QED
      BY <3>2, <3>3, <3>4
  <2>5. \A e : Lookup(e)' = Lookup(e)
    BY <2>2 DEF Lookup
  <2>6. ({fw_pkt[n] : n \in 1 .. fw_num_out} \cup {m}) \cup fw_freed' = 1 .. fw_i'
    <3>1. {fw_pkt[n] : n \in 1 .. fw_num_out} \cup fw_freed = 1 .. fw_i
      BY DEF FilterIsExact
    <3>2. 1 .. m = (1 .. fw_i) \cup {m}
      BY <1>t
    <3> QED
      BY <3>1, <3>2, <2>2
  <2>7. /\ \A e \in {fw_pkt[n] : n \in 1 .. fw_num_out} \cup {m} : Lookup(pkt_key[e]) = "PASS"
        /\ \A e \in fw_freed : Lookup(pkt_key[e]) = "DROP"
    BY <2>1 DEF FilterIsExact
  <2>8. \A n \in 1 .. fw_num_out' : \A e \in 1 .. n - 1 : fw_pkt'[e] < fw_pkt'[n]
    <3> TAKE n \in 1 .. fw_num_out'
    <3> TAKE e \in 1 .. n - 1
    <3>1. e \in 1 .. fw_num_out /\ fw_pkt'[e] = fw_pkt[e]
      BY <1>t, <2>1, <2>2, <2>3
    <3>2. CASE n = fw_num_out + 1
      <4>1. fw_pkt[e] \in 1 .. fw_i
        BY <3>1 DEF FilterIsExact
      <4> QED
        BY <1>t, <2>3, <3>1, <3>2, <4>1
    <3>3. CASE n # fw_num_out + 1
      <4>1. n \in 1 .. fw_num_out /\ fw_pkt'[n] = fw_pkt[n]
        BY <1>t, <2>1, <2>2, <2>3, <3>3
      <4> QED
        BY <3>1, <4>1 DEF FilterIsExact
    <3> QED
      BY <3>2, <3>3
  <2>9. \A n \in fw_i' + 1 .. FwBatch : fw_pkt'[n] = n
    <3> TAKE n \in fw_i' + 1 .. FwBatch
    <3>1. n \in fw_i + 1 .. FwBatch /\ n \in 1 .. FwBatch /\ n # fw_num_out + 1
      BY <1>t, <2>1, <2>2
    <3>2. fw_pkt[n] = n
      BY <3>1 DEF FilterIsExact
    <3> QED
      BY <2>3, <3>1, <3>2
  <2> QED
    BY <2>2, <2>4, <2>5, <2>6, <2>7, <2>8, <2>9 DEF FilterIsExact
<1>5. ASSUME NEW k \in FiveTuples, Drop(k)
      PROVE  FilterIsExact'
  <2> DEFINE m == fw_i + 1
  <2>1. /\ m \in 1 .. FwBatch /\ fw_pkt[m] = m
        /\ pkt_key[m] = k /\ Lookup(k) = "DROP"
    <3>1. fw_i < FwBatch /\ pkt_key[fw_pkt[m]] = k /\ Lookup(k) = "DROP"
      BY <1>5 DEF Drop, FwLooks
    <3>2. m \in 1 .. FwBatch /\ fw_pkt[m] = m
      BY <1>t, <3>1 DEF FilterIsExact
    <3> QED
      BY <3>1, <3>2
  <2>2. /\ fw_freed' = fw_freed \cup {m} /\ fw_i' = m
        /\ UNCHANGED <<hash_map, pkt_key, fw_pkt, fw_num_out>>
    BY <1>5, <2>1 DEF Drop, tableVars
  <2>3. \A e : Lookup(e)' = Lookup(e)
    BY <2>2 DEF Lookup
  <2>4. {fw_pkt[n] : n \in 1 .. fw_num_out} \cup fw_freed' = 1 .. fw_i'
    <3>1. {fw_pkt[n] : n \in 1 .. fw_num_out} \cup fw_freed = 1 .. fw_i
      BY DEF FilterIsExact
    <3>2. 1 .. m = (1 .. fw_i) \cup {m}
      BY <1>t
    <3> QED
      BY <3>1, <3>2, <2>2
  <2>5. /\ \A e \in {fw_pkt[n] : n \in 1 .. fw_num_out} : Lookup(pkt_key[e]) = "PASS"
        /\ \A e \in fw_freed' : Lookup(pkt_key[e]) = "DROP"
    BY <2>1, <2>2 DEF FilterIsExact
  <2>6. \A n \in fw_i' + 1 .. FwBatch : fw_pkt[n] = n
    BY <1>t, <2>2 DEF FilterIsExact
  <2> QED
    BY <2>2, <2>3, <2>4, <2>5, <2>6 DEF FilterIsExact
<1>u. CASE UNCHANGED <<tableVars, pkt_key, fw_pkt, fw_i, fw_num_out, fw_freed>>
  <2>1. \A e : Lookup(e)' = Lookup(e)
    BY <1>u DEF Lookup, tableVars
  <2>2. UNCHANGED <<pkt_key, fw_pkt, fw_i, fw_num_out, fw_freed>>
    BY <1>u
  <2> QED
    BY <2>1, <2>2 DEF FilterIsExact
<1>6. CASE NullHeader
  BY <1>6, <1>u DEF NullHeader
<1>7. CASE FwReturn
  BY <1>7, <1>t DEF FwReturn, FilterIsExact, FwPkts
<1>8. CASE UNCHANGED firewallVars
  BY <1>8, <1>u DEF firewallVars, tableVars
<1> QED
  BY <1>1, <1>2, <1>3, <1>4, <1>5, <1>6, <1>7, <1>8 DEF FirewallNext, FwStopped

(* For batches of any size and any table: filtering in place loses, repeats  *)
(* and reorders nothing, FilterIsExact (mtnf_firewall.c:155-167).            *)
THEOREM FilterStaysExact == FirewallSpec => []FilterIsExact
<1>1. FirewallInit => FilterIsExact
  BY FirewallAssumption DEF FirewallInit, FilterIsExact, FwPkts
<1> QED
  BY <1>1, StepKeepsFilter, FirewallTypeCorrect, PTL DEF FirewallSpec


-----------------------------------------------------------------------------
(* What a string ends in *)

(* One character more on both sides keeps the end of s a beginning of p.     *)
LEMMA EndExtended ==
    ASSUME NEW s, NEW p, NEW n \in Int, NEW b \in Nat,
           EndsIn(s, n, p, b), s[n] = p[b]
    PROVE  EndsIn(s, n + 1, p, b + 1)
PROOF
<1> SUFFICES ASSUME NEW k \in 0 .. b
             PROVE  s[n - b + k] = p[k]
    BY DEF EndsIn
<1>1. CASE k = b
    BY <1>1
<1>2. CASE k # b
    BY <1>2 DEF EndsIn
<1> QED BY <1>1, <1>2

(* One character less on both sides does so too.                             *)
LEMMA EndShortened ==
    ASSUME NEW s, NEW p, NEW n \in Int, NEW b \in Nat,
           EndsIn(s, n + 1, p, b + 1)
    PROVE  EndsIn(s, n, p, b) /\ s[n] = p[b]
PROOF
<1>1. \A k \in 0 .. b : s[n - b + k] = p[k]
    BY DEF EndsIn
<1> QED BY <1>1 DEF EndsIn

(* A border of what s ends in is itself an end of s.                         *)
LEMMA EndOfEnd ==
    ASSUME NEW s, NEW p, NEW n \in Int, NEW m \in Nat, NEW b \in 0 .. m,
           EndsIn(s, n, p, m), EndsIn(p, m, p, b)
    PROVE  EndsIn(s, n, p, b)
PROOF
<1> SUFFICES ASSUME NEW k \in 0 .. b - 1
             PROVE  s[n - b + k] = p[k]
    BY DEF EndsIn
<1>1. m - b + k \in 0 .. m - 1
    OBVIOUS
<1>2. s[n - m + (m - b + k)] = p[m - b + k]
    BY <1>1 DEF EndsIn
<1>3. n - m + (m - b + k) = n - b + k
    OBVIOUS
<1>4. p[m - b + k] = p[k]
    BY DEF EndsIn
<1> QED BY <1>2, <1>3, <1>4

(* Of two ends of s the shorter is a border of the longer.                   *)
LEMMA EndsNest ==
    ASSUME NEW s, NEW p, NEW n \in Int, NEW m \in Nat, NEW b \in 0 .. m,
           EndsIn(s, n, p, m), EndsIn(s, n, p, b)
    PROVE  EndsIn(p, m, p, b)
PROOF
<1> SUFFICES ASSUME NEW k \in 0 .. b - 1
             PROVE  p[m - b + k] = p[k]
    BY DEF EndsIn
<1>1. m - b + k \in 0 .. m - 1
    OBVIOUS
<1>2. s[n - m + (m - b + k)] = p[m - b + k]
    BY <1>1 DEF EndsIn
<1>3. n - m + (m - b + k) = n - b + k
    OBVIOUS
<1>4. s[n - b + k] = p[k]
    BY DEF EndsIn
<1> QED BY <1>2, <1>3, <1>4

-----------------------------------------------------------------------------
(* The inductive invariant *)

\* The first m + 1 entries of rule r's table are final.
TableUpTo(r, m) ==
    /\ next[r][0] = -1
    /\ \A n \in 1 .. m :
         /\ next[r][n] \in 0 .. n - 1
         /\ EndsIn(str[r], n, str[r], next[r][n])
         /\ \A b \in next[r][n] + 1 .. n - 1 : ~EndsIn(str[r], n, str[r], b)

\* Between two passes of mtnf_get_next: j is a border of the first i characters,
\* and the longer ones that have been given up could not be extended.
NextLoop ==
    /\ filled >= 1
    /\ i \in Places
    /\ i = 0 \/ i <= StrLen(index) - 1
    /\ j \in -1 .. i - 1
    /\ \A r \in 0 .. index - 1 : TableUpTo(r, StrLen(r) - 1)
    /\ TableUpTo(index, i)
    /\ j >= 0 => EndsIn(str[index], i, str[index], j)
    /\ \A b \in j + 1 .. i - 1 :
         EndsIn(str[index], i, str[index], b) => str[index][i] # str[index][b]

\* Between two passes of mtnf_kmp: the text read so far ends in the first j
\* characters, longer ends could not be extended, and no end was the whole rule.
KmpLoop ==
    /\ i \in 0 .. scan
    /\ j \in -1 .. StrLen(index)
    /\ j <= i
    /\ j >= 0 => EndsIn(text, i, str[index], j)
    /\ \A b \in j + 1 .. StrLen(index) - 1 :
         b <= i /\ i < scan /\ EndsIn(text, i, str[index], b) => text[i] # str[index][b]
    /\ j < StrLen(index) =>
         \A n \in StrLen(index) .. i : ~EndsIn(text, n, str[index], StrLen(index))
    /\ found <=> \E r \in 0 .. index - 1 : Occurs(r)

AllTables == \A r \in IdsRules : TableUpTo(r, STR_LEN - 2)

IdsInv ==
    /\ IdsTypeOK
    /\ at \in {"fill", "next"} => ~found /\ scan = 0
    /\ at = "fill" => filled < IDS_RULE_NUM
    /\ at = "next" => NextLoop
    /\ at \in {"idle", "kmp"} => filled = IDS_RULE_NUM /\ AllTables
    /\ at = "idle" => (found <=> \E r \in IdsRules : Occurs(r))
    /\ at = "kmp" => KmpLoop

-----------------------------------------------------------------------------
(* The invariant holds at first, and each action keeps it *)

LEMMA LengthOfRule ==
    ASSUME NEW r \in IdsRules, filled \in 0 .. IDS_RULE_NUM
    PROVE  StrLen(r) \in 0 .. STR_LEN - 1
BY IdsAssumption DEF StrLen

(* The zeroed state: nothing is filled in and nothing has been found.        *)
LEMMA IdsInitInv == IdsInit => IdsInv
PROOF
<1> SUFFICES ASSUME IdsInit PROVE IdsInv
    OBVIOUS
<1> USE IdsAssumption
<1>1. 0 \in Chars /\ 0 \in -1 .. STR_LEN - 2 /\ 0 \in IdsRules
    BY DEF Chars, IdsRules
<1>2. /\ str \in [IdsRules -> [Places -> Chars]]
      /\ next \in [IdsRules -> [Places -> -1 .. STR_LEN - 2]]
    BY <1>1 DEF IdsInit, NUL
<1>3. 0 .. scan - 1 = {}
    BY DEF IdsInit
<1>4. text \in [0 .. scan - 1 -> Chars]
    BY <1>3 DEF IdsInit
<1>5. /\ at = "fill" /\ filled = 0 /\ index = 0 /\ i = 0 /\ j = 0
      /\ scan = 0 /\ ~found /\ found \in BOOLEAN
    BY DEF IdsInit
<1>6. IdsTypeOK
    BY <1>1, <1>2, <1>4, <1>5 DEF IdsTypeOK
<1> QED BY <1>5, <1>6 DEF IdsInv

(* A rule is written; the tables are begun anew.                             *)
LEMMA FillStep == IdsInv /\ Fill => IdsInv'
PROOF
<1> SUFFICES ASSUME IdsInv, Fill PROVE IdsInv'
    OBVIOUS
<1> USE IdsAssumption
<1>1. filled \in IdsRules /\ filled' = filled + 1 /\ at' = "next"
    BY DEF IdsInv, IdsTypeOK, Fill, IdsRules
<1>2. Alphabet \in [Places -> Chars]
    BY DEF Alphabet, Places, Chars, NUL
<1>3. str' \in [IdsRules -> [Places -> Chars]]
    BY <1>1, <1>2 DEF Fill, IdsInv, IdsTypeOK
<1>4. 0 \in IdsRules /\ 0 \in Places /\ -1 \in -1 .. STR_LEN - 2
    BY DEF IdsRules, Places
<1>5. next' \in [IdsRules -> [Places -> -1 .. STR_LEN - 2]] /\ next'[0][0] = -1
    BY <1>4 DEF Fill, IdsInv, IdsTypeOK
<1>6. IdsTypeOK'
    BY <1>1, <1>3, <1>4, <1>5 DEF Fill, IdsInv, IdsTypeOK, textVars, IdsRules
<1>7. filled' >= 1 /\ i' = 0 /\ j' = -1 /\ index' = 0
    BY <1>1 DEF Fill, IdsRules
<1>8. TableUpTo(index, i)'
    BY <1>5, <1>7 DEF TableUpTo
<1>9. NextLoop'
    BY <1>4, <1>7, <1>8 DEF NextLoop
<1> QED BY <1>1, <1>6, <1>9 DEF Fill, IdsInv, textVars

(* The table grows by an entry.                                              *)
LEMMA NextExtendStep == IdsInv /\ NextExtend => IdsInv'
PROOF
<1> SUFFICES ASSUME IdsInv, NextExtend PROVE IdsInv'
    OBVIOUS
<1> USE IdsAssumption
<1> DEFINE p == str[index]
<1>1. /\ IdsTypeOK /\ NextLoop
      /\ at = "next" /\ at' = "next" /\ i < StrLen(index) - 1
      /\ j # -1 => p[i] = p[j]
      /\ i' = i + 1 /\ j' = j + 1
      /\ next' = [next EXCEPT ![index][i + 1] = j + 1]
      /\ filled' = filled /\ str' = str /\ index' = index
      /\ text' = text /\ scan' = scan /\ found' = found
    BY DEF IdsInv, NextExtend, InTable, ruleVars, textVars
<1>2. StrLen(index) \in 0 .. STR_LEN - 1
    BY <1>1, LengthOfRule DEF IdsTypeOK
<1>3. /\ i \in Nat /\ j \in -1 .. i - 1 /\ i + 1 \in Places /\ i + 1 <= StrLen(index) - 1
      /\ j + 1 \in 0 .. i /\ j + 1 \in -1 .. STR_LEN - 2
    BY <1>1, <1>2 DEF IdsTypeOK, NextLoop, Places
<1>4. next' \in [IdsRules -> [Places -> -1 .. STR_LEN - 2]]
    BY <1>1, <1>3 DEF IdsTypeOK
<1>5. IdsTypeOK'
    BY <1>1, <1>3, <1>4 DEF IdsTypeOK
<1>6. /\ next'[index][i + 1] = j + 1
      /\ \A n \in Places : n # i + 1 => next'[index][n] = next[index][n]
      /\ \A r \in IdsRules : r # index => next'[r] = next[r]
    BY <1>1, <1>3 DEF IdsTypeOK
<1>7. EndsIn(p, i + 1, p, j + 1)
  <2>1. CASE j = -1
    <3>1. 0 .. (j + 1) - 1 = {}
      BY <2>1
    <3> QED BY <3>1 DEF EndsIn
  <2>2. CASE j # -1
    <3>1. j \in Nat /\ EndsIn(p, i, p, j) /\ p[i] = p[j]
      BY <1>1, <1>3, <2>2 DEF NextLoop
    <3>2. i \in Int
      BY <1>3
    <3> QED BY <3>1, <3>2, EndExtended, Zenon
  <2> QED BY <2>1, <2>2
<1>8. \A b \in j + 2 .. i : ~EndsIn(p, i + 1, p, b)
  <2> SUFFICES ASSUME NEW b \in j + 2 .. i, EndsIn(p, i + 1, p, b) PROVE FALSE
    OBVIOUS
  <2>1. b - 1 \in Nat /\ b - 1 \in j + 1 .. i - 1 /\ b = (b - 1) + 1
    BY <1>3
  <2>2. EndsIn(p, i, p, b - 1) /\ p[i] = p[b - 1]
    <3> DEFINE c == b - 1
    <3>1. c \in Nat /\ i \in Int /\ b = c + 1
      BY <1>3, <2>1
    <3>2. EndsIn(p, i + 1, p, c + 1)
      BY <3>1
    <3> HIDE DEF c, p
    <3>3. EndsIn(p, i, p, c) /\ p[i] = p[c]
      BY <3>1, <3>2, EndShortened
    <3> QED
      BY <3>3 DEF c
  <2>3. \A a \in j + 1 .. i - 1 : ~ (EndsIn(p, i, p, a) /\ p[i] = p[a])
    BY <1>1 DEF NextLoop
  <2> QED BY <2>1, <2>2, <2>3
<1>9. TableUpTo(index, i)'
  <2>1. next'[index][0] = -1
    BY <1>1, <1>3, <1>6 DEF NextLoop, TableUpTo, Places
  <2>2. ASSUME NEW n \in 1 .. i + 1
        PROVE  /\ next'[index][n] \in 0 .. n - 1
               /\ EndsIn(p, n, p, next'[index][n])
               /\ \A b \in next'[index][n] + 1 .. n - 1 : ~EndsIn(p, n, p, b)
    <3>1. CASE n = i + 1
      BY <1>3, <1>6, <1>7, <1>8, <3>1
    <3>2. CASE n # i + 1
      <4>1. n \in 1 .. i /\ n \in Places /\ next'[index][n] = next[index][n]
        BY <1>3, <1>6, <3>2 DEF Places
      <4> QED BY <1>1, <4>1 DEF NextLoop, TableUpTo
    <3> QED BY <3>1, <3>2
  <2> QED BY <1>1, <2>1, <2>2 DEF TableUpTo
<1>10. \A r \in 0 .. index - 1 : TableUpTo(r, StrLen(r) - 1)'
  <2> SUFFICES ASSUME NEW r \in 0 .. index - 1 PROVE TableUpTo(r, StrLen(r) - 1)'
    OBVIOUS
  <2>1. r \in IdsRules /\ r # index
    BY <1>1 DEF IdsTypeOK, IdsRules
  <2>2. next'[r] = next[r] /\ str' = str /\ filled' = filled
    BY <1>1, <1>6, <2>1
  <2> QED BY <1>1, <2>2 DEF NextLoop, TableUpTo, StrLen
<1>11. NextLoop'
    BY <1>1, <1>3, <1>7, <1>8, <1>9, <1>10 DEF NextLoop, StrLen
<1> QED BY <1>1, <1>5, <1>11 DEF IdsInv

(* A border that cannot be extended is given up for the next longest one.    *)
LEMMA NextFallBackStep == IdsInv /\ NextFallBack => IdsInv'
PROOF
<1> SUFFICES ASSUME IdsInv, NextFallBack PROVE IdsInv'
    OBVIOUS
<1> USE IdsAssumption
<1> DEFINE p == str[index]
           q == next[index][j]
<1>1. /\ IdsTypeOK /\ NextLoop
      /\ at = "next" /\ at' = "next" /\ i < StrLen(index) - 1
      /\ j # -1 /\ p[i] # p[j]
      /\ i' = i /\ j' = q /\ next' = next
      /\ filled' = filled /\ str' = str /\ index' = index
      /\ text' = text /\ scan' = scan /\ found' = found
    BY DEF IdsInv, NextFallBack, InTable, ruleVars, textVars
<1>2. /\ i \in Nat /\ j \in 0 .. i - 1 /\ j \in Places
      /\ EndsIn(p, i, p, j)
    BY <1>1 DEF NextLoop, Places
<1>3. q \in -1 .. j - 1
    BY <1>1, <1>2 DEF NextLoop, TableUpTo
<1>4. q >= 0 => EndsIn(p, j, p, q)
    BY <1>1, <1>2, <1>3 DEF NextLoop, TableUpTo
<1>5. \A b \in q + 1 .. j - 1 : ~EndsIn(p, j, p, b)
    BY <1>1, <1>2, <1>3 DEF NextLoop, TableUpTo
<1>6. q >= 0 => EndsIn(p, i, p, q)
    BY <1>2, <1>3, <1>4, EndOfEnd
<1>7. \A b \in q + 1 .. i - 1 : EndsIn(p, i, p, b) => p[i] # p[b]
  <2> SUFFICES ASSUME NEW b \in q + 1 .. i - 1, EndsIn(p, i, p, b)
               PROVE  p[i] # p[b]
    OBVIOUS
  <2>1. CASE b > j
    BY <1>1, <1>2, <1>3, <2>1 DEF NextLoop
  <2>2. CASE b = j
    BY <1>1, <2>2
  <2>3. CASE b < j
    <3>2. b \in 0 .. j /\ b \in q + 1 .. j - 1
      BY <1>2, <1>3, <2>3
    <3>3. EndsIn(p, j, p, b)
      BY <1>2, <3>2, EndsNest
    <3> QED BY <1>5, <3>2, <3>3
  <2> QED BY <1>2, <1>3, <2>1, <2>2, <2>3
<1>8. IdsTypeOK'
    BY <1>1, <1>2, <1>3 DEF IdsTypeOK
<1>9. NextLoop'
    BY <1>1, <1>2, <1>3, <1>6, <1>7 DEF NextLoop, TableUpTo, StrLen
<1> QED BY <1>1, <1>8, <1>9 DEF IdsInv

(* A finished table stays finished while the next one is begun.              *)
LEMMA NextRuleStep == IdsInv /\ NextRule => IdsInv'
PROOF
<1> SUFFICES ASSUME IdsInv, NextRule PROVE IdsInv'
    OBVIOUS
<1> USE IdsAssumption
<1>1. /\ IdsTypeOK /\ NextLoop
      /\ at = "next" /\ at' = "next" /\ ~(i < StrLen(index) - 1)
      /\ index + 1 < IDS_RULE_NUM /\ index' = index + 1 /\ i' = 0 /\ j' = -1
      /\ next' = [next EXCEPT ![index + 1][0] = -1]
      /\ filled' = filled /\ str' = str
      /\ text' = text /\ scan' = scan /\ found' = found
    BY DEF IdsInv, NextRule, InTable, ruleVars, textVars
<1>2. /\ index \in Nat /\ index + 1 \in IdsRules /\ 0 \in Places
      /\ -1 \in -1 .. STR_LEN - 2
    BY <1>1 DEF IdsTypeOK, IdsRules, Places
<1>3. /\ next' \in [IdsRules -> [Places -> -1 .. STR_LEN - 2]]
      /\ next'[index + 1][0] = -1
      /\ \A r \in IdsRules : r # index + 1 => next'[r] = next[r]
    BY <1>1, <1>2 DEF IdsTypeOK
<1>4. IdsTypeOK'
    BY <1>1, <1>2, <1>3 DEF IdsTypeOK
<1>5. ASSUME NEW r \in 0 .. index
      PROVE  TableUpTo(r, StrLen(r) - 1)'
  <2>1. r \in IdsRules /\ r # index + 1
    BY <1>1, <1>2 DEF IdsRules
  <2>2. TableUpTo(r, StrLen(r) - 1)
    <3>1. CASE r < index
      BY <1>1, <1>2, <3>1 DEF NextLoop
    <3>2. CASE r = index
      <4>1. TableUpTo(index, i)
        BY <1>1 DEF NextLoop
      <4>2. StrLen(index) \in 0 .. STR_LEN - 1
        BY <1>1, LengthOfRule DEF IdsTypeOK
      <4>3. i \in Nat /\ StrLen(index) - 1 <= i
        BY <1>1, <4>2 DEF IdsTypeOK
      <4> QED BY <3>2, <4>1, <4>2, <4>3 DEF TableUpTo
    <3> QED BY <1>2, <3>1, <3>2
  <2> QED BY <1>1, <1>3, <2>1, <2>2 DEF TableUpTo, StrLen
<1>6. TableUpTo(index, i)'
    BY <1>1, <1>3 DEF TableUpTo
<1>7. \A r \in 0 .. index' - 1 : TableUpTo(r, StrLen(r) - 1)'
    BY <1>1, <1>2, <1>5
<1>8. filled' >= 1 /\ i' \in Places
    BY <1>1, <1>2 DEF NextLoop
<1>9. NextLoop'
    BY <1>1, <1>6, <1>7, <1>8 DEF NextLoop
<1> QED BY <1>1, <1>4, <1>9 DEF IdsInv

(* The last table: once all rules are written, all tables are final.         *)
LEMMA TableDoneStep == IdsInv /\ TableDone => IdsInv'
PROOF
<1> SUFFICES ASSUME IdsInv, TableDone PROVE IdsInv'
    OBVIOUS
<1> USE IdsAssumption
<1>1. /\ IdsTypeOK /\ NextLoop /\ ~found /\ scan = 0
      /\ at = "next" /\ ~(i < StrLen(index) - 1)
      /\ index + 1 = IDS_RULE_NUM
      /\ at' = IF filled = IDS_RULE_NUM THEN "idle" ELSE "fill"
      /\ filled' = filled /\ str' = str /\ next' = next
      /\ index' = index /\ i' = i /\ j' = j
      /\ text' = text /\ scan' = scan /\ found' = found
    BY DEF IdsInv, TableDone, InTable, ruleVars, textVars
<1>2. IdsTypeOK'
    BY <1>1 DEF IdsTypeOK
<1>3. CASE filled # IDS_RULE_NUM
    BY <1>1, <1>2, <1>3 DEF IdsInv, IdsTypeOK
<1>4. CASE filled = IDS_RULE_NUM
  <2>1. \A r \in IdsRules : StrLen(r) = STR_LEN - 1
    BY <1>4 DEF StrLen, IdsRules
  <2>2. ASSUME NEW r \in IdsRules
        PROVE  TableUpTo(r, STR_LEN - 2)'
    <3>1. CASE r = index
      <4>1. TableUpTo(index, i) /\ i \in Nat /\ STR_LEN - 2 <= i
        BY <1>1, <2>1 DEF NextLoop, IdsTypeOK
      <4> QED BY <1>1, <3>1, <4>1 DEF TableUpTo
    <3>2. CASE r # index
      <4>1. r \in 0 .. index - 1
        BY <1>1, <3>2 DEF IdsRules, IdsTypeOK
      <4>2. TableUpTo(r, STR_LEN - 2)
        BY <1>1, <2>1, <4>1 DEF NextLoop
      <4> QED BY <1>1, <4>2 DEF TableUpTo
    <3> QED BY <3>1, <3>2
  <2>3. \A r \in IdsRules : ~Occurs(r)'
    <3> SUFFICES ASSUME NEW r \in IdsRules, Occurs(r)' PROVE FALSE
      OBVIOUS
    <3>1. StrLen(r)' = STR_LEN - 1 /\ scan' = 0
      BY <1>1, <2>1 DEF StrLen
    <3> QED BY <3>1 DEF Occurs
  <2> QED BY <1>1, <1>2, <1>4, <2>2, <2>3 DEF IdsInv, AllTables
<1> QED BY <1>3, <1>4

(* A payload arrives; the search for the first rule begins.                  *)
LEMMA ReceiveStep == IdsInv /\ Receive => IdsInv'
PROOF
<1> SUFFICES ASSUME IdsInv, Receive PROVE IdsInv'
    OBVIOUS
<1> USE IdsAssumption
<1>1. PICK n \in 0 .. TextBound : \E s \in [0 .. n - 1 -> Chars] : text' = s /\ scan' = n
    BY DEF Receive
<1>2. /\ IdsTypeOK /\ AllTables /\ filled = IDS_RULE_NUM
      /\ at = "idle" /\ at' = "kmp"
      /\ filled' = filled /\ str' = str /\ next' = next
      /\ index' = 0 /\ i' = 0 /\ j' = 0 /\ ~found' /\ found' \in BOOLEAN
    BY DEF IdsInv, Receive, ruleVars
<1>3. /\ scan' \in Nat /\ text' \in [0 .. scan' - 1 -> Chars] /\ 0 \in IdsRules
    BY <1>1 DEF IdsRules
<1>4. IdsTypeOK'
    BY <1>2, <1>3 DEF IdsTypeOK
<1>5. AllTables'
    BY <1>2 DEF AllTables, TableUpTo
<1>6. StrLen(index)' = STR_LEN - 1
    BY <1>2 DEF StrLen
<1>7. KmpLoop'
  <2>1. EndsIn(text', 0, str'[0], 0)
    BY DEF EndsIn
  <2>2. \A b \in 1 .. STR_LEN - 2 : ~(b <= 0)
    OBVIOUS
  <2>3. (STR_LEN - 1) .. 0 = {}
    OBVIOUS
  <2>4. 0 .. index' - 1 = {}
    BY <1>2
  <2>5. found' <=> \E r \in 0 .. index' - 1 : Occurs(r)'
    BY <1>2, <2>4
  <2>6. /\ i' \in 0 .. scan' /\ j' \in -1 .. StrLen(index)' /\ j' <= i'
    BY <1>2, <1>3, <1>6
  <2>7. /\ j' >= 0 => EndsIn(text', i', str'[index'], j')
        /\ \A b \in j' + 1 .. StrLen(index)' - 1 : ~(b <= i')
        /\ StrLen(index)' .. i' = {}
    BY <1>2, <1>6, <2>1, <2>2, <2>3
  <2> QED BY <2>5, <2>6, <2>7 DEF KmpLoop
<1> QED BY <1>2, <1>4, <1>5, <1>7 DEF IdsInv

(* A character matches, or the rule begins behind it.                        *)
LEMMA KmpAdvanceStep == IdsInv /\ KmpAdvance => IdsInv'
PROOF
<1> SUFFICES ASSUME IdsInv, KmpAdvance PROVE IdsInv'
    OBVIOUS
<1> USE IdsAssumption
<1> DEFINE p == str[index]
           L == StrLen(index)
<1>1. /\ IdsTypeOK /\ KmpLoop /\ AllTables /\ filled = IDS_RULE_NUM
      /\ at = "kmp" /\ at' = "kmp" /\ i < scan /\ j < L
      /\ j # -1 => text[i] = p[j]
      /\ i' = i + 1 /\ j' = j + 1
      /\ filled' = filled /\ str' = str /\ next' = next /\ index' = index
      /\ text' = text /\ scan' = scan /\ found' = found
    BY DEF IdsInv, KmpAdvance, InScan, ruleVars, textVars
<1>2. /\ L \in Nat /\ i \in Nat /\ scan \in Nat /\ j \in Nat \cup {-1}
      /\ j \in -1 .. L /\ j <= i
    BY <1>1, LengthOfRule DEF IdsTypeOK, KmpLoop
<1>3. IdsTypeOK' /\ AllTables' /\ L' = L
    BY <1>1, <1>2 DEF IdsTypeOK, AllTables, TableUpTo, StrLen
<1>4. EndsIn(text, i + 1, p, j + 1)
  <2>1. CASE j = -1
    <3>1. 0 .. (j + 1) - 1 = {}
      BY <2>1
    <3> QED BY <3>1 DEF EndsIn
  <2>2. CASE j # -1
    <3>1. j \in Nat /\ EndsIn(text, i, p, j) /\ text[i] = p[j]
      BY <1>1, <1>2, <2>2 DEF KmpLoop
    <3>2. i \in Int
      BY <1>2
    <3> QED BY <3>1, <3>2, EndExtended, Zenon
  <2> QED BY <2>1, <2>2
<1>5. \A b \in j + 2 .. L : b <= i + 1 => ~EndsIn(text, i + 1, p, b)
  <2> SUFFICES ASSUME NEW b \in j + 2 .. L, b <= i + 1, EndsIn(text, i + 1, p, b)
               PROVE  FALSE
    OBVIOUS
  <2>1. PICK c \in Nat : c = b - 1
    BY <1>2
  <2>2. c \in j + 1 .. L - 1 /\ c <= i /\ b = c + 1
    BY <1>2, <2>1
  <2>3. EndsIn(text, i + 1, p, c + 1)
    BY <2>2
  <2>4. i \in Int /\ c \in Nat
    BY <1>2
  <2>5. EndsIn(text, i, p, c) /\ text[i] = p[c]
    <3> HIDE DEF p
    <3> QED BY <2>3, <2>4, EndShortened
  <2> QED BY <1>1, <2>2, <2>5 DEF KmpLoop
<1>6. ASSUME j + 1 < L, NEW n \in L .. i + 1
      PROVE  ~EndsIn(text, n, p, L)
  <2>1. CASE n = i + 1
    BY <1>2, <1>5, <1>6, <2>1
  <2>2. CASE n # i + 1
    BY <1>1, <1>2, <2>2 DEF KmpLoop
  <2> QED BY <2>1, <2>2
<1>7. found <=> \E r \in 0 .. index - 1 : Occurs(r)
    BY <1>1 DEF KmpLoop
<1>8. \A r : Occurs(r)' <=> Occurs(r)
    BY <1>1 DEF Occurs, StrLen
<1>9. found' <=> \E r \in 0 .. index' - 1 : Occurs(r)'
    BY <1>1, <1>7, <1>8
<1>10. /\ i' \in 0 .. scan' /\ j' \in -1 .. L' /\ j' <= i'
    BY <1>1, <1>2, <1>3
<1>11. KmpLoop'
    BY <1>1, <1>2, <1>3, <1>4, <1>5, <1>6, <1>9, <1>10 DEF KmpLoop
<1> QED BY <1>1, <1>3, <1>11 DEF IdsInv

(* A beginning of the rule that does not go on is given up for its longest   *)
(* border; no longer one could have gone on.                                 *)
LEMMA KmpFallBackStep == IdsInv /\ KmpFallBack => IdsInv'
PROOF
<1> SUFFICES ASSUME IdsInv, KmpFallBack PROVE IdsInv'
    OBVIOUS
<1> USE IdsAssumption
<1> DEFINE p == str[index]
           L == StrLen(index)
           q == next[index][j]
<1>1. /\ IdsTypeOK /\ KmpLoop /\ AllTables /\ filled = IDS_RULE_NUM
      /\ at = "kmp" /\ at' = "kmp" /\ i < scan /\ j < L
      /\ j # -1 /\ text[i] # p[j]
      /\ i' = i /\ j' = q
      /\ filled' = filled /\ str' = str /\ next' = next /\ index' = index
      /\ text' = text /\ scan' = scan /\ found' = found
    BY DEF IdsInv, KmpFallBack, InScan, ruleVars, textVars
<1>2. /\ L \in Nat /\ i \in Nat /\ scan \in Nat /\ j \in Nat
      /\ j <= i /\ L = STR_LEN - 1 /\ index \in IdsRules
      /\ EndsIn(text, i, p, j)
    BY <1>1, LengthOfRule DEF IdsTypeOK, KmpLoop, StrLen, IdsRules
<1>3. TableUpTo(index, STR_LEN - 2) /\ j \in 0 .. STR_LEN - 2
    BY <1>1, <1>2 DEF AllTables
<1>4. q \in -1 .. j - 1
    BY <1>2, <1>3 DEF TableUpTo
<1>5. q >= 0 => EndsIn(p, j, p, q)
    BY <1>2, <1>3, <1>4 DEF TableUpTo
<1>6. \A b \in q + 1 .. j - 1 : ~EndsIn(p, j, p, b)
    BY <1>2, <1>3, <1>4 DEF TableUpTo
<1>7. q >= 0 => EndsIn(text, i, p, q)
    BY <1>2, <1>4, <1>5, EndOfEnd
<1>8. \A b \in q + 1 .. L - 1 :
        b <= i /\ i < scan /\ EndsIn(text, i, p, b) => text[i] # p[b]
  <2> SUFFICES ASSUME NEW b \in q + 1 .. L - 1, b <= i, EndsIn(text, i, p, b)
               PROVE  text[i] # p[b]
    OBVIOUS
  <2>1. CASE b > j
    BY <1>1, <1>2, <1>4, <2>1 DEF KmpLoop
  <2>2. CASE b = j
    BY <1>1, <2>2
  <2>3. CASE b < j
    <3>1. b \in 0 .. j /\ b \in q + 1 .. j - 1
      BY <1>2, <1>4, <2>3
    <3>2. EndsIn(p, j, p, b)
      BY <1>2, <3>1, EndsNest
    <3> QED BY <1>6, <3>1, <3>2
  <2> QED BY <1>2, <1>4, <2>1, <2>2, <2>3
<1>9. IdsTypeOK' /\ AllTables' /\ L' = L
    BY <1>1, <1>2, <1>4 DEF IdsTypeOK, AllTables, TableUpTo, StrLen
<1>10. found <=> \E r \in 0 .. index - 1 : Occurs(r)
    BY <1>1 DEF KmpLoop
<1>11. \A r : Occurs(r)' <=> Occurs(r)
    BY <1>1 DEF Occurs, StrLen
<1>12. found' <=> \E r \in 0 .. index' - 1 : Occurs(r)'
    BY <1>1, <1>10, <1>11
<1>13. \A n \in L .. i : ~EndsIn(text, n, p, L)
    BY <1>1 DEF KmpLoop
<1>14. /\ i' \in 0 .. scan' /\ j' \in -1 .. L' /\ j' <= i'
    BY <1>1, <1>2, <1>4, <1>9
<1>15. KmpLoop'
    BY <1>1, <1>7, <1>8, <1>9, <1>12, <1>13, <1>14 DEF KmpLoop
<1> QED BY <1>1, <1>9, <1>15 DEF IdsInv

(* The end of a search says whether the rule occurs.                         *)
LEMMA MatchedIsOccurrence ==
    ASSUME IdsInv, at = "kmp", ~InScan
    PROVE  Matched <=> Occurs(index)
PROOF
<1> USE IdsAssumption
<1> DEFINE p == str[index]
           L == StrLen(index)
<1>1. /\ IdsTypeOK /\ KmpLoop
      /\ i >= scan \/ j >= L
    BY LengthOfRule DEF IdsInv, InScan, KmpLoop, IdsTypeOK
<1>2. /\ L \in Nat /\ i \in 0 .. scan /\ scan \in Nat /\ j \in -1 .. L /\ j <= i
    BY <1>1, LengthOfRule DEF IdsTypeOK, KmpLoop, IdsInv
<1>3. CASE j = L
  <2>1. EndsIn(text, i, p, L) /\ i \in L .. scan
    BY <1>1, <1>2, <1>3 DEF KmpLoop, IdsInv
  <2> QED BY <1>3, <2>1 DEF Occurs, Matched
<1>4. CASE j # L
  <2>1. i = scan /\ j < L
    BY <1>1, <1>2, <1>4
  <2>2. \A n \in L .. scan : ~EndsIn(text, n, p, L)
    BY <1>1, <2>1 DEF KmpLoop, IdsInv
  <2> QED BY <1>4, <2>2 DEF Occurs, Matched
<1> QED BY <1>3, <1>4

LEMMA KmpNextRuleStep == IdsInv /\ KmpNextRule => IdsInv'
PROOF
<1> SUFFICES ASSUME IdsInv, KmpNextRule PROVE IdsInv'
    OBVIOUS
<1> USE IdsAssumption
<1>1. /\ IdsTypeOK /\ KmpLoop /\ AllTables /\ filled = IDS_RULE_NUM
      /\ at = "kmp" /\ at' = "kmp" /\ ~InScan
      /\ index + 1 < IDS_RULE_NUM /\ index' = index + 1 /\ i' = 0 /\ j' = 0
      /\ filled' = filled /\ str' = str /\ next' = next
      /\ text' = text /\ scan' = scan /\ found' = (found \/ Matched)
    BY DEF IdsInv, KmpNextRule, ruleVars, textVars
<1>2. index \in Nat /\ index + 1 \in IdsRules
    BY <1>1 DEF IdsTypeOK, IdsRules
<1>3. Matched <=> Occurs(index)
    BY <1>1, MatchedIsOccurrence
<1>4. IdsTypeOK' /\ AllTables'
    BY <1>1, <1>2 DEF IdsTypeOK, AllTables, TableUpTo, Matched
<1>5. StrLen(index)' = STR_LEN - 1
    BY <1>1, <1>2 DEF StrLen, IdsRules
<1>6. \A r : Occurs(r)' <=> Occurs(r)
    BY <1>1 DEF Occurs, StrLen
<1>7. found' <=> \E r \in 0 .. index : Occurs(r)'
  <2>1. found <=> \E r \in 0 .. index - 1 : Occurs(r)
    BY <1>1 DEF KmpLoop
  <2>2. \A r : r \in 0 .. index <=> (r \in 0 .. index - 1 \/ r = index)
    BY <1>2
  <2> QED BY <1>1, <1>3, <1>6, <2>1, <2>2
<1>8. 0 .. index' - 1 = 0 .. index
    BY <1>1, <1>2
<1>9. found' <=> \E r \in 0 .. index' - 1 : Occurs(r)'
    BY <1>7, <1>8
<1>10. EndsIn(text', 0, str'[index'], 0)
    BY DEF EndsIn
<1>11. scan' \in Nat
    BY <1>1 DEF IdsTypeOK
<1>12. /\ i' \in 0 .. scan' /\ j' \in -1 .. StrLen(index)' /\ j' <= i'
       /\ j' >= 0 => EndsIn(text', i', str'[index'], j')
       /\ \A b \in j' + 1 .. StrLen(index)' - 1 : ~(b <= i')
       /\ StrLen(index)' .. i' = {}
    BY <1>1, <1>5, <1>10, <1>11
<1>13. KmpLoop'
    BY <1>9, <1>12 DEF KmpLoop
<1> QED BY <1>1, <1>4, <1>13 DEF IdsInv

LEMMA KmpDoneStep == IdsInv /\ KmpDone => IdsInv'
PROOF
<1> SUFFICES ASSUME IdsInv, KmpDone PROVE IdsInv'
    OBVIOUS
<1> USE IdsAssumption
<1>1. /\ IdsTypeOK /\ KmpLoop /\ AllTables /\ filled = IDS_RULE_NUM
      /\ at = "kmp" /\ at' = "idle" /\ ~InScan
      /\ index + 1 = IDS_RULE_NUM /\ index' = index /\ i' = i /\ j' = j
      /\ filled' = filled /\ str' = str /\ next' = next
      /\ text' = text /\ scan' = scan /\ found' = (found \/ Matched)
    BY DEF IdsInv, KmpDone, ruleVars, textVars
<1>2. Matched <=> Occurs(index)
    BY <1>1, MatchedIsOccurrence
<1>3. IdsTypeOK' /\ AllTables'
    BY <1>1 DEF IdsTypeOK, AllTables, TableUpTo, Matched
<1>4. \A r : Occurs(r)' <=> Occurs(r)
    BY <1>1 DEF Occurs, StrLen
<1>5. found <=> \E r \in 0 .. index - 1 : Occurs(r)
    BY <1>1 DEF KmpLoop
<1>6. \A r : r \in IdsRules <=> (r \in 0 .. index - 1 \/ r = index)
    BY <1>1 DEF IdsRules, IdsTypeOK
<1>7. found' <=> \E r \in IdsRules : Occurs(r)'
    BY <1>1, <1>2, <1>4, <1>5, <1>6
<1> QED BY <1>1, <1>3, <1>7 DEF IdsInv

LEMMA IdsStutter == IdsInv /\ UNCHANGED idsVars => IdsInv'
PROOF
<1> SUFFICES ASSUME IdsInv, UNCHANGED idsVars PROVE IdsInv'
    OBVIOUS
<1>1. /\ at' = at /\ filled' = filled /\ str' = str /\ next' = next /\ index' = index
      /\ i' = i /\ j' = j /\ text' = text /\ scan' = scan /\ found' = found
    BY DEF idsVars
<1>2. IdsTypeOK' /\ AllTables' = AllTables /\ NextLoop' = NextLoop /\ KmpLoop' = KmpLoop
    BY <1>1 DEF IdsInv, IdsTypeOK, AllTables, NextLoop, KmpLoop, TableUpTo, StrLen, Occurs
<1>3. \A r : Occurs(r)' <=> Occurs(r)
    BY <1>1 DEF Occurs, StrLen
<1> QED BY <1>1, <1>2, <1>3 DEF IdsInv

LEMMA IdsStep == IdsInv /\ [IdsNext]_idsVars => IdsInv'
BY FillStep, NextExtendStep, NextFallBackStep, NextRuleStep, TableDoneStep, ReceiveStep,
   KmpAdvanceStep, KmpFallBackStep, KmpNextRuleStep, KmpDoneStep, IdsStutter DEF IdsNext

-----------------------------------------------------------------------------
(* The theorems *)

(* mtnf_ids.c:3-82: the invariant above holds in every reachable state.      *)
THEOREM IdsInvariant == IdsSpec => []IdsInv
BY IdsInitInv, IdsStep, PTL DEF IdsSpec

(* The arrays and the variables keep their types.                            *)
THEOREM IdsTypeCorrect == IdsSpec => []IdsTypeOK
PROOF
<1>1. IdsInv => IdsTypeOK
    BY DEF IdsInv
<1> QED BY <1>1, IdsInvariant, PTL

(* mtnf_ids.c:29-62: whatever the payload, the matcher answers whether a     *)
(* rule occurs in the characters it scans.                                   *)
THEOREM MatchesAreExact == IdsSpec => []MatchIsExact
PROOF
<1>1. IdsInv => MatchIsExact
    BY DEF IdsInv, MatchIsExact
<1> QED BY <1>1, IdsInvariant, PTL

(* mtnf_ids.c:16-25: the failure tables hold the longest proper borders.     *)
THEOREM TablesAreExact == IdsSpec => []TableIsExact
PROOF
<1>1. IdsInv => TableIsExact
  <2> SUFFICES ASSUME IdsInv, at \in {"idle", "kmp"}, NEW r \in IdsRules,
                      NEW n \in 1 .. StrLen(r) - 1
               PROVE  /\ next[r][n] \in 0 .. n - 1
                      /\ IsBorder(r, n, next[r][n])
                      /\ \A b \in next[r][n] + 1 .. n - 1 : ~IsBorder(r, n, b)
    BY DEF TableIsExact
  <2>1. StrLen(r) \in 0 .. STR_LEN - 1 /\ TableUpTo(r, STR_LEN - 2)
    BY LengthOfRule DEF IdsInv, IdsTypeOK, AllTables
  <2>2. n \in 1 .. STR_LEN - 2
    BY <2>1, IdsAssumption
  <2> QED BY <2>1, <2>2 DEF TableUpTo, IsBorder
<1> QED BY <1>1, IdsInvariant, PTL

(* mtnf_ids.c:20,24,46,52: no index leaves its array.                        *)
THEOREM IndicesAreInside == IdsSpec => []IndicesStayInside
PROOF
<1>1. IdsInv => IndicesStayInside
  <2> SUFFICES ASSUME IdsInv PROVE IndicesStayInside
    OBVIOUS
  <2>1. CASE at = "next"
    BY <2>1 DEF IdsInv, NextLoop, IndicesStayInside, Places
  <2>2. CASE at = "kmp"
    BY <2>2 DEF IdsInv, KmpLoop, IndicesStayInside
  <2> QED BY <2>1, <2>2 DEF IndicesStayInside
<1> QED BY <1>1, IdsInvariant, PTL

(* All of this together: MatcherIsSound.                                     *)
THEOREM MatcherStaysSound == IdsSpec => []MatcherIsSound
<1>1. MatchIsExact /\ TableIsExact /\ IndicesStayInside => MatcherIsSound
    BY DEF MatcherIsSound
<1> QED BY <1>1, MatchesAreExact, TablesAreExact, IndicesAreInside, PTL

(* mtnf_ids.c:16,44: every pass through either loop brings it nearer its end. *)
THEOREM LoopsEnd == IdsSpec => LoopsMakeProgress
PROOF
<1>1. IdsInv /\ [IdsNext]_idsVars
        => [(InTable \/ InScan) => 2 * i' - j' > 2 * i - j]_idsVars
  <2> SUFFICES ASSUME IdsInv, IdsNext, InTable \/ InScan
               PROVE  2 * i' - j' > 2 * i - j
    OBVIOUS
  <2>1. i \in Nat /\ j \in Nat \cup {-1} /\ index \in IdsRules
    BY DEF IdsInv, IdsTypeOK
  <2>2. CASE NextExtend \/ KmpAdvance
    BY <2>1, <2>2 DEF NextExtend, KmpAdvance
  <2>3. CASE NextFallBack
    <3>1. j' \in -1 .. j - 1 /\ i' = i
      BY <2>1, <2>3, IdsAssumption DEF NextFallBack, InTable, IdsInv, NextLoop, TableUpTo
    <3>2. i \in Int /\ j \in Int /\ j' \in Int /\ j' < j
      BY <2>1, <3>1
    <3>3. 2 * i' = 2 * i /\ 2 * i \in Int
      BY <3>1, <3>2
    <3> QED BY <3>2, <3>3
  <2>4. CASE KmpFallBack
    <3>1. j \in 0 .. STR_LEN - 2
      BY <2>1, <2>4, IdsAssumption, LengthOfRule
         DEF KmpFallBack, InScan, IdsInv, IdsTypeOK
    <3>2. j' \in -1 .. j - 1 /\ i' = i
      BY <2>1, <2>4, <3>1, IdsAssumption
         DEF KmpFallBack, InScan, IdsInv, AllTables, TableUpTo
    <3>3. i \in Int /\ j \in Int /\ j' \in Int /\ j' < j
      BY <2>1, <3>2
    <3>4. 2 * i' = 2 * i /\ 2 * i \in Int
      BY <3>2, <3>3
    <3> QED BY <3>3, <3>4
  <2> QED BY <2>2, <2>3, <2>4
       DEF IdsNext, InTable, InScan, Fill, NextRule, TableDone, Receive, KmpNextRule, KmpDone
<1> QED BY <1>1, IdsInvariant, PTL DEF IdsSpec, LoopsMakeProgress

-----------------------------------------------------------------------------
(* The handlers: every packet is answered *)

\* A length counter that is 0 stays so, whatever the length.
LEMMA ZeroIsCounted ==
    ASSUME NEW len \in Nat
    PROVE  LengthCounted(0, len) = 0
<1> DEFINE passes == (len + 6) \div 7
           Sums(f, n) == f = [k \in 0 .. n |-> IF k = 0 THEN 0 ELSE LengthStep(f[k - 1])]
<1>1. passes \in Nat
  OBVIOUS
<1>2. LengthStep(0) = 0
  <2>1. 2 ^ 16 \in Nat \ {0}
    OBVIOUS
  <2>2. \A v \in Nat \ {0} : 0 % v = 0
    OBVIOUS
  <2> QED
    BY <2>1, <2>2 DEF LengthStep
<1>3. Sums([k \in 0 .. passes |-> 0], passes)
  BY <1>2
<1> DEFINE f == CHOOSE f : Sums(f, passes)
<1>4. Sums(f, passes)
  BY <1>3
<1>5. LengthCounted(0, len) = f[passes]
  BY DEF LengthCounted
<1> HIDE DEF f, passes
<1>6. ASSUME NEW k \in 0 .. passes
      PROVE  f[k] = IF k = 0 THEN 0 ELSE LengthStep(f[k - 1])
  BY <1>4
<1> DEFINE Bad == {k \in 0 .. passes : f[k] # 0}
<1>7. ASSUME Bad # {} PROVE FALSE
  <2>1. Bad \subseteq Nat
    OBVIOUS
  <2>2. PICK m \in Bad : \A y \in Bad : m <= y
    <3> HIDE DEF Bad
    <3> QED
      BY <1>7, <2>1, LeastPlace
  <2>3. m # 0
    BY <1>1, <1>6
  <2>4. m - 1 \in 0 .. passes /\ ~ (m <= m - 1)
    BY <1>1, <2>3
  <2>5. f[m - 1] = 0
    BY <2>2, <2>4
  <2> QED
    BY <1>2, <1>6, <2>3, <2>5
<1>8. passes \in 0 .. passes
  BY <1>1
<1> QED
  BY <1>5, <1>7, <1>8

-----------------------------------------------------------------------------
(* What every step keeps: mbufs are free, in the batch or forgotten, each    *)
(* in one place.                                                             *)
HandlerTypes ==
    /\ handler \in {"monitor", "ids", "aes_encrypt", "aes_decrypt"}
    /\ slots \in Seq(HandlerMbufs)
    /\ slots # <<>> => Len(slots) = HandlerBatch /\ header \in [1 .. HandlerBatch -> Headers]
    /\ looked \in 0 .. Len(slots)
    /\ answer \in Nat
    /\ seen \in [{"tcp", "udp", "neither"} -> Nat]

InBatch == {slots[u] : u \in DOMAIN slots}

MbufsInOnePlace ==
    /\ free_mbufs \cup InBatch \cup leaked = HandlerMbufs
    /\ free_mbufs \cap InBatch = {} /\ free_mbufs \cap leaked = {}
    /\ InBatch \cap leaked = {}
    /\ \A u, v \in DOMAIN slots : slots[u] = slots[v] => u = v

(* The encrypting handler has answered all it has looked at but the others,  *)
(* which will be forgotten like those of earlier batches; the decrypting one *)
(* answers all from the start, and UDP packets again.                        *)
AnswerSoFar ==
    /\ handler = "aes_encrypt" =>
          answer <= looked /\ seen["neither"] = Cardinality(leaked) + (looked - answer)
    /\ handler # "aes_encrypt" => leaked = {}
    /\ slots = <<>> => answer = 0
    /\ slots # <<>> /\ handler \in {"monitor", "ids"} => answer = HandlerBatch
    /\ slots # <<>> /\ handler = "aes_decrypt" =>
          /\ answer >= HandlerBatch
          /\ answer > HandlerBatch <=> \E n \in 1 .. looked : HasUdpHdr(header[n])

HandlersInv == HandlerTypes /\ MbufsInOnePlace /\ AnswerSoFar /\ MonitorCounts

\* Whatever the number of mbufs, they are counted.
LEMMA MbufsAreFinite ==
    ASSUME HandlerTypes, MbufsInOnePlace
    PROVE  /\ IsFiniteSet(free_mbufs) /\ IsFiniteSet(leaked) /\ IsFiniteSet(InBatch)
           /\ Cardinality(free_mbufs) \in Nat /\ Cardinality(leaked) \in Nat
           /\ Cardinality(InBatch) = Len(slots)
<1>1. /\ free_mbufs \in SUBSET HandlerMbufs /\ leaked \in SUBSET HandlerMbufs
      /\ InBatch \in SUBSET HandlerMbufs
  BY DEF MbufsInOnePlace
<1>2. IsFiniteSet(free_mbufs) /\ IsFiniteSet(leaked) /\ IsFiniteSet(InBatch)
  BY <1>1, FS_Subset, HandlersAssumption
<1>3. Cardinality(free_mbufs) \in Nat /\ Cardinality(leaked) \in Nat
  BY <1>2, FS_CardinalityType
<1>4. Cardinality(InBatch) = Len(slots)
  <2>1. PICK n \in Nat : n = Len(slots) /\ DOMAIN slots = 1 .. n
    BY DEF HandlerTypes
  <2>2. slots \in Bijection(1 .. n, InBatch)
    <3>1. slots \in [1 .. n -> InBatch] /\ \A b \in InBatch : \E u \in 1 .. n : slots[u] = b
      BY <2>1 DEF InBatch, HandlerTypes
    <3>2. slots \in Injection(1 .. n, InBatch)
      BY <2>1, <3>1, Fun_IsInj DEF MbufsInOnePlace
    <3>3. slots \in Surjection(1 .. n, InBatch)
      BY <3>1, Fun_IsSurj
    <3> QED
      BY <3>2, <3>3 DEF Bijection
  <2>3. IsFiniteSet(1 .. n) /\ Cardinality(1 .. n) = n
    <3>1. 1 \in Int /\ n \in Int
      OBVIOUS
    <3>2. IsFiniteSet(1 .. n) /\ Cardinality(1 .. n) = IF 1 > n THEN 0 ELSE n - 1 + 1
      BY <3>1, FS_Interval
    <3> QED
      BY <3>2
  <2>4. ExistsBijection(1 .. n, InBatch)
    BY <2>2 DEF ExistsBijection
  <2> QED
    BY <2>1, <2>3, <2>4, FS_Bijection
<1> QED
  BY <1>2, <1>3, <1>4

LEMMA InvAnswers ==
    ASSUME HandlersInv
    PROVE  BatchesAreAnswered
<1> USE DEF HandlersInv
<1>1. LeaksAreTheOthers
  <2>1. ToSet(slots) = InBatch
    BY DEF InBatch, ToSet
  <2>2. /\ IsFiniteSet(free_mbufs) /\ IsFiniteSet(leaked) /\ IsFiniteSet(InBatch)
        /\ Cardinality(free_mbufs) \in Nat /\ Cardinality(leaked) \in Nat
        /\ Cardinality(InBatch) = Len(slots)
    BY MbufsAreFinite
  <2>3. /\ free_mbufs \cap InBatch = {} /\ (free_mbufs \cup InBatch) \cap leaked = {}
        /\ (free_mbufs \cup InBatch) \cup leaked = HandlerMbufs
    BY DEF MbufsInOnePlace
  <2>4. Cardinality({}) = 0
    BY FS_EmptySet
  <2>5. /\ IsFiniteSet(free_mbufs \cup InBatch)
        /\ Cardinality(free_mbufs \cup InBatch)
             = Cardinality(free_mbufs) + Cardinality(InBatch)
                 - Cardinality(free_mbufs \cap InBatch)
    BY <2>2, FS_Union
  <2>6. Cardinality((free_mbufs \cup InBatch) \cup leaked)
          = Cardinality(free_mbufs \cup InBatch) + Cardinality(leaked)
              - Cardinality((free_mbufs \cup InBatch) \cap leaked)
    BY <2>2, <2>5, FS_Union
  <2>7. Cardinality(free_mbufs) + Len(slots) + Cardinality(leaked)
          = Cardinality(HandlerMbufs)
    <3> DEFINE f == Cardinality(free_mbufs)
               b == Cardinality(InBatch)
               l == Cardinality(leaked)
    <3>1. Len(slots) \in Nat
      BY DEF HandlerTypes
    <3>2. f \in Nat /\ l \in Nat /\ b \in Nat /\ b = Len(slots)
      BY <2>2, <3>1
    <3>3. Cardinality(free_mbufs \cup InBatch) = f + b - 0
      BY <2>3, <2>4, <2>5
    <3>4. Cardinality(HandlerMbufs) = (f + b - 0) + l - 0
      BY <2>3, <2>4, <2>6, <3>3
    <3> HIDE DEF f, b, l
    <3>5. f + b + l = Cardinality(HandlerMbufs)
      BY <3>2, <3>4
    <3> QED
      BY <3>2, <3>5 DEF f, b, l
  <2>8. slots = <<>> =>
          Cardinality(leaked) = IF handler = "aes_encrypt" THEN seen["neither"] ELSE 0
    <3>1. slots = <<>> => Len(slots) = 0 /\ looked = 0 /\ answer = 0
      BY DEF HandlerTypes, AnswerSoFar
    <3>2. handler = "aes_encrypt" =>
            seen["neither"] = Cardinality(leaked) + (looked - answer)
      BY DEF AnswerSoFar
    <3>3. handler # "aes_encrypt" => Cardinality(leaked) = 0
      BY <2>4 DEF AnswerSoFar
    <3> QED
      BY <2>2, <3>1, <3>2, <3>3
  <2> QED
    BY <2>1, <2>3, <2>7, <2>8 DEF LeaksAreTheOthers
<1>2. AnswerFitsTheArray
  <2> SUFFICES ASSUME HandlerReturned
               PROVE  answer > HandlerBatch
                        <=> handler = "aes_decrypt" /\ \E n \in DOMAIN header :
                                                          HasUdpHdr(header[n])
    BY DEF AnswerFitsTheArray
  <2>1. /\ slots # <<>> /\ looked = HandlerBatch /\ DOMAIN header = 1 .. HandlerBatch
        /\ HandlerBatch \in Nat
    BY HandlersAssumption DEF HandlerReturned, HandlerTypes
  <2>2. answer \in Nat /\ handler \in {"monitor", "ids", "aes_encrypt", "aes_decrypt"}
    BY DEF HandlerTypes
  <2> QED
    BY <2>1, <2>2 DEF AnswerSoFar
<1> QED
  BY <1>1, <1>2 DEF BatchesAreAnswered

LEMMA InitHandlers == HandlersInit => HandlersInv
<1> SUFFICES ASSUME HandlersInit PROVE HandlersInv
  OBVIOUS
<1> USE DEF HandlersInit
<1>1. HandlerTypes
  BY DEF HandlerTypes
<1>2. MbufsInOnePlace
  BY DEF MbufsInOnePlace, InBatch
<1>3. AnswerSoFar
  BY FS_EmptySet DEF AnswerSoFar
<1>4. MonitorCounts
  BY DEF MonitorCounts
<1> QED
  BY <1>1, <1>2, <1>3, <1>4 DEF HandlersInv

\* Every mbuf of the batch received is in it once.
LEMMA BatchIsListed ==
    ASSUME NEW ms \in kSubset(HandlerBatch, free_mbufs), IsFiniteSet(free_mbufs)
    PROVE  LET s == SetToSeq(ms)
           IN  /\ s \in [1 .. HandlerBatch -> ms]
               /\ \A u, v \in 1 .. HandlerBatch : s[u] = s[v] => u = v
               /\ \A m \in ms : \E u \in 1 .. HandlerBatch : s[u] = m
<1> DEFINE s == SetToSeq(ms)
<1>1. ms \in SUBSET free_mbufs /\ Cardinality(ms) = HandlerBatch
  BY DEF kSubset
<1>2. IsFiniteSet(ms)
  BY <1>1, FS_Subset
<1>3. ExistsBijection(1 .. HandlerBatch, ms)
  BY <1>1, <1>2, FS_CardinalityType
<1>4. PICK f : f \in Bijection(1 .. HandlerBatch, ms)
  BY <1>3 DEF ExistsBijection
<1>5. f \in [1 .. HandlerBatch -> ms] /\ IsInjective(f)
  BY <1>4 DEF Bijection, Injection
<1>6. s \in [1 .. HandlerBatch -> ms] /\ IsInjective(s)
  BY <1>1, <1>5 DEF SetToSeq
<1> HIDE DEF s
<1>7. \A u, v \in 1 .. HandlerBatch : s[u] = s[v] => u = v
  BY <1>6 DEF IsInjective
<1>8. s \in Injection(1 .. HandlerBatch, ms)
  BY <1>6 DEF Injection
<1>9. Cardinality(1 .. HandlerBatch) = HandlerBatch
  <2>1. HandlerBatch \in Nat /\ 1 \in Int /\ HandlerBatch \in Int
    BY <1>1, <1>2, FS_CardinalityType
  <2>2. Cardinality(1 .. HandlerBatch)
          = IF 1 > HandlerBatch THEN 0 ELSE HandlerBatch - 1 + 1
    BY <2>1, FS_Interval
  <2> QED
    BY <2>1, <2>2
<1>10. s \in Surjection(1 .. HandlerBatch, ms)
  BY <1>1, <1>2, <1>8, <1>9, FS_Injection
<1> QED
  BY <1>6, <1>7, <1>10 DEF Surjection, s

LEMMA ReceiveHandlers ==
    ASSUME HandlersInv, HandlerReceive
    PROVE  HandlersInv'
<1> USE DEF HandlersInv
<1>1. IsFiniteSet(free_mbufs)
  BY MbufsAreFinite
<1>2. PICK ms \in kSubset(HandlerBatch, free_mbufs) :
         free_mbufs' = free_mbufs \ ms /\ slots' = SetToSeq(ms)
  BY DEF HandlerReceive
<1>3. /\ slots = <<>> /\ looked' = 0 /\ answer' = AnswerAtStart
      /\ header' \in [1 .. HandlerBatch -> Headers]
      /\ handler_fault = "none"
      /\ UNCHANGED <<handler, statVars, handler_fault, leaked, seen>>
  BY DEF HandlerReceive
<1>4. HandlerBatch \in Nat \ {0} /\ ms \in SUBSET free_mbufs
  BY HandlersAssumption, FS_CardinalityType DEF kSubset
<1>5. /\ slots' \in [1 .. HandlerBatch -> ms]
      /\ \A u, v \in 1 .. HandlerBatch : slots'[u] = slots'[v] => u = v
      /\ \A m \in ms : \E u \in 1 .. HandlerBatch : slots'[u] = m
  BY <1>1, <1>2, BatchIsListed
<1>6. DOMAIN slots' = 1 .. HandlerBatch /\ InBatch' = ms
  BY <1>5 DEF InBatch
<1>7. InBatch = {}
  BY <1>3 DEF InBatch
<1>8. MbufsInOnePlace'
  BY <1>2, <1>3, <1>4, <1>5, <1>6, <1>7 DEF MbufsInOnePlace
<1>9. slots' \in Seq(HandlerMbufs) /\ Len(slots') = HandlerBatch /\ slots' # <<>>
  <2>1. ms \subseteq HandlerMbufs
    BY <1>4 DEF MbufsInOnePlace
  <2> QED
    BY <1>4, <1>5, <2>1
<1>10. HandlerTypes'
  BY <1>3, <1>4, <1>9, HandlersAssumption DEF HandlerTypes, AnswerAtStart
<1>11. looked = 0 /\ answer = 0
  BY <1>3 DEF HandlerTypes, AnswerSoFar
<1>12. AnswerSoFar'
  BY <1>3, <1>4, <1>9, <1>11 DEF AnswerSoFar, AnswerAtStart, HandlerTypes
<1>13. MonitorCounts'
  BY <1>3 DEF MonitorCounts, statVars
<1> QED
  BY <1>8, <1>10, <1>12, <1>13

\* Looking at a packet moves no mbuf.
LEMMA LookHandlers ==
    ASSUME HandlersInv,
           Monitor \/ IdsHandle \/ AesEncryptHandle \/ AesDecryptHandle
    PROVE  HandlersInv'
<1> USE DEF HandlersInv
<1>1. /\ looked < Len(slots) /\ NextPacket /\ handler_fault = "none"
      /\ UNCHANGED <<handler, free_mbufs, slots, header, leaked, handler_fault>>
      /\ looked' = looked + 1 /\ seen' = [seen EXCEPT ![Kind(pkt)] = @ + 1]
  BY DEF Monitor, IdsHandle, AesEncryptHandle, AesDecryptHandle, Looks, NextPacket,
         batchVarsH
<1>2. /\ slots # <<>> /\ Len(slots) = HandlerBatch /\ HandlerBatch \in Nat \ {0}
      /\ looked \in Nat /\ looked + 1 \in 1 .. HandlerBatch
      /\ header \in [1 .. HandlerBatch -> Headers] /\ pkt \in Headers
      /\ answer \in Nat
  BY <1>1, HandlersAssumption DEF HandlerTypes, pkt
<1>3. Kind(pkt) \in {"tcp", "udp", "neither"}
  BY DEF Kind
<1>4. seen' \in [{"tcp", "udp", "neither"} -> Nat]
  BY <1>1, <1>3 DEF HandlerTypes
<1>5. MbufsInOnePlace'
  BY <1>1 DEF MbufsInOnePlace, InBatch
<1>6. \/ handler = "monitor" /\ Monitor
      \/ handler = "ids" /\ IdsHandle
      \/ handler = "aes_encrypt" /\ AesEncryptHandle
      \/ handler = "aes_decrypt" /\ AesDecryptHandle
  BY DEF Monitor, IdsHandle, AesEncryptHandle, AesDecryptHandle, Looks
<1>7. answer' \in Nat /\ answer' = answer +
         (IF \/ handler = "aes_encrypt" /\ Kind(pkt) # "neither"
             \/ handler = "aes_decrypt" /\ HasUdpHdr(pkt) THEN 1 ELSE 0)
  BY <1>2, <1>6 DEF Monitor, IdsHandle, AesEncryptHandle, AesDecryptHandle, Kind
<1>8. HandlerTypes'
  BY <1>1, <1>2, <1>4, <1>7 DEF HandlerTypes
<1>9. AnswerSoFar'
  <2>1. leaked' = leaked /\ Cardinality(leaked) \in Nat
    BY <1>1, MbufsAreFinite
  <2>2. ASSUME handler = "aes_encrypt"
        PROVE  answer' <= looked'
               /\ seen'["neither"] = Cardinality(leaked) + (looked' - answer')
    <3>1. answer <= looked /\ seen["neither"] = Cardinality(leaked) + (looked - answer)
      BY <2>2 DEF AnswerSoFar
    <3>2. seen["neither"] \in Nat
      BY DEF HandlerTypes
    <3>3. CASE Kind(pkt) = "neither"
      <4>1. seen'["neither"] = seen["neither"] + 1 /\ answer' = answer
        BY <1>1, <1>7, <2>2, <3>3 DEF HandlerTypes
      <4> QED
        BY <1>1, <1>2, <2>1, <3>1, <4>1
    <3>4. CASE Kind(pkt) # "neither"
      <4>1. seen'["neither"] = seen["neither"] /\ answer' = answer + 1
        BY <1>1, <1>7, <2>2, <3>4 DEF HandlerTypes
      <4> QED
        BY <1>1, <1>2, <2>1, <3>1, <4>1
    <3> QED
      BY <3>3, <3>4
  <2>3. ASSUME handler = "aes_decrypt"
        PROVE  /\ answer' >= HandlerBatch
               /\ answer' > HandlerBatch
                    <=> \E n \in 1 .. looked' : HasUdpHdr(header[n])
    <3>1. /\ answer >= HandlerBatch
          /\ answer > HandlerBatch <=> \E n \in 1 .. looked : HasUdpHdr(header[n])
      BY <1>2, <2>3 DEF AnswerSoFar
    <3>2. \A n : n \in 1 .. looked' <=> n \in 1 .. looked \/ n = looked + 1
      BY <1>1, <1>2
    <3>3. CASE HasUdpHdr(pkt)
      <4>1. answer' = answer + 1 /\ HasUdpHdr(header[looked + 1])
        BY <1>7, <2>3, <3>3 DEF pkt
      <4> QED
        BY <1>2, <3>1, <3>2, <4>1
    <3>4. CASE ~HasUdpHdr(pkt)
      <4>1. answer' = answer /\ ~HasUdpHdr(header[looked + 1])
        BY <1>2, <1>7, <2>3, <3>4 DEF pkt
      <4> QED
        BY <1>2, <3>1, <3>2, <4>1
    <3> QED
      BY <3>3, <3>4
  <2>4. ASSUME handler \in {"monitor", "ids"} PROVE answer' = HandlerBatch
    BY <1>2, <1>7, <2>4 DEF AnswerSoFar
  <2>5. handler # "aes_encrypt" => leaked = {}
    BY DEF AnswerSoFar
  <2> QED
    BY <1>1, <1>2, <2>2, <2>3, <2>4, <2>5 DEF AnswerSoFar
<1>10. MonitorCounts'
  <2>1. CASE handler = "monitor"
    <3>1. /\ Monitor /\ tcp_num = seen["tcp"] /\ udp_num = seen["udp"]
          /\ len_cnt = [n \in 0 .. LEN_CNT - 1 |-> 0]
      BY <1>6, <2>1 DEF MonitorCounts
    <3>2. tcp_num' = seen'["tcp"] /\ udp_num' = seen'["udp"]
      BY <1>1, <1>3, <3>1 DEF Monitor, Kind, HasTcpHdr, HasUdpHdr, HandlerTypes
    <3>3. len_cnt' = len_cnt
      <4>1. pkt.total_length \in Nat
        <5>1. pkt.total_length \in Lengths
          BY <1>2 DEF Headers
        <5>2. pkt.total_length \in U16Range
          BY <5>1, HandlersAssumption
        <5> QED
          BY <5>2 DEF U16Range
      <4>2. pkt.total_length % LEN_CNT \in 0 .. LEN_CNT - 1
        BY <4>1 DEF LEN_CNT
      <4>3. LengthCounted(0, pkt.total_length) = 0
        BY <4>1, ZeroIsCounted
      <4>4. PICK place \in 0 .. LEN_CNT - 1 : place = pkt.total_length % LEN_CNT
        BY <4>2
      <4>5. len_cnt' = [len_cnt EXCEPT ![place] =
                           LengthCounted(len_cnt[place], pkt.total_length)]
        BY <3>1, <4>4 DEF Monitor
      <4>6. len_cnt[place] = 0
        BY <3>1
      <4>7. len_cnt' = [len_cnt EXCEPT ![place] = 0]
        BY <4>3, <4>5, <4>6
      <4> QED
        BY <3>1, <4>7
    <3> QED
      BY <1>1, <3>1, <3>2, <3>3 DEF MonitorCounts
  <2>2. CASE handler # "monitor"
    BY <1>1, <1>6, <2>2
       DEF MonitorCounts, IdsHandle, AesEncryptHandle, AesDecryptHandle, statVars
  <2> QED
    BY <2>1, <2>2
<1> QED
  BY <1>5, <1>8, <1>9, <1>10

\* The front of the batch goes back to the pool, the rest is forgotten.
LEMMA SendHandlers ==
    ASSUME HandlersInv, SendFront
    PROVE  HandlersInv'
<1> USE DEF HandlersInv
<1>1. /\ slots # <<>> /\ looked = HandlerBatch /\ Len(slots) = HandlerBatch
      /\ HandlerBatch \in Nat \ {0} /\ answer \in 0 .. HandlerBatch
      /\ DOMAIN slots = 1 .. HandlerBatch
  BY HandlersAssumption DEF SendFront, HandlerReturned, HandlerTypes
<1> DEFINE sent == {slots[u] : u \in 1 .. answer}
           lost == {slots[u] : u \in answer + 1 .. HandlerBatch}
<1>2. /\ free_mbufs' = free_mbufs \cup sent /\ leaked' = leaked \cup lost
      /\ slots' = <<>> /\ looked' = 0 /\ answer' = 0
      /\ UNCHANGED <<handler, statVars, handler_fault, seen>>
  <2>1. slots \in Seq(HandlerMbufs)
    BY DEF HandlerTypes
  <2>2. ToSet(SubSeq(slots, 1, answer)) = sent
    <3>1. /\ DOMAIN SubSeq(slots, 1, answer) = 1 .. answer
          /\ \A u \in 1 .. answer : SubSeq(slots, 1, answer)[u] = slots[u]
      BY <1>1, <2>1
    <3> QED
      BY <3>1 DEF ToSet
  <2>3. ToSet(SubSeq(slots, answer + 1, HandlerBatch)) = lost
    <3> DEFINE rest == SubSeq(slots, answer + 1, HandlerBatch)
    <3>1. /\ DOMAIN rest = 1 .. HandlerBatch - answer
          /\ \A u \in 1 .. HandlerBatch - answer : rest[u] = slots[answer + u]
      BY <1>1, <2>1
    <3> HIDE DEF rest
    <3>2. \A u \in 1 .. HandlerBatch - answer : answer + u \in answer + 1 .. HandlerBatch
      BY <1>1
    <3>3. \A v \in answer + 1 .. HandlerBatch :
             v - answer \in 1 .. HandlerBatch - answer /\ answer + (v - answer) = v
      BY <1>1
    <3>4. ToSet(rest) = {rest[u] : u \in 1 .. HandlerBatch - answer}
      BY <3>1 DEF ToSet
    <3>5. ToSet(rest) \subseteq lost
      BY <3>1, <3>2, <3>4
    <3>6. ASSUME NEW v \in answer + 1 .. HandlerBatch
          PROVE  slots[v] \in ToSet(rest)
      BY <3>1, <3>3, <3>4
    <3> QED
      BY <3>5, <3>6 DEF rest
  <2> QED
    BY <2>2, <2>3 DEF SendFront
<1>3. /\ \A u, v \in 1 .. HandlerBatch : slots[u] = slots[v] => u = v
      /\ InBatch = {slots[u] : u \in 1 .. HandlerBatch}
  BY <1>1 DEF MbufsInOnePlace, InBatch
<1>4. InBatch = sent \cup lost /\ sent \cap lost = {}
  <2>1. \A u : u \in 1 .. HandlerBatch
                 <=> u \in 1 .. answer \/ u \in answer + 1 .. HandlerBatch
    BY <1>1
  <2>2. \A u \in 1 .. answer, v \in answer + 1 .. HandlerBatch : u # v
    BY <1>1
  <2> QED
    BY <1>3, <2>1, <2>2
<1>5. InBatch' = {}
  BY <1>2 DEF InBatch
<1>6. HandlerTypes'
  BY <1>2 DEF HandlerTypes
<1> HIDE DEF sent, lost
<1>7. MbufsInOnePlace'
  BY <1>2, <1>4, <1>5 DEF MbufsInOnePlace
<1>8. AnswerSoFar'
  <2>1. handler # "aes_encrypt" => leaked' = {}
    <3>1. ASSUME handler # "aes_encrypt" PROVE leaked' = {}
      <4>1. leaked = {} /\ answer = HandlerBatch
        BY <1>1, <3>1 DEF AnswerSoFar, HandlerTypes
      <4>2. lost = {}
        BY <1>1, <4>1 DEF lost
      <4> QED
        BY <1>2, <4>1, <4>2
    <3> QED
      BY <3>1
  <2>2. Cardinality(leaked') = Cardinality(leaked) + (HandlerBatch - answer)
    <3>1. IsFiniteSet(leaked) /\ IsFiniteSet(InBatch) /\ Cardinality(leaked) \in Nat
      BY MbufsAreFinite
    <3>2. leaked \cap lost = {} /\ lost \in SUBSET InBatch
      BY <1>4 DEF MbufsInOnePlace
    <3>3. Cardinality(lost) = HandlerBatch - answer /\ IsFiniteSet(lost)
      <4> DEFINE places == answer + 1 .. HandlerBatch
                 f == [u \in places |-> slots[u]]
      <4>1. f \in Bijection(places, lost)
        <5>1. f \in [places -> lost] /\ \A b \in lost : \E u \in places : f[u] = b
          BY DEF lost
        <5>2. \A u, v \in places : f[u] = f[v] => u = v
          BY <1>1, <1>3
        <5> QED
          BY <5>1, <5>2, Fun_IsBij
      <4>2. IsFiniteSet(places) /\ Cardinality(places) = HandlerBatch - answer
        <5>1. answer + 1 \in Int /\ HandlerBatch \in Int
          BY <1>1
        <5>2. /\ IsFiniteSet(places)
              /\ Cardinality(places) = IF answer + 1 > HandlerBatch THEN 0
                                       ELSE HandlerBatch - (answer + 1) + 1
          BY <5>1, FS_Interval
        <5> QED
          BY <1>1, <5>2
      <4>3. ExistsBijection(places, lost)
        BY <4>1 DEF ExistsBijection
      <4> QED
        BY <4>2, <4>3, FS_Bijection
    <3>4. Cardinality(leaked \cup lost)
            = Cardinality(leaked) + Cardinality(lost) - Cardinality(leaked \cap lost)
      BY <3>1, <3>3, FS_Union
    <3>5. Cardinality(leaked \cap lost) = 0
      BY <3>2, FS_EmptySet
    <3> QED
      BY <1>1, <1>2, <3>1, <3>3, <3>4, <3>5
  <2>3. Cardinality(leaked) \in Nat
    BY MbufsAreFinite
  <2>4. handler = "aes_encrypt" => seen["neither"] = Cardinality(leaked')
    <3>1. handler = "aes_encrypt" =>
            seen["neither"] = Cardinality(leaked) + (looked - answer)
      BY DEF AnswerSoFar
    <3> QED
      BY <1>1, <2>2, <3>1
  <2>5. Cardinality(leaked') \in Nat
    BY <1>1, <2>2, <2>3
  <2> QED
    BY <1>2, <2>1, <2>4, <2>5 DEF AnswerSoFar
<1>9. MonitorCounts'
  BY <1>1, <1>2 DEF MonitorCounts, statVars, SendFront, HandlerReturned
<1> QED
  BY <1>6, <1>7, <1>8, <1>9

LEMMA StepHandlers ==
    ASSUME HandlersInv, [HandlersNext]_handlerVars
    PROVE  HandlersInv'
<1> USE DEF HandlersInv
<1>1. ASSUME UNCHANGED <<handler, free_mbufs, slots, header, leaked, looked, answer, seen,
                         statVars>>,
             handler_fault' = "null header" => ~HasIpv4Hdr(pkt)
      PROVE  HandlersInv'
  <2>1. InBatch' = InBatch
    BY <1>1 DEF InBatch
  <2> QED
    BY <1>1, <2>1 DEF HandlerTypes, MbufsInOnePlace, AnswerSoFar, MonitorCounts, statVars,
                      pkt
<1>2. CASE MonitorNull
  BY <1>1, <1>2 DEF MonitorNull, Looks, batchVarsH
<1>3. CASE SendOutside
  BY <1>1, <1>3 DEF SendOutside, batchVarsH
<1>4. CASE HandlerStopped \/ UNCHANGED handlerVars
  <2>1. UNCHANGED handlerVars
    BY <1>4 DEF HandlerStopped
  <2>2. /\ UNCHANGED <<handler, free_mbufs, slots, header, leaked, looked, answer, seen,
                       statVars>>
        /\ handler_fault' = handler_fault
    BY <2>1 DEF handlerVars, statVars
  <2>3. handler_fault' = "null header" => ~HasIpv4Hdr(pkt)
    BY <2>2 DEF MonitorCounts
  <2> QED
    BY <1>1, <2>2, <2>3
<1> QED
  BY <1>2, <1>3, <1>4, ReceiveHandlers, LookHandlers, SendHandlers DEF HandlersNext

(* For any pool, batch and number of batches, and packets of any kind and    *)
(* length: every mbuf is free, in the batch or forgotten, and forgotten are  *)
(* as many as the encrypting handler found packets it does not answer; an    *)
(* answer is beyond the array if the decrypting handler found a UDP packet,  *)
(* and never otherwise; the monitor counts every packet as what it is, and   *)
(* its length counters stay 0.                                               *)
THEOREM BatchesStayAnswered == HandlersSpec => []BatchesAreAnswered
<1>1. HandlersInv /\ [HandlersNext]_handlerVars => HandlersInv'
  BY StepHandlers
<1> QED
  BY <1>1, InitHandlers, InvAnswers, PTL DEF HandlersSpec

-----------------------------------------------------------------------------
(* AesModes: counting in blocks *)

(* A set of numbers that has 0 and the successor of each of its members has  *)
(* them all.                                                                 *)
LEMMA EveryNumber ==
    ASSUME NEW G, 0 \in G, \A n \in Nat : n \in G => n + 1 \in G
    PROVE  Nat \subseteq G
<1> DEFINE Bad == Nat \ G
           R == OpToRel(<, Nat)
<1> SUFFICES ASSUME Bad # {} PROVE FALSE
  OBVIOUS
<1>1. IsWellFoundedOn(R, Nat)
  BY NatLessThanWellFounded
<1> HIDE DEF R
<1>2. PICK m \in Bad : \A l \in Bad : ~ (<<l, m>> \in R)
  BY <1>1, WFMin
<1>3. \A l \in Bad : ~ (l < m)
  BY <1>2 DEF R, OpToRel
<1>4. m \in Nat /\ m # 0
  BY <1>2
<1>5. m - 1 \in Nat /\ m - 1 < m /\ (m - 1) + 1 = m
  BY <1>4
<1>6. m - 1 \in G
  BY <1>3, <1>5
<1> QED
  BY <1>2, <1>5, <1>6

\* What a step makes of the values, beginning with the first.
IteratesTo(f, n, base, step) ==
    /\ DOMAIN f = 0 .. n /\ f[0] = base
    /\ \A k \in 1 .. n : f[k] = step[k - 1][f[k - 1]]

(* Every step can be repeated any number of times, and in one way.           *)
LEMMA IteratesExist ==
    ASSUME NEW S, NEW base \in S, NEW step, DOMAIN step = Nat,
           \A m \in Nat : \A b \in S : step[m][b] \in S, NEW n \in Nat
    PROVE  \E f \in [0 .. n -> S] : IteratesTo(f, n, base, step)
<1> DEFINE G == {m \in Nat : \E f \in [0 .. m -> S] : IteratesTo(f, m, base, step)}
<1>1. 0 \in G
  <2>1. [k \in 0 .. 0 |-> base] \in [0 .. 0 -> S]
    OBVIOUS
  <2>2. IteratesTo([k \in 0 .. 0 |-> base], 0, base, step)
    BY DEF IteratesTo
  <2> QED
    BY <2>1, <2>2
<1>2. ASSUME NEW m \in Nat, m \in G
      PROVE  m + 1 \in G
  <2>1. PICK f \in [0 .. m -> S] : IteratesTo(f, m, base, step)
    BY <1>2
  <2> DEFINE last == step[m][f[m]]
             g == [k \in 0 .. m + 1 |-> IF k = m + 1 THEN last ELSE f[k]]
  <2>2. last \in S
    OBVIOUS
  <2> HIDE DEF last
  <2>3. g \in [0 .. m + 1 -> S]
    BY <2>2
  <2>4. \A k \in 0 .. m : g[k] = f[k]
    OBVIOUS
  <2>5. g[m + 1] = last /\ DOMAIN g = 0 .. m + 1
    OBVIOUS
  <2> HIDE DEF g
  <2>6. ASSUME NEW k \in 1 .. m + 1
        PROVE  g[k] = step[k - 1][g[k - 1]]
    <3>1. CASE k = m + 1
      <4>1. g[k - 1] = f[m] /\ k - 1 = m
        BY <2>4, <3>1
      <4> QED
        BY <2>5, <3>1, <4>1 DEF last
    <3>2. CASE k # m + 1
      <4>1. k \in 1 .. m /\ k \in 0 .. m /\ k - 1 \in 0 .. m
        BY <3>2
      <4> QED
        BY <2>1, <2>4, <4>1 DEF IteratesTo
    <3> QED
      BY <3>1, <3>2
  <2>7. g[0] = base
    BY <2>1, <2>4 DEF IteratesTo
  <2> QED
    BY <2>3, <2>5, <2>6, <2>7 DEF IteratesTo
<1>3. Nat \subseteq G
  <2> HIDE DEF G
  <2> QED
    BY <1>1, <1>2, EveryNumber
<1> QED
  BY <1>3

LEMMA IteratesAgree ==
    ASSUME NEW base, NEW step, NEW m \in Nat, NEW n \in Nat, NEW f, NEW g,
           IteratesTo(f, m, base, step), IteratesTo(g, n, base, step),
           NEW k \in Nat, k <= m, k <= n
    PROVE  f[k] = g[k]
<1> DEFINE G == {l \in Nat : l <= k => f[l] = g[l]}
<1>1. 0 \in G
  BY DEF IteratesTo
<1>2. ASSUME NEW l \in Nat, l \in G
      PROVE  l + 1 \in G
  <2> SUFFICES ASSUME l + 1 <= k PROVE f[l + 1] = g[l + 1]
    OBVIOUS
  <2>1. l + 1 \in 1 .. m /\ l + 1 \in 1 .. n /\ (l + 1) - 1 = l /\ l <= k
    OBVIOUS
  <2> QED
    BY <1>2, <2>1 DEF IteratesTo
<1>3. Nat \subseteq G
  <2> HIDE DEF G
  <2> QED
    BY <1>1, <1>2, EveryNumber
<1> QED
  BY <1>3

(* All the values at once.                                                   *)
LEMMA IteratesForever ==
    ASSUME NEW S, NEW base \in S, NEW step, DOMAIN step = Nat,
           \A m \in Nat : \A b \in S : step[m][b] \in S
    PROVE  \E f : /\ f[0] = base
                  /\ \A k \in Nat : f[k] \in S /\ f[k + 1] = step[k][f[k]]
                  /\ f = [k \in Nat |-> f[k]]
<1> DEFINE part(n) == CHOOSE f \in [0 .. n -> S] : IteratesTo(f, n, base, step)
           all == [n \in Nat |-> part(n)[n]]
<1>1. ASSUME NEW n \in Nat
      PROVE  part(n) \in [0 .. n -> S] /\ IteratesTo(part(n), n, base, step)
  BY IteratesExist
<1> HIDE DEF part
<1>2. all \in [Nat -> S]
  BY <1>1
<1>3. all[0] = base
  BY <1>1 DEF IteratesTo
<1>4. ASSUME NEW k \in Nat
      PROVE  all[k + 1] = step[k][all[k]]
  <2>1. part(k + 1)[k] = part(k)[k]
    <3>1. k + 1 \in Nat /\ k <= k /\ k <= k + 1
      OBVIOUS
    <3>2. IteratesTo(part(k + 1), k + 1, base, step) /\ IteratesTo(part(k), k, base, step)
      BY <1>1
    <3> QED
      BY <3>1, <3>2, IteratesAgree
  <2>2. k + 1 \in Nat /\ k + 1 \in 1 .. k + 1 /\ (k + 1) - 1 = k
    OBVIOUS
  <2>3. part(k + 1)[k + 1] = step[k][part(k + 1)[k]]
    BY <1>1, <2>2 DEF IteratesTo
  <2> QED
    BY <2>1, <2>2, <2>3
<1> QED
  BY <1>2, <1>3, <1>4

(* A place in a message, and the block it is in.                             *)
LEMMA PlaceInBlock ==
    ASSUME NEW b \in Nat \ {0}, NEW a \in Nat, a % b = 0, NEW off \in 0 .. b - 1
    PROVE  (a + off) \div b = a \div b /\ (a + off) % b = off
<1>1. a \div b \in Nat /\ a = b * (a \div b) + (a % b)
  OBVIOUS
<1>2. ASSUME NEW q \in Nat
      PROVE  (b * q + off) \div b = q /\ (b * q + off) % b = off
  OBVIOUS
<1>3. a = b * (a \div b)
  BY <1>1
<1> QED
  BY <1>1, <1>2, <1>3

LEMMA NextBlockStarts ==
    ASSUME NEW b \in Nat \ {0}, NEW a \in Nat, a % b = 0
    PROVE  (a + b) % b = 0 /\ (a + b) \div b = (a \div b) + 1
<1> DEFINE q == a \div b
<1>1. q \in Nat /\ a = b * q + (a % b)
  OBVIOUS
<1>2. a = b * q
  BY <1>1
<1> HIDE DEF q
<1>3. q + 1 \in Nat /\ 0 \in 0 .. b - 1
  BY <1>1
<1>4. ASSUME NEW p \in Nat
      PROVE  (b * p + 0) \div b = p /\ (b * p + 0) % b = 0
  OBVIOUS
<1>5. b * (q + 1) + 0 = a + b
  BY <1>1, <1>2
<1>6. (a + b) \div b = q + 1 /\ (a + b) % b = 0
  BY <1>3, <1>4, <1>5
<1> QED
  BY <1>6 DEF q

LEMMA BlocksFit ==
    ASSUME NEW b \in Nat \ {0}, NEW a \in Nat, NEW c \in Nat, a % b = 0, c % b = 0, a < c
    PROVE  a + b <= c
<1> DEFINE p == a \div b
           q == c \div b
<1>1. p \in Nat /\ q \in Nat /\ a = b * p + (a % b) /\ c = b * q + (c % b)
  OBVIOUS
<1>2. a = b * p /\ c = b * q
  BY <1>1
<1> HIDE DEF p, q
<1>3. p < q
  <2> SUFFICES ASSUME q <= p PROVE FALSE
    BY <1>1
  <2>1. PICK d \in Nat : p = q + d
    BY <1>1
  <2>2. b * p = b * q + b * d /\ b * d \in Nat /\ b * q \in Nat
    BY <1>1, <2>1
  <2> QED
    BY <1>2, <2>2
<1>4. PICK d \in Nat : q = p + 1 + d
  BY <1>1, <1>3
<1>5. b * q = b * p + b + b * d /\ b * d \in Nat /\ b * p \in Nat
  BY <1>1, <1>4
<1> QED
  BY <1>2, <1>5

-----------------------------------------------------------------------------
(* AesModes: decryption undoes encryption *)

LEMMA IncrementedIv ==
    ASSUME NEW iv \in Block, NEW size
    PROVE  IncrementIv(iv, size) \in Block
<1>1. BYTES \in Nat \ {0}
  BY AesModesAssumption
<1>2. \A x \in Byte : (x + 1) % BYTES \in Byte
  BY <1>1 DEF Byte
<1>3. \A k \in 1 .. AES_BLOCK_SIZE : iv[k] \in Byte
  BY DEF Block
<1> QED
  BY <1>2, <1>3 DEF IncrementIv, Block

(* The counter block after each number of increments.                        *)
LEMMA CountersFollow ==
    ASSUME NEW iv \in Block
    PROVE  /\ CounterAfter(iv, 0) = iv
           /\ \A n \in Nat : /\ CounterAfter(iv, n) \in Block
                             /\ CounterAfter(iv, n + 1)
                                  = IncrementIv(CounterAfter(iv, n), AES_BLOCK_SIZE)
<1> DEFINE After(f) == f = [k \in Nat |-> IF k = 0 THEN iv
                                         ELSE IncrementIv(f[k - 1], AES_BLOCK_SIZE)]
           step == [k \in Nat |-> [b \in Block |-> IncrementIv(b, AES_BLOCK_SIZE)]]
<1>1. DOMAIN step = Nat /\ \A m \in Nat : \A b \in Block : step[m][b] \in Block
  BY IncrementedIv
<1>2. \A k \in Nat, b \in Block : step[k][b] = IncrementIv(b, AES_BLOCK_SIZE)
  OBVIOUS
<1> HIDE DEF step
<1>3. PICK g : /\ g[0] = iv /\ g = [k \in Nat |-> g[k]]
               /\ \A k \in Nat : g[k] \in Block /\ g[k + 1] = step[k][g[k]]
  BY <1>1, IteratesForever
<1>4. \A k \in Nat : g[k] = IF k = 0 THEN iv ELSE IncrementIv(g[k - 1], AES_BLOCK_SIZE)
  <2> TAKE k \in Nat
  <2>1. CASE k = 0
    BY <1>3, <2>1
  <2>2. CASE k # 0
    <3>1. k - 1 \in Nat /\ (k - 1) + 1 = k
      BY <2>2
    <3>2. g[k] = step[k - 1][g[k - 1]] /\ g[k - 1] \in Block
      BY <1>3, <3>1
    <3> QED
      BY <1>2, <2>2, <3>1, <3>2
  <2> QED
    BY <2>1, <2>2
<1>5. After(g)
  BY <1>3, <1>4
<1> DEFINE f == CHOOSE f : After(f)
<1>6. After(f)
  BY <1>5
<1>7. \A n : CounterAfter(iv, n) = f[n]
  BY DEF CounterAfter
<1> HIDE DEF f
<1>8. \A k \in Nat : f[k] = IF k = 0 THEN iv ELSE IncrementIv(f[k - 1], AES_BLOCK_SIZE)
  BY <1>6
<1> HIDE DEF After
<1>9. f[0] = iv
  BY <1>8
<1>10. \A n \in Nat : f[n + 1] = IncrementIv(f[n], AES_BLOCK_SIZE)
  <2> TAKE n \in Nat
  <2>1. n + 1 \in Nat /\ n + 1 # 0 /\ (n + 1) - 1 = n
    OBVIOUS
  <2> QED
    BY <1>8, <2>1
<1>11. Nat \subseteq {n \in Nat : f[n] \in Block}
  <2> DEFINE G == {n \in Nat : f[n] \in Block}
  <2>1. 0 \in G
    BY <1>9
  <2>2. \A n \in Nat : n \in G => n + 1 \in G
    BY <1>10, IncrementedIv
  <2> HIDE DEF G
  <2>3. Nat \subseteq G
    BY <2>1, <2>2, EveryNumber
  <2> QED
    BY <2>3 DEF G
<1> QED
  BY <1>7, <1>9, <1>10, <1>11

LEMMA ZerosAreBytes ==
    ASSUME NEW n \in Nat
    PROVE  /\ Zeros(n) \in Seq(Byte) /\ Len(Zeros(n)) = n
           /\ Zeros(n) \in [1 .. n -> Byte]
<1>1. 0 \in Byte
  BY AesModesAssumption DEF Byte
<1> QED
  BY <1>1 DEF Zeros

(* The bytes between two places of a message.                                *)
LEMMA BytesAre ==
    ASSUME NEW s \in Seq(Byte), NEW pos \in Nat, NEW n \in Nat, pos + n <= Len(s)
    PROVE  /\ Bytes(s, pos, n) \in Seq(Byte) /\ Len(Bytes(s, pos, n)) = n
           /\ Bytes(s, pos, n) \in [1 .. n -> Byte]
           /\ \A k \in 1 .. n : Bytes(s, pos, n)[k] = s[pos + k]
<1>1. Bytes(s, pos, n) = [k \in 1 .. n |-> s[pos + k]]
  BY DEF Bytes
<1>2. \A k \in 1 .. n : s[pos + k] \in Byte
  BY LenProperties
<1> QED
  BY <1>1, <1>2

(* What comes first and the bytes after it.                                  *)
LEMMA BytesGoOn ==
    ASSUME NEW s \in Seq(Byte), NEW pos \in Nat, NEW n \in Nat, pos + n <= Len(s)
    PROVE  SubSeq(s, 1, pos) \o Bytes(s, pos, n) = SubSeq(s, 1, pos + n)
<1>1. /\ SubSeq(s, 1, pos) \in Seq(Byte) /\ Len(SubSeq(s, 1, pos)) = pos
      /\ \A k \in 1 .. pos : SubSeq(s, 1, pos)[k] = s[k]
  OBVIOUS
<1>2. /\ SubSeq(s, 1, pos + n) \in Seq(Byte) /\ Len(SubSeq(s, 1, pos + n)) = pos + n
      /\ \A k \in 1 .. pos + n : SubSeq(s, 1, pos + n)[k] = s[k]
  OBVIOUS
<1>3. /\ Bytes(s, pos, n) \in Seq(Byte) /\ Len(Bytes(s, pos, n)) = n
      /\ \A k \in 1 .. n : Bytes(s, pos, n)[k] = s[pos + k]
  BY BytesAre
<1> DEFINE l == SubSeq(s, 1, pos)
           r == Bytes(s, pos, n)
           t == SubSeq(s, 1, pos + n)
<1> HIDE DEF l, r, t
<1>4. /\ l \o r \in Seq(Byte) /\ Len(l \o r) = pos + n
      /\ \A k \in 1 .. pos + n : (l \o r)[k] = IF k <= pos THEN l[k] ELSE r[k - pos]
  <2>1. l \in Seq(Byte) /\ r \in Seq(Byte) /\ Len(l) = pos /\ Len(r) = n
    BY <1>1, <1>3 DEF l, r
  <2> QED
    BY <2>1
<1>5. \A k \in 1 .. pos + n : (l \o r)[k] = t[k]
  <2> TAKE k \in 1 .. pos + n
  <2>1. CASE k <= pos
    BY <1>1, <1>2, <1>4, <2>1 DEF l, t
  <2>2. CASE ~ (k <= pos)
    <3>1. k - pos \in 1 .. n /\ pos + (k - pos) = k
      BY <2>2
    <3>2. r[k - pos] = s[k] /\ t[k] = s[k]
      BY <1>2, <1>3, <3>1 DEF r, t
    <3> QED
      BY <1>4, <2>2, <3>2
  <2> QED
    BY <2>1, <2>2
<1>6. l \o r = t
  BY <1>2, <1>4, <1>5 DEF t
<1> QED
  BY <1>6 DEF l, r, t

LEMMA XoredBytes ==
    ASSUME NEW n \in Nat, NEW x \in [1 .. n -> Byte], NEW m, m \in Nat, n <= m,
           NEW y \in [1 .. m -> Byte]
    PROVE  /\ XorBuf(y, x) \in [1 .. n -> Byte]
           /\ XorBuf(y, XorBuf(y, x)) = x
<1>1. \A k \in 1 .. n : y[k] \in Byte /\ x[k] \in Byte
  OBVIOUS
<1>2. \A k \in 1 .. n : /\ XorByte(y[k], x[k]) \in Byte
                        /\ XorByte(y[k], XorByte(y[k], x[k])) = x[k]
  BY <1>1, AesModesAssumption
<1>3. XorBuf(y, x) = [k \in 1 .. n |-> XorByte(y[k], x[k])]
  BY DEF XorBuf
<1>4. XorBuf(y, XorBuf(y, x)) = [k \in 1 .. n |-> XorByte(y[k], XorByte(y[k], x[k]))]
  BY <1>3 DEF XorBuf
<1>5. x = [k \in 1 .. n |-> x[k]]
  OBVIOUS
<1> QED
  BY <1>2, <1>3, <1>4, <1>5

LEMMA BlocksAre ==
    /\ AES_BLOCK_SIZE \in Nat \ {0}
    /\ \A b \in Block : AesEncrypt(b) \in Block /\ AesDecrypt(AesEncrypt(b)) = b
    /\ \A b \in Block, c \in Block : XorBuf(b, c) \in Block /\ XorBuf(b, XorBuf(b, c)) = c
<1>1. AES_BLOCK_SIZE \in Nat \ {0} /\ AES_BLOCK_SIZE <= AES_BLOCK_SIZE
  BY AesModesAssumption
<1>2. ASSUME NEW b \in Block, NEW c \in Block
      PROVE  XorBuf(b, c) \in Block /\ XorBuf(b, XorBuf(b, c)) = c
  BY <1>1, XoredBytes DEF Block
<1> QED
  BY <1>1, <1>2, AesModesAssumption

(* A MAC is a block.                                                         *)
LEMMA MacsAreBlocks ==
    ASSUME NEW in \in Seq(Byte)
    PROVE  CbcMac(in) \in Block
<1> DEFINE blocks == Len(in) \div AES_BLOCK_SIZE
           Macs(f) == f = [k \in 0 .. blocks |->
                             IF k = 0 THEN Zeros(AES_BLOCK_SIZE)
                             ELSE MacBlock(f[k - 1], in, k - 1)]
           step == [k \in Nat |-> [b \in Block |->
                                     IF k < blocks THEN MacBlock(b, in, k) ELSE b]]
<1>1. /\ AES_BLOCK_SIZE \in Nat \ {0} /\ Len(in) \in Nat /\ blocks \in Nat
      /\ AES_BLOCK_SIZE * blocks <= Len(in)
  <2>1. AES_BLOCK_SIZE \in Nat \ {0} /\ Len(in) \in Nat
    BY AesModesAssumption
  <2>2. /\ blocks \in Nat /\ Len(in) % AES_BLOCK_SIZE \in Nat
        /\ AES_BLOCK_SIZE * blocks \in Nat
        /\ Len(in) = AES_BLOCK_SIZE * blocks + (Len(in) % AES_BLOCK_SIZE)
    BY <2>1
  <2> QED
    BY <2>1, <2>2
<1> HIDE DEF blocks
<1>2. ASSUME NEW k \in Nat, k < blocks, NEW b \in Block
      PROVE  MacBlock(b, in, k) \in Block
  <2>1. AES_BLOCK_SIZE * k \in Nat /\ AES_BLOCK_SIZE * k + AES_BLOCK_SIZE <= Len(in)
    <3>1. PICK d \in Nat : blocks = k + 1 + d
      BY <1>1, <1>2
    <3>2. /\ AES_BLOCK_SIZE * d \in Nat /\ AES_BLOCK_SIZE * k \in Nat
          /\ AES_BLOCK_SIZE * blocks
               = AES_BLOCK_SIZE * k + AES_BLOCK_SIZE + AES_BLOCK_SIZE * d
      BY <1>1, <3>1
    <3> QED
      BY <1>1, <3>2
  <2>2. Bytes(in, AES_BLOCK_SIZE * k, AES_BLOCK_SIZE) \in Block
    BY <1>1, <2>1, BytesAre DEF Block
  <2> QED
    BY <2>2, BlocksAre DEF MacBlock
<1>3. DOMAIN step = Nat /\ \A m \in Nat : \A b \in Block : step[m][b] \in Block
  BY <1>2
<1>4. \A k \in Nat, b \in Block : k < blocks => step[k][b] = MacBlock(b, in, k)
  OBVIOUS
<1>5. Zeros(AES_BLOCK_SIZE) \in Block
  BY <1>1, ZerosAreBytes DEF Block
<1> HIDE DEF step
<1>6. PICK g : /\ g[0] = Zeros(AES_BLOCK_SIZE) /\ g = [k \in Nat |-> g[k]]
               /\ \A k \in Nat : g[k] \in Block /\ g[k + 1] = step[k][g[k]]
  BY <1>3, <1>5, IteratesForever
<1> DEFINE h == [k \in 0 .. blocks |-> g[k]]
<1>7. ASSUME NEW k \in 0 .. blocks
      PROVE  h[k] = IF k = 0 THEN Zeros(AES_BLOCK_SIZE) ELSE MacBlock(h[k - 1], in, k - 1)
  <2>1. CASE k = 0
    BY <1>6, <2>1
  <2>2. CASE k # 0
    <3>1. k - 1 \in Nat /\ (k - 1) + 1 = k /\ k - 1 < blocks /\ k - 1 \in 0 .. blocks
      BY <1>1, <2>2
    <3>2. g[k] = step[k - 1][g[k - 1]] /\ g[k - 1] \in Block
      BY <1>6, <3>1
    <3>3. h[k] = g[k] /\ h[k - 1] = g[k - 1]
      BY <3>1
    <3> QED
      BY <1>4, <2>2, <3>1, <3>2, <3>3
  <2> QED
    BY <2>1, <2>2
<1>8. Macs(h)
  BY <1>7
<1> HIDE DEF h
<1> DEFINE f == CHOOSE f : Macs(f)
<1>9. Macs(f)
  BY <1>8
<1>10. CbcMac(in) = f[blocks]
  BY DEF CbcMac, blocks
<1> HIDE DEF f
<1>11. \A k \in 0 .. blocks : f[k] = IF k = 0 THEN Zeros(AES_BLOCK_SIZE)
                                     ELSE MacBlock(f[k - 1], in, k - 1)
  BY <1>9
<1> HIDE DEF Macs
<1> DEFINE G == {k \in Nat : k <= blocks => f[k] \in Block}
<1>12. 0 \in G
  BY <1>1, <1>5, <1>11
<1>13. ASSUME NEW n \in Nat, n \in G
       PROVE  n + 1 \in G
  <2> SUFFICES ASSUME n + 1 <= blocks PROVE f[n + 1] \in Block
    OBVIOUS
  <2>1. n + 1 \in 0 .. blocks /\ n + 1 # 0 /\ (n + 1) - 1 = n /\ n < blocks
    BY <1>1
  <2>2. f[n] \in Block
    BY <1>1, <1>13, <2>1
  <2> QED
    BY <1>2, <1>11, <2>1, <2>2
<1>14. Nat \subseteq G
  <2> HIDE DEF G
  <2> QED
    BY <1>12, <1>13, EveryNumber
<1> QED
  BY <1>1, <1>10, <1>14

(* A whole CTR pass: it is its own inverse.                                  *)
LEMMA CtrIsUndone ==
    ASSUME NEW in \in Seq(Byte), NEW iv \in Block
    PROVE  /\ Ctr(in, iv) \in Seq(Byte) /\ Len(Ctr(in, iv)) = Len(in)
           /\ Ctr(Ctr(in, iv), iv) = in
<1> DEFINE key(k) == AesEncrypt(CounterAfter(iv, (k - 1) \div AES_BLOCK_SIZE))
                       [1 + ((k - 1) % AES_BLOCK_SIZE)]
<1>1. ASSUME NEW k \in 1 .. Len(in)
      PROVE  key(k) \in Byte
  <2>1. AES_BLOCK_SIZE \in Nat \ {0} /\ k - 1 \in Nat
    BY AesModesAssumption
  <2>2. (k - 1) \div AES_BLOCK_SIZE \in Nat
        /\ 1 + ((k - 1) % AES_BLOCK_SIZE) \in 1 .. AES_BLOCK_SIZE
    BY <2>1
  <2>3. AesEncrypt(CounterAfter(iv, (k - 1) \div AES_BLOCK_SIZE)) \in Block
    BY <2>2, BlocksAre, CountersFollow
  <2> QED
    BY <2>2, <2>3 DEF Block
<1>2. /\ Ctr(in, iv) = [k \in 1 .. Len(in) |-> XorByte(key(k), in[k])]
  BY DEF Ctr
<1> HIDE DEF key
<1>3. \A k \in 1 .. Len(in) : /\ XorByte(key(k), in[k]) \in Byte
                              /\ XorByte(key(k), XorByte(key(k), in[k])) = in[k]
  <2>1. \A k \in 1 .. Len(in) : in[k] \in Byte
    BY LenProperties
  <2> QED
    BY <1>1, <2>1, AesModesAssumption
<1>4. Ctr(in, iv) \in Seq(Byte) /\ Len(Ctr(in, iv)) = Len(in)
  BY <1>2, <1>3
<1>5. Ctr(Ctr(in, iv), iv)
        = [k \in 1 .. Len(in) |-> XorByte(key(k), XorByte(key(k), in[k]))]
  BY <1>2 DEF Ctr, key
<1>6. in = [k \in 1 .. Len(in) |-> in[k]]
  OBVIOUS
<1> QED
  BY <1>3, <1>4, <1>5, <1>6

\* A place where a block starts.
StartsBlock(pos) == pos % AES_BLOCK_SIZE = 0

LEMMA BlockStarts ==
    /\ StartsBlock(0) /\ 0 \div AES_BLOCK_SIZE = 0
    /\ \A pos \in Nat : StartsBlock(pos) =>
          /\ pos \div AES_BLOCK_SIZE \in Nat
          /\ StartsBlock(pos + AES_BLOCK_SIZE)
          /\ (pos + AES_BLOCK_SIZE) \div AES_BLOCK_SIZE = (pos \div AES_BLOCK_SIZE) + 1
          /\ \A off \in 0 .. AES_BLOCK_SIZE - 1 :
                /\ (pos + off) \div AES_BLOCK_SIZE = pos \div AES_BLOCK_SIZE
                /\ (pos + off) % AES_BLOCK_SIZE = off
          /\ \A l \in Nat : StartsBlock(l) /\ pos < l => pos + AES_BLOCK_SIZE <= l
<1> DEFINE b == AES_BLOCK_SIZE
<1>1. b \in Nat \ {0}
  BY AesModesAssumption
<1> HIDE DEF b
<1>2. 0 % b = 0 /\ 0 \div b = 0
  <2>1. 0 \in Nat /\ 0 \in 0 .. b - 1 /\ b * 0 + 0 = 0
    BY <1>1
  <2>2. ASSUME NEW q \in Nat, NEW off \in 0 .. b - 1
        PROVE  (b * q + off) \div b = q /\ (b * q + off) % b = off
    BY <1>1
  <2> QED
    BY <2>1, <2>2
<1>3. ASSUME NEW pos \in Nat, pos % b = 0
      PROVE  /\ pos \div b \in Nat
             /\ (pos + b) % b = 0 /\ (pos + b) \div b = (pos \div b) + 1
             /\ \A off \in 0 .. b - 1 :
                   (pos + off) \div b = pos \div b /\ (pos + off) % b = off
             /\ \A l \in Nat : l % b = 0 /\ pos < l => pos + b <= l
  <2>1. pos \div b \in Nat
    BY <1>1
  <2>2. (pos + b) % b = 0 /\ (pos + b) \div b = (pos \div b) + 1
    BY <1>1, <1>3, NextBlockStarts
  <2>3. ASSUME NEW off \in 0 .. b - 1
        PROVE  (pos + off) \div b = pos \div b /\ (pos + off) % b = off
    BY <1>1, <1>3, PlaceInBlock
  <2>4. ASSUME NEW l \in Nat, l % b = 0, pos < l
        PROVE  pos + b <= l
    BY <1>1, <1>3, <2>4, BlocksFit
  <2> QED
    BY <2>1, <2>2, <2>3, <2>4
<1> QED
  BY <1>2, <1>3 DEF b, StartsBlock

(* A pass of the loop does its part of the whole.                            *)
LEMMA CtrPiece ==
    ASSUME NEW in \in Seq(Byte), NEW iv \in Block, NEW pos \in Nat, StartsBlock(pos),
           NEW n \in 0 .. AES_BLOCK_SIZE, pos + n <= Len(in)
    PROVE  XorBuf(AesEncrypt(CounterAfter(iv, pos \div AES_BLOCK_SIZE)), Bytes(in, pos, n))
             = Bytes(Ctr(in, iv), pos, n)
<1>1. AES_BLOCK_SIZE \in Nat \ {0} /\ n \in Nat
  BY AesModesAssumption
<1>2. /\ Bytes(in, pos, n) \in [1 .. n -> Byte]
      /\ \A k \in 1 .. n : Bytes(in, pos, n)[k] = in[pos + k]
  BY <1>1, BytesAre
<1>3. /\ Bytes(Ctr(in, iv), pos, n) \in [1 .. n -> Byte]
      /\ \A k \in 1 .. n : Bytes(Ctr(in, iv), pos, n)[k] = Ctr(in, iv)[pos + k]
  BY <1>1, BytesAre, CtrIsUndone
<1> DEFINE stream == AesEncrypt(CounterAfter(iv, pos \div AES_BLOCK_SIZE))
<1>4. ASSUME NEW k \in 1 .. n
      PROVE  Ctr(in, iv)[pos + k] = XorByte(stream[k], in[pos + k])
  <2>1. /\ k - 1 \in 0 .. AES_BLOCK_SIZE - 1
        /\ (pos + k) - 1 = pos + (k - 1) /\ 1 + (k - 1) = k
    BY <1>1
  <2>2. /\ ((pos + k) - 1) \div AES_BLOCK_SIZE = pos \div AES_BLOCK_SIZE
        /\ ((pos + k) - 1) % AES_BLOCK_SIZE = k - 1
    BY <2>1, BlockStarts
  <2>3. pos + k \in DOMAIN in
    BY <1>1
  <2>4. Ctr(in, iv)[pos + k]
          = XorByte(AesEncrypt(CounterAfter(iv, ((pos + k) - 1) \div AES_BLOCK_SIZE))
                      [1 + (((pos + k) - 1) % AES_BLOCK_SIZE)], in[pos + k])
    BY <2>3 DEF Ctr
  <2> QED
    BY <2>1, <2>2, <2>4
<1> HIDE DEF stream
<1>5. XorBuf(stream, Bytes(in, pos, n)) = [k \in 1 .. n |-> XorByte(stream[k], in[pos + k])]
  BY <1>2 DEF XorBuf
<1>6. Bytes(Ctr(in, iv), pos, n) = [k \in 1 .. n |-> XorByte(stream[k], in[pos + k])]
  BY <1>3, <1>4
<1> QED
  BY <1>5, <1>6 DEF stream

(* Sequences put together.                                                   *)
LEMMA Joined ==
    ASSUME NEW S, NEW s \in Seq(S), NEW t \in Seq(S)
    PROVE  /\ s \o t \in Seq(S) /\ Len(s) \in Nat /\ Len(t) \in Nat
           /\ Len(s \o t) = Len(s) + Len(t)
           /\ \A k \in 1 .. Len(s) : (s \o t)[k] = s[k]
           /\ \A k \in 1 .. Len(t) : (s \o t)[Len(s) + k] = t[k]
OBVIOUS

LEMMA SequenceOf ==
    ASSUME NEW S, NEW s \in Seq(S)
    PROVE  s \in [1 .. Len(s) -> S]
OBVIOUS

LEMMA SameSequence ==
    ASSUME NEW S, NEW s \in Seq(S), NEW t \in Seq(S), Len(s) = Len(t),
           \A k \in 1 .. Len(s) : s[k] = t[k]
    PROVE  s = t
OBVIOUS

(* A sequence can be cut at a place, in one way.                             *)
LEMMA CutInTwo ==
    ASSUME NEW c \in Seq(Byte), NEW n \in Nat, NEW m \in Nat, n + m = Len(c)
    PROVE  /\ Bytes(c, 0, n) \in Seq(Byte) /\ Len(Bytes(c, 0, n)) = n
           /\ \A k \in 1 .. n : Bytes(c, 0, n)[k] = c[k]
           /\ c = Bytes(c, 0, n) \o Bytes(c, n, m)
<1>1. 0 \in Nat /\ 0 + n <= Len(c) /\ n + m <= Len(c)
  OBVIOUS
<1>2. /\ Bytes(c, 0, n) \in Seq(Byte) /\ Len(Bytes(c, 0, n)) = n
      /\ \A k \in 1 .. n : Bytes(c, 0, n)[k] = c[0 + k]
  BY <1>1, BytesAre
<1>3. \A k \in 1 .. n : 0 + k = k
  OBVIOUS
<1>4. c = Bytes(c, 0, n) \o Bytes(c, n, m)
  <2>1. SubSeq(c, 1, n) \o Bytes(c, n, m) = SubSeq(c, 1, n + m)
    BY <1>1, BytesGoOn
  <2>2. SubSeq(c, 1, n + m) = c
    OBVIOUS
  <2>3. Bytes(c, 0, n) = SubSeq(c, 1, n)
    BY DEF Bytes
  <2> QED
    BY <2>1, <2>2, <2>3
<1> QED
  BY <1>2, <1>3, <1>4

LEMMA CutOneWay ==
    ASSUME NEW S, NEW f \in Seq(S), NEW g \in Seq(S), NEW h \in Seq(S), NEW t \in Seq(S),
           f \o g = h \o t, Len(f) = Len(h)
    PROVE  f = h /\ g = t
<1> DEFINE Is(c, l, r) ==
             /\ Len(l) \in Nat /\ Len(r) \in Nat /\ Len(c) = Len(l) + Len(r)
             /\ \A k \in 1 .. Len(l) : c[k] = l[k]
             /\ \A k \in 1 .. Len(r) : c[Len(l) + k] = r[k]
<1>7. ASSUME NEW l \in Seq(S), NEW r \in Seq(S)
      PROVE  Is(l \o r, l, r)
  BY ONLY <1>7, Joined
<1>8. Is(f \o g, f, g) /\ Is(h \o t, h, t)
  <2> HIDE DEF Is
  <2> QED
    BY <1>7
<1>1. Is(f \o g, f, g) /\ Is(f \o g, h, t)
  <2> HIDE DEF Is
  <2> QED
    BY <1>8
<1>2. Len(g) = Len(t)
  BY <1>1
<1>3. \A k \in 1 .. Len(f) : f[k] = h[k]
  BY <1>1
<1>4. \A k \in 1 .. Len(g) : g[k] = t[k]
  BY <1>1, <1>2
<1>5. f = h
  BY <1>3, SameSequence
<1>6. g = t
  BY <1>2, <1>4, SameSequence
<1> QED
  BY <1>5, <1>6

(* What CCM builds its blocks of are bytes.                                  *)
LEMMA CcmBlocks ==
    ASSUME NEW nonce \in Seq(Byte), NEW mac_len \in Nat, ValidCcm(nonce, mac_len),
           NEW payload \in Seq(Byte), NEW assoc \in Seq(Byte)
    PROVE  /\ FirstCtrBlk(nonce) \in Block /\ PayloadCounter(nonce, mac_len) \in Block
           /\ Mac(payload, assoc, nonce, mac_len) \in Seq(Byte)
           /\ Len(Mac(payload, assoc, nonce, mac_len)) = mac_len
<1> DEFINE b == AES_BLOCK_SIZE
           l == Len(nonce)
<1>1. /\ b \in Nat /\ l \in Nat /\ l <= b - 3 /\ 0 < b
      /\ mac_len <= b
  BY AesModesAssumption DEF ValidCcm
<1>2. ASSUME NEW n \in Int
      PROVE  n % BYTES \in Byte
  <2>1. BYTES \in Nat \ {0}
    BY AesModesAssumption
  <2>2. n % BYTES \in 0 .. BYTES - 1
    BY <2>1
  <2> QED
    BY <2>2 DEF Byte
<1>3. ASSUME NEW n \in Nat
      PROVE  TwoBytes(n) \in Seq(Byte) /\ Len(TwoBytes(n)) = 2
  <2>1. n \div BYTES \in Int
    BY AesModesAssumption
  <2>2. (n \div BYTES) % BYTES \in Byte /\ n % BYTES \in Byte
    BY <1>2, <2>1
  <2> QED
    BY <2>2 DEF TwoBytes
<1>4. FirstCtrBlk(nonce) \in Block
  <2> DEFINE first == ((AES_BLOCK_SIZE - 2 - Len(nonce)) % 8) % BYTES
             rest == Zeros(AES_BLOCK_SIZE - 1 - Len(nonce))
  <2>1. first \in Byte
    <3>1. (AES_BLOCK_SIZE - 2 - Len(nonce)) % 8 \in Int
      BY <1>1
    <3> QED
      BY <1>2, <3>1
  <2>2. rest \in Seq(Byte) /\ Len(rest) = b - 1 - l
    <3>1. AES_BLOCK_SIZE - 1 - Len(nonce) \in Nat
      BY <1>1
    <3> QED
      BY <3>1, ZerosAreBytes
  <2>3. FirstCtrBlk(nonce) = <<first>> \o nonce \o rest
    BY DEF FirstCtrBlk
  <2> HIDE DEF first, rest, b
  <2>4. <<first>> \in Seq(Byte) /\ Len(<<first>>) = 1
    BY <2>1
  <2> DEFINE front == <<first>> \o nonce
  <2>5. front \in Seq(Byte) /\ Len(front) = 1 + l
    BY <2>4, Joined
  <2> HIDE DEF front, l
  <2>6. front \o rest \in Seq(Byte) /\ Len(front \o rest) = 1 + l + (b - 1 - l)
    BY <2>2, <2>5, Joined
  <2>7. Len(front \o rest) = b
    BY <1>1, <2>6
  <2>8. front \o rest \in [1 .. b -> Byte]
    BY <2>6, <2>7, SequenceOf
  <2> QED
    BY <2>3, <2>8 DEF Block, b, front
<1>5. PayloadCounter(nonce, mac_len) \in Block
  BY <1>4, IncrementedIv DEF PayloadCounter
<1>6. Formatted(payload, assoc, nonce, mac_len) \in Seq(Byte)
  <2>1. FirstFormatBlk(Len(assoc), Len(payload), mac_len, nonce) \in Seq(Byte)
    <3> DEFINE flags == 8 * (((mac_len - 2) \div 2) % 8)
                          + ((AES_BLOCK_SIZE - 2 - Len(nonce)) % 8)
                          + (IF Len(assoc) > 0 THEN 64 ELSE 0)
               first == flags % BYTES
               rest == Zeros(AES_BLOCK_SIZE - 3 - Len(nonce))
               last == TwoBytes(Len(payload))
    <3>1. flags \in Int
      BY <1>1
    <3> HIDE DEF flags
    <3>2. first \in Byte
      BY <1>2, <3>1
    <3>3. rest \in Seq(Byte)
      BY <1>1, ZerosAreBytes
    <3>4. last \in Seq(Byte)
      BY <1>3
    <3>5. FirstFormatBlk(Len(assoc), Len(payload), mac_len, nonce)
            = <<first>> \o nonce \o rest \o last
      BY DEF FirstFormatBlk, flags
    <3> HIDE DEF first, rest, last
    <3>6. <<first>> \in Seq(Byte)
      BY <3>2
    <3> QED
      BY <3>3, <3>4, <3>5, <3>6
  <2>2. FormatAssocData(assoc) \in Seq(Byte)
    <3> DEFINE data == TwoBytes(Len(assoc)) \o assoc
               pad == AES_BLOCK_SIZE - (Len(data) % AES_BLOCK_SIZE)
    <3>1. data \in Seq(Byte)
      BY <1>3
    <3> HIDE DEF data
    <3>2. pad \in Nat
      <4>1. Len(data) \in Nat
        BY <3>1
      <4> QED
        BY <1>1, <4>1
    <3>3. FormatAssocData(assoc) = data \o Zeros(pad)
      BY DEF FormatAssocData, data
    <3> HIDE DEF pad
    <3> QED
      BY <3>1, <3>2, <3>3, ZerosAreBytes
  <2>3. FormatPayloadData(payload) \in Seq(Byte)
    <3> DEFINE pad == (AES_BLOCK_SIZE - (Len(payload) % AES_BLOCK_SIZE)) % AES_BLOCK_SIZE
    <3>1. pad \in Nat
      <4>1. AES_BLOCK_SIZE - (Len(payload) % AES_BLOCK_SIZE) \in Int
        BY <1>1
      <4> QED
        BY <1>1, <4>1
    <3>2. FormatPayloadData(payload) = payload \o Zeros(pad)
      BY DEF FormatPayloadData
    <3> HIDE DEF pad
    <3> QED
      BY <3>1, <3>2, ZerosAreBytes
  <2> QED
    BY <2>1, <2>2, <2>3 DEF Formatted
<1>7. Mac(payload, assoc, nonce, mac_len) \in Seq(Byte)
      /\ Len(Mac(payload, assoc, nonce, mac_len)) = mac_len
  <2> DEFINE mac == CbcMac(Formatted(payload, assoc, nonce, mac_len))
  <2>1. mac \in [1 .. b -> Byte]
    BY <1>6, MacsAreBlocks DEF Block
  <2>2. Mac(payload, assoc, nonce, mac_len) = SubSeq(mac, 1, mac_len)
    BY DEF Mac
  <2> HIDE DEF mac, b
  <2>3. SubSeq(mac, 1, mac_len) = [k \in 1 .. mac_len |-> mac[k]]
    OBVIOUS
  <2>4. \A k \in 1 .. mac_len : mac[k] \in Byte
    BY <1>1, <2>1
  <2> QED
    BY <2>2, <2>3, <2>4
<1> QED
  BY <1>4, <1>5, <1>7

(* What is accepted is the encryption of the answer, and the encryption of a *)
(* message is accepted.                                                      *)
LEMMA CcmIsUndone ==
    ASSUME NEW nonce \in Seq(Byte), NEW mac_len \in Nat, ValidCcm(nonce, mac_len),
           NEW assoc \in Seq(Byte), NEW c \in Seq(Byte), NEW n \in Nat,
           n + mac_len = Len(c),
           NEW payload, payload = Ctr(Bytes(c, 0, n), PayloadCounter(nonce, mac_len)),
           NEW mac, mac = Ctr(Bytes(c, n, mac_len), FirstCtrBlk(nonce))
    PROVE  /\ payload \in Seq(Byte) /\ Len(payload) = n
           /\ Mac(payload, assoc, nonce, mac_len) = mac
                => c = CcmOutput(payload, assoc, nonce, mac_len)
           /\ \A p \in Seq(Byte) : c = CcmOutput(p, assoc, nonce, mac_len)
                => Mac(payload, assoc, nonce, mac_len) = mac /\ payload = p
<1> DEFINE pc == PayloadCounter(nonce, mac_len)
           fc == FirstCtrBlk(nonce)
           head == Bytes(c, 0, n)
           tail == Bytes(c, n, mac_len)
<1>1. pc \in Block /\ fc \in Block
  BY CcmBlocks
<1>3. /\ head \in Seq(Byte) /\ Len(head) = n
      /\ tail \in Seq(Byte) /\ Len(tail) = mac_len
      /\ c = head \o tail
      /\ \A f \in Seq(Byte), g \in Seq(Byte) :
            c = f \o g /\ Len(f) = n => head = f /\ tail = g
  <2>1. c \in Seq(Byte) /\ n \in Nat /\ mac_len \in Nat /\ n + mac_len <= Len(c)
    OBVIOUS
  <2>2. head \in Seq(Byte) /\ Len(head) = n /\ c = head \o tail
    BY CutInTwo
  <2>3. tail \in Seq(Byte) /\ Len(tail) = mac_len
    BY ONLY <2>1, BytesAre
  <2> HIDE DEF head, tail
  <2>4. ASSUME NEW f \in Seq(Byte), NEW g \in Seq(Byte), c = f \o g, Len(f) = n
        PROVE  head = f /\ tail = g
    BY <2>2, <2>3, <2>4, CutOneWay
  <2> QED
    BY <2>2, <2>3, <2>4
<1>5. payload = Ctr(head, pc) /\ mac = Ctr(tail, fc)
  OBVIOUS
<1>6. \A p : CcmOutput(p, assoc, nonce, mac_len)
               = Ctr(p, pc) \o Ctr(Mac(p, assoc, nonce, mac_len), fc)
  BY DEF CcmOutput
<1> HIDE DEF pc, fc, head, tail
<1>7. payload \in Seq(Byte) /\ Len(payload) = n
  BY <1>1, <1>3, <1>5, CtrIsUndone
<1>8. ASSUME Mac(payload, assoc, nonce, mac_len) = mac
      PROVE  c = CcmOutput(payload, assoc, nonce, mac_len)
  <2>1. Ctr(payload, pc) = head
    BY <1>1, <1>3, <1>5, CtrIsUndone
  <2>2. Ctr(Ctr(tail, fc), fc) = tail
    BY <1>1, <1>3, CtrIsUndone
  <2> QED
    BY <1>3, <1>5, <1>6, <1>8, <2>1, <2>2
<1>9. ASSUME NEW p \in Seq(Byte), c = CcmOutput(p, assoc, nonce, mac_len)
      PROVE  Mac(payload, assoc, nonce, mac_len) = mac /\ payload = p
  <2> DEFINE own == Mac(p, assoc, nonce, mac_len)
             first == Ctr(p, pc)
             second == Ctr(own, fc)
  <2>1. own \in Seq(Byte) /\ Len(own) = mac_len
    BY CcmBlocks
  <2>2. /\ first \in Seq(Byte) /\ Len(first) = Len(p) /\ Ctr(first, pc) = p
        /\ second \in Seq(Byte) /\ Len(second) = mac_len /\ Ctr(second, fc) = own
    BY <1>1, <2>1, CtrIsUndone
  <2>3. c = first \o second
    BY <1>6, <1>9
  <2> HIDE DEF own, first, second
  <2>4. Len(first) = n
    <3>1. Len(c) = Len(first) + Len(second) /\ Len(first) \in Nat
      BY <2>2, <2>3, Joined
    <3> QED
      BY <2>2, <3>1
  <2>5. head = first /\ tail = second
    BY <1>3, <2>2, <2>3, <2>4
  <2> QED
    BY <1>5, <2>2, <2>5 DEF own
<1> QED
  BY <1>7, <1>8, <1>9

(* What comes first keeps its bytes when more is put out.                    *)
LEMMA BytesKept ==
    ASSUME NEW c \in Seq(Byte), NEW d \in Seq(Byte)
    PROVE  /\ \A pos \in Nat, n \in Nat :
                 pos + n <= Len(c) => Bytes(c \o d, pos, n) = Bytes(c, pos, n)
           /\ Bytes(c \o d, Len(c), Len(d)) = d
<1> DEFINE e == c \o d
<1>1. /\ e \in Seq(Byte) /\ Len(c) \in Nat /\ Len(d) \in Nat
      /\ Len(e) = Len(c) + Len(d)
      /\ \A k \in 1 .. Len(c) : e[k] = c[k]
      /\ \A k \in 1 .. Len(d) : e[Len(c) + k] = d[k]
  BY Joined
<1> HIDE DEF e
<1>2. ASSUME NEW pos \in Nat, NEW n \in Nat, pos + n <= Len(c)
      PROVE  Bytes(e, pos, n) = Bytes(c, pos, n)
  <2>1. pos + n <= Len(e)
    BY <1>1, <1>2
  <2>2. /\ Bytes(e, pos, n) \in Seq(Byte) /\ Len(Bytes(e, pos, n)) = n
        /\ \A k \in 1 .. n : Bytes(e, pos, n)[k] = e[pos + k]
    BY <1>1, <2>1, BytesAre
  <2>3. /\ Bytes(c, pos, n) \in Seq(Byte) /\ Len(Bytes(c, pos, n)) = n
        /\ \A k \in 1 .. n : Bytes(c, pos, n)[k] = c[pos + k]
    BY <1>2, BytesAre
  <2>4. \A k \in 1 .. n : pos + k \in 1 .. Len(c)
    BY <1>1, <1>2
  <2>5. \A k \in 1 .. n : Bytes(e, pos, n)[k] = Bytes(c, pos, n)[k]
    BY <1>1, <2>2, <2>3, <2>4
  <2> QED
    BY <2>2, <2>3, <2>5, SameSequence
<1>3. ASSUME NEW pos \in Nat, NEW n \in Nat, pos = Len(c), n = Len(d)
      PROVE  Bytes(e, pos, n) = d
  <2>1. pos \in Nat /\ n \in Nat /\ pos + n <= Len(e) /\ e \in Seq(Byte)
    BY <1>1, <1>3
  <2>2. /\ Bytes(e, pos, n) \in Seq(Byte) /\ Len(Bytes(e, pos, n)) = n
        /\ \A k \in 1 .. n : Bytes(e, pos, n)[k] = e[pos + k]
    BY ONLY <2>1, BytesAre
  <2>3. \A k \in 1 .. n : Bytes(e, pos, n)[k] = d[k]
    BY <1>1, <1>3, <2>2
  <2> QED
    BY <1>3, <2>2, <2>3, SameSequence
<1> QED
  BY <1>1, <1>2, <1>3 DEF e

\* The block that is mixed with the one at p, and a ciphertext whose blocks
\* before n are each the encryption of such a mixture.
Before(iv, c, p) == IF p = 0 THEN iv ELSE Bytes(c, p - AES_BLOCK_SIZE, AES_BLOCK_SIZE)

LinkOf(in, iv, c, p) == AesEncrypt(XorBuf(Before(iv, c, p), Bytes(in, p, AES_BLOCK_SIZE)))

Chained(in, iv, c, n) ==
    \A p \in 0 .. n - 1 :
        StartsBlock(p) => Bytes(c, p, AES_BLOCK_SIZE) = LinkOf(in, iv, c, p)

(* The block before a place is there.                                        *)
LEMMA BlockBefore ==
    ASSUME NEW iv \in Block, NEW c \in Seq(Byte), NEW p \in Nat, StartsBlock(p), p <= Len(c)
    PROVE  /\ p # 0 => p - AES_BLOCK_SIZE \in Nat
           /\ Before(iv, c, p) \in Block
           /\ \A d \in Seq(Byte) : Before(iv, c \o d, p) = Before(iv, c, p)
<1>1. AES_BLOCK_SIZE \in Nat \ {0} /\ Len(c) \in Nat
  BY BlocksAre
<1>2. CASE p = 0
  BY <1>2 DEF Before
<1>3. CASE p # 0
  <2>1. AES_BLOCK_SIZE <= p
    <3>1. 0 \in Nat /\ StartsBlock(0) /\ 0 < p
      BY <1>3, BlockStarts
    <3>2. 0 + AES_BLOCK_SIZE <= p
      BY <3>1, BlockStarts
    <3> QED
      BY <1>1, <3>2
  <2> DEFINE q == p - AES_BLOCK_SIZE
  <2>2. q \in Nat /\ q + AES_BLOCK_SIZE <= Len(c)
    BY <1>1, <2>1
  <2>3. \A d : Before(iv, d, p) = Bytes(d, q, AES_BLOCK_SIZE)
    BY <1>3 DEF Before
  <2> HIDE DEF q
  <2>4. Bytes(c, q, AES_BLOCK_SIZE) \in Block
    BY <1>1, <2>2, BytesAre DEF Block
  <2>5. \A d \in Seq(Byte) : Bytes(c \o d, q, AES_BLOCK_SIZE) = Bytes(c, q, AES_BLOCK_SIZE)
    BY <1>1, <2>2, BytesKept
  <2> QED
    BY <2>2, <2>3, <2>4, <2>5 DEF q
<1> QED
  BY <1>2, <1>3

(* A pass of the encryption makes the chain a block longer.                  *)
LEMMA ChainGrows ==
    ASSUME NEW in \in Seq(Byte), NEW iv \in Block, NEW c \in Seq(Byte), NEW pos \in Nat,
           Len(c) = pos, StartsBlock(pos), pos + AES_BLOCK_SIZE <= Len(in),
           Chained(in, iv, c, pos),
           NEW blk, blk = LinkOf(in, iv, c, pos)
    PROVE  /\ blk \in Block /\ c \o blk \in Seq(Byte)
           /\ Len(c \o blk) = pos + AES_BLOCK_SIZE
           /\ Chained(in, iv, c \o blk, pos + AES_BLOCK_SIZE)
           /\ Before(iv, c \o blk, pos + AES_BLOCK_SIZE) = blk
<1> DEFINE b == AES_BLOCK_SIZE
<1>1. b \in Nat \ {0} /\ pos <= Len(c)
  BY BlocksAre
<1>2. Bytes(in, pos, b) \in Block
  BY <1>1, BytesAre DEF Block
<1>3. /\ Before(iv, c, pos) \in Block
      /\ \A d \in Seq(Byte) : Before(iv, c \o d, pos) = Before(iv, c, pos)
  BY <1>1, BlockBefore
<1>4. blk \in Block
  BY <1>2, <1>3, BlocksAre DEF LinkOf
<1>5. blk \in Seq(Byte) /\ Len(blk) = b
  BY <1>1, <1>4 DEF Block
<1>6. c \o blk \in Seq(Byte) /\ Len(c \o blk) = pos + b
  BY <1>5, Joined
<1>7. Bytes(c \o blk, pos, b) = blk
  BY <1>5, BytesKept
<1>8. Before(iv, c \o blk, pos + b) = blk
  <2>1. pos + b # 0 /\ (pos + b) - b = pos
    BY <1>1
  <2> QED
    BY <1>7, <2>1 DEF Before
<1>9. ASSUME NEW p \in 0 .. (pos + b) - 1, StartsBlock(p)
      PROVE  Bytes(c \o blk, p, b) = LinkOf(in, iv, c \o blk, p)
  <2>1. CASE p < pos
    <3>1. p \in Nat /\ p \in 0 .. pos - 1 /\ p + b <= Len(c) /\ p <= Len(c)
      <4>1. p \in Nat /\ p \in 0 .. pos - 1 /\ p <= Len(c)
        BY <1>1, <2>1
      <4>2. p + b <= pos
        BY <1>9, <2>1, <4>1, BlockStarts
      <4> QED
        BY <4>1, <4>2
    <3>2. Bytes(c, p, b) = LinkOf(in, iv, c, p)
      BY <1>9, <3>1 DEF Chained
    <3>3. Bytes(c \o blk, p, b) = Bytes(c, p, b)
      BY <1>1, <1>5, <3>1, BytesKept
    <3>4. Before(iv, c \o blk, p) = Before(iv, c, p)
      BY <1>5, <1>9, <3>1, BlockBefore
    <3> QED
      BY <3>2, <3>3, <3>4 DEF LinkOf
  <2>2. CASE ~ (p < pos)
    <3>1. p = pos
      <4>1. p \in Nat /\ pos <= p /\ p < pos + b
        BY <1>1, <2>2
      <4> SUFFICES ASSUME pos < p PROVE FALSE
        BY <4>1
      <4>2. pos + b <= p
        BY <1>9, <4>1, BlockStarts
      <4> QED
        BY <1>1, <4>1, <4>2
    <3>2. Before(iv, c \o blk, pos) = Before(iv, c, pos)
      BY <1>3, <1>5
    <3> QED
      BY <1>7, <3>1, <3>2 DEF LinkOf
  <2> QED
    BY <2>1, <2>2
<1> QED
  BY <1>4, <1>6, <1>8, <1>9 DEF Chained

(* A pass of the decryption gets its block back.                             *)
LEMMA ChainIsUndone ==
    ASSUME NEW in \in Seq(Byte), NEW iv \in Block, NEW c \in Seq(Byte),
           Len(c) = Len(in), StartsBlock(Len(in)), Chained(in, iv, c, Len(c)),
           NEW pos \in Nat, StartsBlock(pos), pos < Len(c)
    PROVE  /\ pos + AES_BLOCK_SIZE <= Len(in)
           /\ Bytes(c, pos, AES_BLOCK_SIZE) \in Block
           /\ XorBuf(Before(iv, c, pos), AesDecrypt(Bytes(c, pos, AES_BLOCK_SIZE)))
                = Bytes(in, pos, AES_BLOCK_SIZE)
           /\ Before(iv, c, pos + AES_BLOCK_SIZE) = Bytes(c, pos, AES_BLOCK_SIZE)
<1> DEFINE b == AES_BLOCK_SIZE
<1>1. b \in Nat \ {0} /\ Len(in) \in Nat
  BY BlocksAre
<1>2. pos + b <= Len(in)
  BY <1>1, BlockStarts
<1>3. Bytes(c, pos, b) \in Block
  BY <1>1, <1>2, BytesAre DEF Block
<1>4. Bytes(in, pos, b) \in Block
  BY <1>1, <1>2, BytesAre DEF Block
<1>5. Before(iv, c, pos) \in Block
  BY <1>1, BlockBefore
<1>6. Bytes(c, pos, b) = LinkOf(in, iv, c, pos)
  <2>1. pos \in 0 .. Len(c) - 1
    BY <1>1
  <2> QED
    BY <2>1 DEF Chained
<1>7. AesDecrypt(Bytes(c, pos, b)) = XorBuf(Before(iv, c, pos), Bytes(in, pos, b))
  BY <1>4, <1>5, <1>6, BlocksAre DEF LinkOf
<1>8. XorBuf(Before(iv, c, pos), AesDecrypt(Bytes(c, pos, b))) = Bytes(in, pos, b)
  BY <1>4, <1>5, <1>7, BlocksAre
<1>9. Before(iv, c, pos + b) = Bytes(c, pos, b)
  <2>1. pos + b # 0 /\ (pos + b) - b = pos
    BY <1>1
  <2> QED
    BY <2>1 DEF Before
<1> QED
  BY <1>2, <1>3, <1>8, <1>9

-----------------------------------------------------------------------------
(* AesModes: what holds between the passes *)

ModesTypes ==
    /\ stage \in {"idle", "encrypt", "decrypt", "done"}
    /\ call.mode \in {"none", "cbc", "ctr", "ccm"}
    /\ call.mode = "none" <=> stage = "idle"
    /\ idx \in Nat /\ iv_buf \in Block
    /\ cipher \in Seq(Byte) /\ plain \in Seq(Byte)
    /\ stage \in {"idle", "encrypt"} => plain = <<>>
    /\ stage = "idle" => cipher = <<>>

\* The arguments of the call.
CallTypes ==
    /\ call.mode \in {"cbc", "ctr"} => call.in \in Seq(Byte) /\ call.iv \in Block
    /\ call.mode = "ccm" =>
          /\ call.in \in Seq(Byte) /\ call.assoc \in Seq(Byte) /\ call.nonce \in Seq(Byte)
          /\ call.mac_len \in Nat /\ ValidCcm(call.nonce, call.mac_len)
          /\ stage # "decrypt"

\* So much of the message has been decrypted.
PlainIs(in) ==
    /\ stage = "decrypt" => plain = SubSeq(in, 1, idx)
    /\ stage = "done" => plain = in

CbcInv ==
    call.mode = "cbc" =>
        /\ StartsBlock(Len(call.in)) /\ StartsBlock(idx) /\ idx <= Len(call.in)
        /\ Len(cipher) = IF stage = "encrypt" THEN idx ELSE Len(call.in)
        /\ Chained(call.in, call.iv, cipher, Len(cipher))
        /\ iv_buf = Before(call.iv, cipher, idx)
        /\ PlainIs(call.in)

CtrInv ==
    call.mode = "ctr" =>
        /\ StartsBlock(idx) /\ idx <= Len(call.in)
        /\ iv_buf = CounterAfter(call.iv, idx \div AES_BLOCK_SIZE)
        /\ cipher = SubSeq(Ctr(call.in, call.iv), 1,
                           IF stage = "encrypt" THEN idx ELSE Len(call.in))
        /\ PlainIs(call.in)

ModesInv == ModesTypes /\ CallTypes /\ CbcInv /\ CtrInv /\ CcmAcceptsItsOwn

LEMMA ModesInvInit == ModesInit => ModesInv
<1> SUFFICES ASSUME ModesInit PROVE ModesInv
  OBVIOUS
<1>1. iv_buf \in Block
  BY BlocksAre, ZerosAreBytes DEF ModesInit, Block
<1>2. call.mode = "none"
  BY DEF ModesInit, NoCall
<1>3. ModesTypes
  BY <1>1, <1>2 DEF ModesInit, ModesTypes
<1> QED
  BY <1>2, <1>3 DEF ModesInv, CallTypes, CbcInv, CtrInv, CcmAcceptsItsOwn

(* The two modes that take a message and an initial vector begin alike.      *)
LEMMA CallsBegin ==
    ASSUME ModesInv, NEW mode \in {"cbc", "ctr"}, NEW in \in Seq(Byte), NEW iv \in Block,
           mode = "cbc" => StartsBlock(Len(in)),
           Call([mode |-> mode, in |-> in, iv |-> iv])
    PROVE  ModesInv'
<1>1. /\ stage = "idle" /\ stage' = "encrypt" /\ idx' = 0 /\ iv_buf' = iv
      /\ call'.mode = mode /\ call'.in = in /\ call'.iv = iv
      /\ cipher' = <<>> /\ plain' = <<>> /\ Len(in) \in Nat
  BY DEF ModesInv, ModesTypes, Call
<1>2. ModesTypes'
  BY <1>1 DEF ModesTypes
<1>3. CallTypes'
  BY <1>1 DEF CallTypes
<1>4. CbcInv'
  <2> SUFFICES ASSUME mode = "cbc" PROVE CbcInv'
    BY <1>1 DEF CbcInv
  <2>1. StartsBlock(0) /\ StartsBlock(Len(in))
    BY BlockStarts
  <2>2. Before(iv, <<>>, 0) = iv
    BY DEF Before
  <2>3. Chained(in, iv, <<>>, 0) /\ Len(<<>>) = 0
    BY DEF Chained
  <2> QED
    BY <1>1, <2>1, <2>2, <2>3 DEF CbcInv, PlainIs
<1>5. CtrInv'
  <2>1. StartsBlock(0) /\ 0 \div AES_BLOCK_SIZE = 0
    BY BlockStarts
  <2>2. CounterAfter(iv, 0) = iv
    BY CountersFollow
  <2>3. SubSeq(Ctr(in, iv), 1, 0) = <<>>
    BY CtrIsUndone
  <2> QED
    BY <1>1, <2>1, <2>2, <2>3 DEF CtrInv, PlainIs
<1>6. CcmAcceptsItsOwn'
  BY <1>1 DEF CcmAcceptsItsOwn
<1> QED
  BY <1>2, <1>3, <1>4, <1>5, <1>6 DEF ModesInv

(* A step of CBC.                                                            *)
LEMMA CbcGoesOn ==
    ASSUME ModesInv, CbcEncryptBlock \/ CbcEncrypted \/ CbcDecryptBlock \/ CbcDecrypted
    PROVE  ModesInv'
<1> DEFINE in == call.in
           iv == call.iv
<1>1. /\ call.mode = "cbc" /\ call' = call
      /\ stage \in {"encrypt", "decrypt"}
  BY DEF CbcEncryptBlock, CbcEncrypted, CbcDecryptBlock, CbcDecrypted, InCbc
<1>2. /\ in \in Seq(Byte) /\ iv \in Block /\ Len(in) \in Nat
      /\ idx \in Nat /\ cipher \in Seq(Byte) /\ plain \in Seq(Byte) /\ Len(cipher) \in Nat
      /\ StartsBlock(Len(in)) /\ StartsBlock(idx) /\ idx <= Len(in)
      /\ Len(cipher) = IF stage = "encrypt" THEN idx ELSE Len(in)
      /\ Chained(in, iv, cipher, Len(cipher))
      /\ iv_buf = Before(iv, cipher, idx)
      /\ stage = "encrypt" => plain = <<>>
      /\ stage = "decrypt" => plain = SubSeq(in, 1, idx)
      /\ AES_BLOCK_SIZE \in Nat \ {0}
  BY <1>1, BlocksAre DEF ModesInv, ModesTypes, CallTypes, CbcInv, PlainIs
<1>3. CallTypes' /\ CtrInv' /\ CcmAcceptsItsOwn'
  BY <1>1, <1>2 DEF CallTypes, CtrInv, CcmAcceptsItsOwn
<1>4. CASE CbcEncryptBlock
  <2>1. /\ stage = "encrypt" /\ stage' = "encrypt" /\ idx < Len(in)
        /\ iv_buf' = LinkOf(in, iv, cipher, idx)
        /\ cipher' = cipher \o iv_buf' /\ idx' = idx + AES_BLOCK_SIZE /\ plain' = plain
    BY <1>2, <1>4 DEF CbcEncryptBlock, InCbc, LinkOf
  <2>2. idx + AES_BLOCK_SIZE <= Len(in) /\ StartsBlock(idx + AES_BLOCK_SIZE)
    BY <1>2, <2>1, BlockStarts
  <2>3. Len(cipher) = idx
    BY <1>2, <2>1
  <2>4. Chained(in, iv, cipher, idx)
    BY <1>2, <2>3
  <2> DEFINE blk == LinkOf(in, iv, cipher, idx)
  <2>5. /\ blk \in Block /\ cipher \o blk \in Seq(Byte)
        /\ Len(cipher \o blk) = idx + AES_BLOCK_SIZE
        /\ Chained(in, iv, cipher \o blk, idx + AES_BLOCK_SIZE)
        /\ Before(iv, cipher \o blk, idx + AES_BLOCK_SIZE) = blk
    <3> HIDE DEF in, iv
    <3> QED
      BY <1>2, <2>2, <2>3, <2>4, ChainGrows
  <2> HIDE DEF blk
  <2>6. iv_buf' = blk /\ cipher' = cipher \o blk
    BY <2>1 DEF blk
  <2>7. ModesTypes'
    BY <1>1, <1>2, <2>1, <2>5, <2>6 DEF ModesTypes
  <2>8. CbcInv'
    BY <1>1, <1>2, <2>1, <2>2, <2>5, <2>6 DEF CbcInv, PlainIs
  <2> QED
    BY <1>3, <2>7, <2>8 DEF ModesInv
<1>5. CASE CbcEncrypted
  <2>1. /\ stage = "encrypt" /\ stage' = "decrypt" /\ idx = Len(in) /\ idx' = 0
        /\ iv_buf' = iv /\ cipher' = cipher /\ plain' = plain /\ plain = <<>>
    BY <1>2, <1>5 DEF CbcEncrypted, StartDecrypt
  <2>2. StartsBlock(0) /\ Before(iv, cipher, 0) = iv
    BY BlockStarts DEF Before
  <2>3. SubSeq(in, 1, 0) = <<>>
    BY <1>2
  <2>4. ModesTypes'
    BY <1>1, <1>2, <2>1 DEF ModesTypes
  <2>5. CbcInv'
    BY <1>1, <1>2, <2>1, <2>2, <2>3 DEF CbcInv, PlainIs
  <2> QED
    BY <1>3, <2>4, <2>5 DEF ModesInv
<1>6. CASE CbcDecryptBlock
  <2>1. /\ stage = "decrypt" /\ stage' = "decrypt" /\ idx < Len(cipher)
        /\ iv_buf' = Bytes(cipher, idx, AES_BLOCK_SIZE)
        /\ plain' = plain \o XorBuf(iv_buf, AesDecrypt(iv_buf'))
        /\ idx' = idx + AES_BLOCK_SIZE /\ cipher' = cipher
    BY <1>6 DEF CbcDecryptBlock, InCbc
  <2>2. Len(cipher) = Len(in)
    BY <1>2, <2>1
  <2>3. StartsBlock(idx + AES_BLOCK_SIZE)
    BY <1>2, BlockStarts
  <2>4. /\ idx + AES_BLOCK_SIZE <= Len(in)
        /\ Bytes(cipher, idx, AES_BLOCK_SIZE) \in Block
        /\ XorBuf(Before(iv, cipher, idx), AesDecrypt(Bytes(cipher, idx, AES_BLOCK_SIZE)))
             = Bytes(in, idx, AES_BLOCK_SIZE)
        /\ Before(iv, cipher, idx + AES_BLOCK_SIZE) = Bytes(cipher, idx, AES_BLOCK_SIZE)
    <3> HIDE DEF in, iv
    <3> QED
      BY <1>2, <2>1, <2>2, ChainIsUndone
  <2>5. plain' = SubSeq(in, 1, idx + AES_BLOCK_SIZE)
    <3>1. plain' = SubSeq(in, 1, idx) \o Bytes(in, idx, AES_BLOCK_SIZE)
      BY <1>2, <2>1, <2>4
    <3> HIDE DEF in, iv
    <3> QED
      BY <1>2, <2>4, <3>1, BytesGoOn
  <2>6. plain' \in Seq(Byte)
    BY <1>2, <2>4, <2>5
  <2>7. ModesTypes'
    BY <1>1, <1>2, <2>1, <2>4, <2>6 DEF ModesTypes, ModesInv
  <2>8. CbcInv'
    BY <1>1, <1>2, <2>1, <2>2, <2>3, <2>4, <2>5 DEF CbcInv, PlainIs
  <2> QED
    BY <1>3, <2>7, <2>8 DEF ModesInv
<1>7. CASE CbcDecrypted
  <2>1. /\ stage = "decrypt" /\ stage' = "done" /\ idx = Len(cipher)
        /\ UNCHANGED <<idx, iv_buf, cipher, plain>>
    BY <1>7 DEF CbcDecrypted
  <2>2. Len(cipher) = Len(in) /\ idx = Len(in)
    BY <1>2, <2>1
  <2>3. plain = in
    BY <1>2, <2>1, <2>2
  <2>4. ModesTypes'
    BY <1>1, <1>2, <2>1 DEF ModesTypes, ModesInv
  <2>5. CbcInv'
    BY <1>1, <1>2, <2>1, <2>2, <2>3 DEF CbcInv, PlainIs
  <2> QED
    BY <1>3, <2>4, <2>5 DEF ModesInv
<1> QED
  BY <1>4, <1>5, <1>6, <1>7

(* A pass of CTR makes what has been put out longer.                         *)
LEMMA CtrGrows ==
    ASSUME NEW s \in Seq(Byte), NEW iv \in Block, NEW p \in Nat, StartsBlock(p),
           NEW n \in 0 .. AES_BLOCK_SIZE, p + n <= Len(s),
           NEW buf, buf = CounterAfter(iv, p \div AES_BLOCK_SIZE)
    PROVE  SubSeq(Ctr(s, iv), 1, p) \o XorBuf(AesEncrypt(buf), Bytes(s, p, n))
             = SubSeq(Ctr(s, iv), 1, p + n)
<1>1. Ctr(s, iv) \in Seq(Byte) /\ Len(Ctr(s, iv)) = Len(s)
  BY CtrIsUndone
<1>2. XorBuf(AesEncrypt(buf), Bytes(s, p, n)) = Bytes(Ctr(s, iv), p, n)
  BY CtrPiece
<1>3. n \in Nat
  BY BlocksAre
<1> DEFINE whole == Ctr(s, iv)
<1> HIDE DEF whole
<1>4. SubSeq(whole, 1, p) \o Bytes(whole, p, n) = SubSeq(whole, 1, p + n)
  <2>1. whole \in Seq(Byte) /\ p + n <= Len(whole)
    BY <1>1 DEF whole
  <2> QED
    BY <1>3, <2>1, BytesGoOn
<1> QED
  BY <1>2, <1>4 DEF whole

(* A step of CTR.                                                            *)
LEMMA CtrGoesOn ==
    ASSUME ModesInv, CtrBlock \/ CtrLastBlock
    PROVE  ModesInv'
<1> DEFINE in == call.in
           iv == call.iv
           whole == Ctr(in, iv)
           b == AES_BLOCK_SIZE
           Left(n) == XorBuf(AesEncrypt(iv_buf), Bytes(CtrIn, idx, n))
<1>1. call.mode = "ctr" /\ call' = call /\ stage \in {"encrypt", "decrypt"}
  BY DEF CtrBlock, CtrLastBlock, InCtr
<1>2. /\ in \in Seq(Byte) /\ iv \in Block /\ Len(in) \in Nat
      /\ idx \in Nat /\ cipher \in Seq(Byte) /\ plain \in Seq(Byte)
      /\ StartsBlock(idx) /\ idx <= Len(in)
      /\ iv_buf = CounterAfter(iv, idx \div b)
      /\ stage = "encrypt" => cipher = SubSeq(whole, 1, idx) /\ plain = <<>>
      /\ stage = "decrypt" =>
            cipher = SubSeq(whole, 1, Len(in)) /\ plain = SubSeq(in, 1, idx)
      /\ b \in Nat \ {0}
  BY <1>1, BlocksAre DEF ModesInv, ModesTypes, CallTypes, CtrInv, PlainIs
<1>3. /\ whole \in Seq(Byte) /\ Len(whole) = Len(in) /\ Ctr(whole, iv) = in
      /\ SubSeq(whole, 1, Len(in)) = whole
  <2>1. whole \in Seq(Byte) /\ Len(whole) = Len(in) /\ Ctr(whole, iv) = in
    BY <1>2, CtrIsUndone
  <2> HIDE DEF whole
  <2> QED
    BY <2>1
<1>4. CallTypes' /\ CbcInv' /\ CcmAcceptsItsOwn'
  <2>1. stage = "done" \/ stage' \in {"encrypt", "decrypt", "done"}
    BY <1>1 DEF CtrBlock, CtrLastBlock, StartDecrypt
  <2> QED
    BY <1>1, <1>2, <2>1 DEF CallTypes, CbcInv, CcmAcceptsItsOwn
<1>5. CtrIn = IF stage = "encrypt" THEN in ELSE whole
  BY <1>1, <1>2, <1>3 DEF CtrIn
<1>6. Len(CtrIn) = Len(in)
  BY <1>3, <1>5
<1> HIDE DEF in, iv, whole
<1>7. ASSUME NEW n \in 0 .. b, idx + n <= Len(in), CtrOut(Left(n))
      PROVE  /\ stage = "encrypt" => cipher' = SubSeq(whole, 1, idx + n) /\ plain' = <<>>
             /\ stage = "decrypt" => cipher' = whole /\ plain' = SubSeq(in, 1, idx + n)
             /\ cipher' \in Seq(Byte) /\ plain' \in Seq(Byte)
  <2>1. CASE stage = "encrypt"
    <3>1. cipher' = SubSeq(whole, 1, idx)
                      \o XorBuf(AesEncrypt(iv_buf), Bytes(in, idx, n))
          /\ plain' = <<>>
      BY <1>2, <1>5, <1>7, <2>1 DEF CtrOut
    <3>2. cipher' = SubSeq(whole, 1, idx + n)
      <4>1. /\ in \in Seq(Byte) /\ iv \in Block /\ idx \in Nat /\ StartsBlock(idx)
            /\ n \in 0 .. AES_BLOCK_SIZE /\ idx + n <= Len(in)
            /\ iv_buf = CounterAfter(iv, idx \div AES_BLOCK_SIZE)
        BY <1>2, <1>7
      <4>2. SubSeq(Ctr(in, iv), 1, idx) \o XorBuf(AesEncrypt(iv_buf), Bytes(in, idx, n))
              = SubSeq(Ctr(in, iv), 1, idx + n)
        BY ONLY <4>1, CtrGrows
      <4> QED
        BY <3>1, <4>2 DEF whole
    <3>3. idx + n \in Nat /\ idx + n <= Len(whole)
      BY <1>2, <1>3, <1>7
    <3>4. SubSeq(whole, 1, idx + n) \in Seq(Byte) /\ plain' \in Seq(Byte)
      BY <1>2, <1>3, <2>1, <3>1, <3>3
    <3> QED
      BY <2>1, <3>1, <3>2, <3>4
  <2>2. CASE stage = "decrypt"
    <3>1. plain' = SubSeq(in, 1, idx)
                     \o XorBuf(AesEncrypt(iv_buf), Bytes(whole, idx, n))
          /\ cipher' = whole
      BY <1>2, <1>3, <1>5, <1>7, <2>2 DEF CtrOut
    <3>2. SubSeq(Ctr(whole, iv), 1, idx)
            \o XorBuf(AesEncrypt(iv_buf), Bytes(whole, idx, n))
            = SubSeq(Ctr(whole, iv), 1, idx + n)
      <4>1. /\ whole \in Seq(Byte) /\ iv \in Block /\ idx \in Nat /\ StartsBlock(idx)
            /\ n \in 0 .. AES_BLOCK_SIZE /\ idx + n <= Len(whole)
            /\ iv_buf = CounterAfter(iv, idx \div AES_BLOCK_SIZE)
        BY <1>2, <1>3, <1>7
      <4> QED
        BY ONLY <4>1, CtrGrows
    <3>3. plain' = SubSeq(in, 1, idx + n)
      BY <1>3, <3>1, <3>2
    <3>4. idx + n \in Nat /\ idx + n <= Len(in)
      BY <1>2, <1>7
    <3>5. SubSeq(in, 1, idx + n) \in Seq(Byte)
      BY <1>2, <3>4
    <3> QED
      BY <1>3, <2>2, <3>1, <3>3, <3>5
  <2> QED
    BY <1>1, <2>1, <2>2
<1>8. CASE CtrBlock
  <2>1. /\ stage' = stage /\ idx + b < Len(in) /\ CtrOut(Left(b))
        /\ iv_buf' = IncrementIv(iv_buf, b) /\ idx' = idx + b
    BY <1>6, <1>8 DEF CtrBlock, InCtrLoop
  <2>2. b \in 0 .. b /\ idx + b <= Len(in)
    BY <1>2, <2>1
  <2> HIDE DEF Left
  <2>3. /\ stage = "encrypt" => cipher' = SubSeq(whole, 1, idx + b) /\ plain' = <<>>
        /\ stage = "decrypt" => cipher' = whole /\ plain' = SubSeq(in, 1, idx + b)
        /\ cipher' \in Seq(Byte) /\ plain' \in Seq(Byte)
    BY <1>7, <2>1, <2>2
  <2>4. /\ StartsBlock(idx + b) /\ idx \div b \in Nat
        /\ (idx + b) \div b = (idx \div b) + 1
    BY <1>2, BlockStarts
  <2>5. iv_buf' = CounterAfter(iv, (idx + b) \div b) /\ iv_buf' \in Block
    <3>1. /\ CounterAfter(iv, idx \div b) \in Block
          /\ CounterAfter(iv, (idx \div b) + 1)
               = IncrementIv(CounterAfter(iv, idx \div b), AES_BLOCK_SIZE)
      BY <1>2, <2>4, CountersFollow
    <3> QED
      BY <1>2, <2>1, <2>4, <3>1, IncrementedIv
  <2>6. ModesTypes'
    BY <1>1, <1>2, <2>1, <2>3, <2>5 DEF ModesTypes
  <2>7. CtrInv'
    <3>1. call'.in = in /\ call'.iv = iv
      BY <1>1 DEF in, iv
    <3>2. stage' = "decrypt" => cipher' = SubSeq(whole, 1, Len(in))
      BY <1>3, <2>1, <2>3
    <3>3. stage' \in {"encrypt", "decrypt"}
      BY <1>1, <2>1
    <3> QED
      BY <1>2, <2>1, <2>2, <2>3, <2>4, <2>5, <3>1, <3>2, <3>3 DEF CtrInv, PlainIs, whole
  <2> QED
    BY <1>4, <2>6, <2>7 DEF ModesInv
<1>9. CASE CtrLastBlock
  <2> DEFINE n == Len(in) - idx
  <2>1. /\ ~ (idx + b < Len(in)) /\ CtrOut(Left(n))
        /\ stage = "encrypt" => stage' = "decrypt" /\ idx' = 0 /\ iv_buf' = iv
        /\ stage = "decrypt" => stage' = "done" /\ idx' = idx /\ iv_buf' = iv_buf
    BY <1>1, <1>6, <1>9 DEF CtrLastBlock, InCtrLoop, StartDecrypt, iv
  <2>2. n \in 0 .. b /\ idx + n = Len(in) /\ idx + n <= Len(in)
    BY <1>2, <2>1
  <2> HIDE DEF Left, n
  <2>3. /\ stage = "encrypt" => cipher' = SubSeq(whole, 1, Len(in)) /\ plain' = <<>>
        /\ stage = "decrypt" => cipher' = whole /\ plain' = SubSeq(in, 1, Len(in))
        /\ cipher' \in Seq(Byte) /\ plain' \in Seq(Byte)
    BY <1>7, <2>1, <2>2
  <2>4. stage' \in {"decrypt", "done"} /\ idx' \in Nat /\ iv_buf' \in Block
    <3>1. iv_buf \in Block /\ iv \in Block /\ idx \in Nat /\ 0 \in Nat
      BY <1>2 DEF ModesInv, ModesTypes
    <3>2. CASE stage = "encrypt"
      BY <2>1, <3>1, <3>2
    <3>3. CASE stage = "decrypt"
      BY <2>1, <3>1, <3>3
    <3> QED
      BY <1>1, <3>2, <3>3
  <2>5. ModesTypes'
    BY <1>1, <2>3, <2>4 DEF ModesTypes
  <2>6. CtrInv'
    <3>1. call'.in = in /\ call'.iv = iv /\ call'.mode = "ctr"
      BY <1>1 DEF in, iv
    <3>2. SubSeq(in, 1, 0) = <<>> /\ SubSeq(in, 1, Len(in)) = in
      BY <1>2
    <3>3. StartsBlock(0) /\ 0 \div b = 0 /\ CounterAfter(iv, 0) = iv
      BY <1>2, BlockStarts, CountersFollow
    <3>4. stage' # "encrypt" /\ cipher' = SubSeq(whole, 1, Len(in))
      BY <1>1, <1>3, <2>1, <2>3
    <3>5. StartsBlock(idx)' /\ idx' <= Len(in)
          /\ iv_buf' = CounterAfter(iv, idx' \div b)
      BY <1>1, <1>2, <2>1, <3>3
    <3>6. /\ stage' = "decrypt" => plain' = SubSeq(in, 1, idx')
          /\ stage' = "done" => plain' = in
      BY <1>1, <2>1, <2>3, <3>2
    <3> QED
      BY <3>1, <3>4, <3>5, <3>6 DEF CtrInv, PlainIs, whole
  <2> QED
    BY <1>4, <2>5, <2>6 DEF ModesInv
<1> QED
  BY <1>8, <1>9

(* A step of CCM.                                                            *)
LEMMA CcmGoesOn ==
    ASSUME ModesInv, EncryptCcm \/ Disturb \/ DecryptCcm
    PROVE  ModesInv'
<1>1. CASE EncryptCcm
  <2>1. PICK payload \in Payloads, assoc \in Assocs, nonce \in Nonces, mac_len \in MacLens :
          /\ stage = "idle" /\ ValidCcm(nonce, mac_len)
          /\ call' = [mode |-> "ccm", in |-> payload, assoc |-> assoc,
                      nonce |-> nonce, mac_len |-> mac_len]
          /\ cipher' = CcmOutput(payload, assoc, nonce, mac_len)
          /\ stage' = "encrypt"
          /\ UNCHANGED <<idx, iv_buf, plain, mac_auth>>
    BY <1>1 DEF EncryptCcm
  <2>2. /\ payload \in Seq(Byte) /\ assoc \in Seq(Byte) /\ nonce \in Seq(Byte)
        /\ mac_len \in Nat
    BY AesModesAssumption
  <2>3. cipher' \in Seq(Byte)
    <3> DEFINE own == Mac(payload, assoc, nonce, mac_len)
    <3>1. /\ FirstCtrBlk(nonce) \in Block /\ PayloadCounter(nonce, mac_len) \in Block
          /\ own \in Seq(Byte)
      BY <2>1, <2>2, CcmBlocks
    <3>2. cipher' = Ctr(payload, PayloadCounter(nonce, mac_len))
                      \o Ctr(own, FirstCtrBlk(nonce))
      BY <2>1 DEF CcmOutput
    <3> HIDE DEF own
    <3>3. /\ Ctr(payload, PayloadCounter(nonce, mac_len)) \in Seq(Byte)
          /\ Ctr(own, FirstCtrBlk(nonce)) \in Seq(Byte)
      BY <2>2, <3>1, CtrIsUndone
    <3> QED
      BY <3>2, <3>3, Joined
  <2>4. /\ call'.mode = "ccm" /\ call'.in = payload /\ call'.assoc = assoc
        /\ call'.nonce = nonce /\ call'.mac_len = mac_len
    BY <2>1
  <2>5. ModesTypes'
    BY <2>1, <2>3, <2>4 DEF ModesInv, ModesTypes
  <2>6. CallTypes'
    BY <2>1, <2>2, <2>4 DEF CallTypes
  <2>7. CbcInv' /\ CtrInv' /\ CcmAcceptsItsOwn'
    BY <2>1, <2>4 DEF CbcInv, CtrInv, CcmAcceptsItsOwn
  <2> QED
    BY <2>5, <2>6, <2>7 DEF ModesInv
<1>2. CASE Disturb
  <2>1. PICK k \in DOMAIN cipher, b \in Byte : cipher' = [cipher EXCEPT ![k] = b]
    BY <1>2 DEF Disturb
  <2>2. /\ call.mode = "ccm" /\ stage = "encrypt"
        /\ UNCHANGED <<call, stage, idx, iv_buf, plain, mac_auth>>
    BY <1>2 DEF Disturb
  <2>3. cipher \in Seq(Byte)
    BY DEF ModesInv, ModesTypes
  <2>4. cipher' \in Seq(Byte)
    BY <2>1, <2>3
  <2>5. ModesTypes'
    BY <2>2, <2>4 DEF ModesInv, ModesTypes
  <2>6. CallTypes' /\ CbcInv' /\ CtrInv' /\ CcmAcceptsItsOwn'
    BY <2>2 DEF ModesInv, CallTypes, CbcInv, CtrInv, CcmAcceptsItsOwn
  <2> QED
    BY <2>5, <2>6 DEF ModesInv
<1>3. CASE DecryptCcm
  <2> DEFINE n == Len(cipher) - call.mac_len
             payload == Ctr(Bytes(cipher, 0, n), PayloadCounter(call.nonce, call.mac_len))
             mac == Ctr(Bytes(cipher, n, call.mac_len), FirstCtrBlk(call.nonce))
  <2>1. /\ call.mode = "ccm" /\ stage = "encrypt" /\ n > 0
        /\ plain' = (IF mac_auth' THEN payload ELSE Zeros(n))
        /\ stage' = "done" /\ UNCHANGED <<call, idx, iv_buf, cipher>>
    BY <1>3 DEF DecryptCcm
  <2>2. mac_auth' = (Mac(payload, call.assoc, call.nonce, call.mac_len) = mac)
    BY <1>3 DEF DecryptCcm, MacMatches
  <2>3. /\ cipher \in Seq(Byte) /\ call.in \in Seq(Byte) /\ call.assoc \in Seq(Byte)
        /\ call.nonce \in Seq(Byte) /\ call.mac_len \in Nat
        /\ ValidCcm(call.nonce, call.mac_len)
    BY <2>1 DEF ModesInv, ModesTypes, CallTypes
  <2>4. n \in Nat /\ n + call.mac_len = Len(cipher)
    BY <2>1, <2>3
  <2>5. /\ payload \in Seq(Byte)
        /\ Mac(payload, call.assoc, call.nonce, call.mac_len) = mac
             => cipher = CcmOutput(payload, call.assoc, call.nonce, call.mac_len)
        /\ cipher = CcmOutput(call.in, call.assoc, call.nonce, call.mac_len)
             => Mac(payload, call.assoc, call.nonce, call.mac_len) = mac
                /\ payload = call.in
    <3> DEFINE pl == payload
               mc == mac
    <3>1. /\ pl = Ctr(Bytes(cipher, 0, n), PayloadCounter(call.nonce, call.mac_len))
          /\ mc = Ctr(Bytes(cipher, n, call.mac_len), FirstCtrBlk(call.nonce))
      OBVIOUS
    <3> HIDE DEF n, pl, mc
    <3>2. /\ pl \in Seq(Byte)
          /\ Mac(pl, call.assoc, call.nonce, call.mac_len) = mc
               => cipher = CcmOutput(pl, call.assoc, call.nonce, call.mac_len)
          /\ \A p \in Seq(Byte) :
               cipher = CcmOutput(p, call.assoc, call.nonce, call.mac_len)
                 => Mac(pl, call.assoc, call.nonce, call.mac_len) = mc /\ pl = p
      BY <2>3, <2>4, <3>1, CcmIsUndone
    <3> QED
      BY <2>3, <3>2 DEF pl, mc
  <2> HIDE DEF payload, mac
  <2>6. plain' \in Seq(Byte)
    <3> HIDE DEF n
    <3> QED
      BY <2>1, <2>4, <2>5, ZerosAreBytes
  <2>7. ModesTypes'
    BY <2>1, <2>6 DEF ModesInv, ModesTypes
  <2>8. CallTypes' /\ CbcInv' /\ CtrInv'
    BY <2>1 DEF ModesInv, CallTypes, CbcInv, CtrInv
  <2>9. CcmAcceptsItsOwn'
    BY <2>1, <2>2, <2>5 DEF CcmAcceptsItsOwn
  <2> QED
    BY <2>7, <2>8, <2>9 DEF ModesInv
<1> QED
  BY <1>1, <1>2, <1>3

LEMMA ModesInvStep == ModesInv /\ [ModesNext]_modesVars => ModesInv'
<1> SUFFICES ASSUME ModesInv, [ModesNext]_modesVars PROVE ModesInv'
  OBVIOUS
<1>1. CASE CallCbc
  <2>1. PICK in \in Messages, iv \in Ivs :
          /\ Len(in) % AES_BLOCK_SIZE = 0
          /\ Call([mode |-> "cbc", in |-> in, iv |-> iv])
    BY <1>1 DEF CallCbc
  <2>2. in \in Seq(Byte) /\ iv \in Block /\ StartsBlock(Len(in))
    BY <2>1, AesModesAssumption DEF StartsBlock
  <2> QED
    BY <2>1, <2>2, CallsBegin
<1>2. CASE CallCtr
  <2>1. PICK in \in Messages, iv \in Ivs : Call([mode |-> "ctr", in |-> in, iv |-> iv])
    BY <1>2 DEF CallCtr
  <2>2. in \in Seq(Byte) /\ iv \in Block
    BY AesModesAssumption
  <2> QED
    BY <2>1, <2>2, CallsBegin
<1>3. CASE CbcEncryptBlock \/ CbcEncrypted \/ CbcDecryptBlock \/ CbcDecrypted
  BY <1>3, CbcGoesOn
<1>4. CASE CtrBlock \/ CtrLastBlock
  BY <1>4, CtrGoesOn
<1>5. CASE EncryptCcm \/ Disturb \/ DecryptCcm
  BY <1>5, CcmGoesOn
<1>6. CASE Return
  <2>1. /\ call' = NoCall /\ stage' = "idle" /\ idx' = 0
        /\ iv_buf' = Zeros(AES_BLOCK_SIZE) /\ cipher' = <<>> /\ plain' = <<>>
    BY <1>6 DEF Return
  <2>2. call'.mode = "none" /\ iv_buf' \in Block
    BY <2>1, BlocksAre, ZerosAreBytes DEF NoCall, Block
  <2>3. ModesTypes'
    BY <2>1, <2>2 DEF ModesTypes
  <2> QED
    BY <2>2, <2>3 DEF ModesInv, CallTypes, CbcInv, CtrInv, CcmAcceptsItsOwn
<1>7. CASE UNCHANGED modesVars
  BY <1>7 DEF modesVars, ModesInv, ModesTypes, CallTypes, CbcInv, CtrInv, PlainIs,
              CcmAcceptsItsOwn
<1>8. RefuseCbc \/ RefuseCcm \/ RefuseDecryptCcm => UNCHANGED modesVars
  BY DEF RefuseCbc, RefuseCcm, RefuseDecryptCcm
<1> QED
  BY <1>1, <1>2, <1>3, <1>4, <1>5, <1>6, <1>7, <1>8 DEF ModesNext

(* Theorem: whatever the block cipher under the key, if its inverse inverts  *)
(* it, and whatever the sizes of a block and a byte, CBC and CTR decrypt to  *)
(* what was encrypted, and CCM accepts what its own encryption yields and    *)
(* nothing else: AesModes!ModesAreUndone for messages of any length.         *)
THEOREM ModesStayUndone == ModesSpec => []ModesAreUndone
<1>1. ModesInv => ModesAreUndone
  <2> SUFFICES ASSUME ModesInv PROVE ModesAreUndone
    OBVIOUS
  <2>1. ASSUME call.mode \in {"cbc", "ctr"}
        PROVE  IsPrefix(plain, call.in) /\ (stage = "done" => plain = call.in)
    <3>1. /\ call.in \in Seq(Byte) /\ Len(call.in) \in Nat /\ idx \in Nat
          /\ idx <= Len(call.in) /\ PlainIs(call.in)
          /\ stage \in {"idle", "encrypt", "decrypt", "done"}
          /\ stage \in {"idle", "encrypt"} => plain = <<>>
      BY <2>1 DEF ModesInv, ModesTypes, CallTypes, CbcInv, CtrInv
    <3>2. CASE stage \in {"idle", "encrypt"}
      BY <3>1, <3>2 DEF IsPrefix
    <3>3. CASE stage = "decrypt"
      <4>1. plain = SubSeq(call.in, 1, idx)
        BY <3>1, <3>3 DEF PlainIs
      <4> QED
        BY <3>1, <3>3, <4>1 DEF IsPrefix
    <3>4. CASE stage = "done"
      <4>1. plain = call.in
        BY <3>1, <3>4 DEF PlainIs
      <4> QED
        BY <3>1, <4>1 DEF IsPrefix
    <3> QED
      BY <3>1, <3>2, <3>3, <3>4
  <2>2. ModesRoundTrip
    BY <2>1 DEF ModesRoundTrip
  <2> QED
    BY <2>2 DEF ModesInv, ModesAreUndone
<1> QED
  BY <1>1, ModesInvInit, ModesInvStep, PTL DEF ModesSpec


-----------------------------------------------------------------------------
(* AesCipher: bytes and their bits *)

Bit(b, v) == (b \div v) % 2

NibbleValues == {1, 2, 4, 8}
BitValues == {1, 2, 4, 8, 16, 32, 64, 128}

(* Four bits make a nibble.                                                  *)
LEMMA FromBits ==
    ASSUME NEW b0 \in {0, 1}, NEW b1 \in {0, 1}, NEW b2 \in {0, 1}, NEW b3 \in {0, 1},
           NEW n, n = b0 + 2 * b1 + 4 * b2 + 8 * b3
    PROVE  /\ n \in Nibble
           /\ Bit(n, 1) = b0 /\ Bit(n, 2) = b1 /\ Bit(n, 4) = b2 /\ Bit(n, 8) = b3
BY DEF Nibble, Bit

LEMMA NibbleBits ==
    ASSUME NEW n \in Nibble
    PROVE  /\ Bit(n, 1) \in {0, 1} /\ Bit(n, 2) \in {0, 1}
           /\ Bit(n, 4) \in {0, 1} /\ Bit(n, 8) \in {0, 1}
           /\ n = Bit(n, 1) + 2 * Bit(n, 2) + 4 * Bit(n, 4) + 8 * Bit(n, 8)
BY DEF Nibble, Bit

LEMMA BitsOfSums ==
    ASSUME NEW n \in Nat, NEW m \in Nat, NEW v \in Nat \ {0}
    PROVE  /\ XorBit(n, m, v) = (Bit(n, v) + Bit(m, v)) % 2
           /\ XorBit(n, m, v) \in {0, 1}
<1>1. n \div v \in Nat /\ m \div v \in Nat
  OBVIOUS
<1>2. ASSUME NEW q \in Nat, NEW r \in Nat
      PROVE  (q + r) % 2 = ((q % 2) + (r % 2)) % 2 /\ (q + r) % 2 \in {0, 1}
  OBVIOUS
<1> QED
  BY <1>1, <1>2 DEF XorBit, Bit

LEMMA NibbleXorIs ==
    ASSUME NEW n \in Nibble, NEW m \in Nibble
    PROVE  /\ NibbleXor[<<n, m>>] \in Nibble
           /\ \A v \in NibbleValues :
                 Bit(NibbleXor[<<n, m>>], v) = (Bit(n, v) + Bit(m, v)) % 2
<1>1. n \in Nat /\ m \in Nat
  BY DEF Nibble
<1>2. \A v \in NibbleValues : /\ XorBit(n, m, v) = (Bit(n, v) + Bit(m, v)) % 2
                              /\ XorBit(n, m, v) \in {0, 1}
  BY <1>1, BitsOfSums DEF NibbleValues
<1>3. NibbleXor[<<n, m>>] = XorBit(n, m, 1) + 2 * XorBit(n, m, 2)
                              + 4 * XorBit(n, m, 4) + 8 * XorBit(n, m, 8)
  BY DEF NibbleXor
<1>4. /\ NibbleXor[<<n, m>>] \in Nibble
      /\ Bit(NibbleXor[<<n, m>>], 1) = XorBit(n, m, 1)
      /\ Bit(NibbleXor[<<n, m>>], 2) = XorBit(n, m, 2)
      /\ Bit(NibbleXor[<<n, m>>], 4) = XorBit(n, m, 4)
      /\ Bit(NibbleXor[<<n, m>>], 8) = XorBit(n, m, 8)
  <2>1. /\ XorBit(n, m, 1) \in {0, 1} /\ XorBit(n, m, 2) \in {0, 1}
        /\ XorBit(n, m, 4) \in {0, 1} /\ XorBit(n, m, 8) \in {0, 1}
    BY <1>2 DEF NibbleValues
  <2> QED
    BY ONLY <1>3, <2>1, FromBits
<1> QED
  BY <1>2, <1>4 DEF NibbleValues

(* Two nibbles make a byte.                                                  *)
LEMMA ByteNibbles ==
    ASSUME NEW h \in Nibble, NEW l \in Nibble, NEW b, b = 16 * h + l
    PROVE  /\ b \in AesByte /\ b \div 16 = h /\ b % 16 = l
           /\ Bit(b, 1) = Bit(l, 1) /\ Bit(b, 2) = Bit(l, 2)
           /\ Bit(b, 4) = Bit(l, 4) /\ Bit(b, 8) = Bit(l, 8)
           /\ Bit(b, 16) = Bit(h, 1) /\ Bit(b, 32) = Bit(h, 2)
           /\ Bit(b, 64) = Bit(h, 4) /\ Bit(b, 128) = Bit(h, 8)
<1>1. /\ b \in AesByte /\ b \div 16 = h /\ b % 16 = l
  BY DEF Nibble, AesByte
<1>2. b \in Nat /\ h \in Nat /\ l \in 0 .. 15
  BY DEF Nibble
<1>3. Bit(b, 1) = Bit(l, 1) /\ Bit(b, 2) = Bit(l, 2)
  BY <1>2 DEF Bit
<1>4. Bit(b, 4) = Bit(l, 4) /\ Bit(b, 8) = Bit(l, 8)
  BY <1>2 DEF Bit
<1>5. Bit(b, 16) = Bit(h, 1) /\ Bit(b, 32) = Bit(h, 2)
  BY <1>2 DEF Bit
<1>6. Bit(b, 64) = Bit(h, 4) /\ Bit(b, 128) = Bit(h, 8)
  BY <1>2 DEF Bit
<1> QED
  BY <1>1, <1>3, <1>4, <1>5, <1>6

LEMMA ByteHalves ==
    ASSUME NEW b \in AesByte
    PROVE  b \div 16 \in Nibble /\ b % 16 \in Nibble /\ b = 16 * (b \div 16) + (b % 16)
BY DEF AesByte, Nibble

(* The exclusive or of two bytes, bit by bit.                                *)
LEMMA XorBits ==
    ASSUME NEW a \in AesByte, NEW b \in AesByte
    PROVE  /\ a ++ b \in AesByte
           /\ \A v \in BitValues : Bit(a ++ b, v) = (Bit(a, v) + Bit(b, v)) % 2
<1> DEFINE ah == a \div 16
           al == a % 16
           bh == b \div 16
           bl == b % 16
           h == NibbleXor[<<ah, bh>>]
           l == NibbleXor[<<al, bl>>]
<1>1. /\ ah \in Nibble /\ al \in Nibble /\ a = 16 * ah + al
      /\ bh \in Nibble /\ bl \in Nibble /\ b = 16 * bh + bl
  BY ByteHalves
<1>2. a ++ b = 16 * h + l
  BY DEF ++
<1> HIDE DEF ah, al, bh, bl
<1>3. /\ h \in Nibble /\ l \in Nibble
      /\ \A v \in NibbleValues : /\ Bit(h, v) = (Bit(ah, v) + Bit(bh, v)) % 2
                                 /\ Bit(l, v) = (Bit(al, v) + Bit(bl, v)) % 2
  BY <1>1, NibbleXorIs
<1> HIDE DEF h, l
<1> DEFINE Halves(c, ch, cl) ==
             /\ c \in AesByte
             /\ Bit(c, 1) = Bit(cl, 1) /\ Bit(c, 2) = Bit(cl, 2)
             /\ Bit(c, 4) = Bit(cl, 4) /\ Bit(c, 8) = Bit(cl, 8)
             /\ Bit(c, 16) = Bit(ch, 1) /\ Bit(c, 32) = Bit(ch, 2)
             /\ Bit(c, 64) = Bit(ch, 4) /\ Bit(c, 128) = Bit(ch, 8)
<1>4. ASSUME NEW ch \in Nibble, NEW cl \in Nibble, NEW c, c = 16 * ch + cl
      PROVE  Halves(c, ch, cl)
  BY ONLY <1>4, ByteNibbles
<1>5. Halves(a ++ b, h, l) /\ Halves(a, ah, al) /\ Halves(b, bh, bl)
  <2> HIDE DEF Halves
  <2> QED
    BY <1>1, <1>2, <1>3, <1>4
<1>6. \A v \in NibbleValues : Bit(h, v) = (Bit(ah, v) + Bit(bh, v)) % 2
  BY <1>3
<1>7. \A v \in NibbleValues : Bit(l, v) = (Bit(al, v) + Bit(bl, v)) % 2
  BY <1>3
<1> QED
  BY <1>5, <1>6, <1>7 DEF NibbleValues, BitValues

(* Bits are 0 or 1, and a byte is its bits.                                  *)
LEMMA BitsOfBytes ==
    ASSUME NEW a \in AesByte
    PROVE  /\ \A v \in BitValues : Bit(a, v) \in {0, 1}
           /\ a = Bit(a, 1) + 2 * Bit(a, 2) + 4 * Bit(a, 4) + 8 * Bit(a, 8)
                    + 16 * Bit(a, 16) + 32 * Bit(a, 32) + 64 * Bit(a, 64) + 128 * Bit(a, 128)
<1> DEFINE h == a \div 16
           l == a % 16
<1>1. h \in Nibble /\ l \in Nibble /\ a = 16 * h + l
  BY ByteHalves
<1> HIDE DEF h, l
<1>2. /\ Bit(a, 1) = Bit(l, 1) /\ Bit(a, 2) = Bit(l, 2)
      /\ Bit(a, 4) = Bit(l, 4) /\ Bit(a, 8) = Bit(l, 8)
      /\ Bit(a, 16) = Bit(h, 1) /\ Bit(a, 32) = Bit(h, 2)
      /\ Bit(a, 64) = Bit(h, 4) /\ Bit(a, 128) = Bit(h, 8)
  BY ONLY <1>1, ByteNibbles
<1>3. /\ Bit(h, 1) \in {0, 1} /\ Bit(h, 2) \in {0, 1}
      /\ Bit(h, 4) \in {0, 1} /\ Bit(h, 8) \in {0, 1}
      /\ h = Bit(h, 1) + 2 * Bit(h, 2) + 4 * Bit(h, 4) + 8 * Bit(h, 8)
  BY ONLY <1>1, NibbleBits
<1>4. /\ Bit(l, 1) \in {0, 1} /\ Bit(l, 2) \in {0, 1}
      /\ Bit(l, 4) \in {0, 1} /\ Bit(l, 8) \in {0, 1}
      /\ l = Bit(l, 1) + 2 * Bit(l, 2) + 4 * Bit(l, 4) + 8 * Bit(l, 8)
  BY ONLY <1>1, NibbleBits
<1> QED
  BY ONLY <1>1, <1>2, <1>3, <1>4 DEF BitValues

LEMMA SameBits ==
    ASSUME NEW a \in AesByte, NEW b \in AesByte, \A v \in BitValues : Bit(a, v) = Bit(b, v)
    PROVE  a = b
<1>1. /\ Bit(a, 1) = Bit(b, 1) /\ Bit(a, 2) = Bit(b, 2) /\ Bit(a, 4) = Bit(b, 4)
      /\ Bit(a, 8) = Bit(b, 8) /\ Bit(a, 16) = Bit(b, 16) /\ Bit(a, 32) = Bit(b, 32)
      /\ Bit(a, 64) = Bit(b, 64) /\ Bit(a, 128) = Bit(b, 128)
  BY DEF BitValues
<1>2. a = Bit(a, 1) + 2 * Bit(a, 2) + 4 * Bit(a, 4) + 8 * Bit(a, 8)
            + 16 * Bit(a, 16) + 32 * Bit(a, 32) + 64 * Bit(a, 64) + 128 * Bit(a, 128)
  BY BitsOfBytes
<1>3. b = Bit(b, 1) + 2 * Bit(b, 2) + 4 * Bit(b, 4) + 8 * Bit(b, 8)
            + 16 * Bit(b, 16) + 32 * Bit(b, 32) + 64 * Bit(b, 64) + 128 * Bit(b, 128)
  BY BitsOfBytes
<1> QED
  BY <1>1, <1>2, <1>3

(* A key that is added twice is gone.                                        *)
LEMMA XorTwice ==
    ASSUME NEW a \in AesByte, NEW b \in AesByte
    PROVE  (a ++ b) ++ b = a
<1>1. a ++ b \in AesByte /\ (a ++ b) ++ b \in AesByte
  BY XorBits
<1>2. ASSUME NEW v \in BitValues
      PROVE  Bit((a ++ b) ++ b, v) = Bit(a, v)
  <2>1. Bit(a ++ b, v) = (Bit(a, v) + Bit(b, v)) % 2
    BY XorBits
  <2>2. Bit((a ++ b) ++ b, v) = (Bit(a ++ b, v) + Bit(b, v)) % 2
    BY <1>1, XorBits
  <2>3. Bit(a, v) \in {0, 1} /\ Bit(b, v) \in {0, 1}
    BY BitsOfBytes
  <2> QED
    BY <2>1, <2>2, <2>3
<1> QED
  BY <1>1, <1>2, SameBits

\* The bit that moves to v when a byte is doubled.
BitBelow(v) == IF v = 1 THEN 128 ELSE v \div 2

\* The bits to which the one that leaves the byte is added.
Carried == {2, 8, 16}

(* Doubling moves the bits up, and 27 is added if one has left the byte.     *)
LEMMA DoubleBits ==
    ASSUME NEW a \in AesByte
    PROVE  /\ Double(a) \in AesByte
           /\ \A v \in BitValues :
                 Bit(Double(a), v)
                   = (Bit(a, BitBelow(v)) + IF v \in Carried THEN Bit(a, 128) ELSE 0) % 2
<1> DEFINE low == IF a < 128 THEN a ELSE a - 128
           up == 2 * low
<1>1. low \in 0 .. 127 /\ up \in AesByte /\ (a < 128 => low = a) /\ (a >= 128 => low = a - 128)
  BY DEF AesByte
<1>2. a < 128 => Double(a) = up
  BY DEF Double
<1>3. a >= 128 => Double(a) = up ++ 27
  <2>1. a >= 128 => 2 * a - 256 = up
    BY DEF AesByte
  <2> HIDE DEF up
  <2> QED
    BY <2>1 DEF Double, AesByte
<1>4. Bit(a, 128) = IF a < 128 THEN 0 ELSE 1
  BY DEF Bit, AesByte
<1> HIDE DEF low
<1>5. /\ Bit(up, 1) = 0 /\ Bit(up, 2) = Bit(low, 1) /\ Bit(up, 4) = Bit(low, 2)
      /\ Bit(up, 8) = Bit(low, 4)
  BY <1>1 DEF Bit
<1>6. /\ Bit(up, 16) = Bit(low, 8) /\ Bit(up, 32) = Bit(low, 16)
      /\ Bit(up, 64) = Bit(low, 32) /\ Bit(up, 128) = Bit(low, 64)
  BY <1>1 DEF Bit
<1>7. /\ Bit(low, 1) = Bit(a, 1) /\ Bit(low, 2) = Bit(a, 2) /\ Bit(low, 4) = Bit(a, 4)
      /\ Bit(low, 8) = Bit(a, 8)
  BY <1>1 DEF Bit, AesByte
<1>8. /\ Bit(low, 16) = Bit(a, 16) /\ Bit(low, 32) = Bit(a, 32)
      /\ Bit(low, 64) = Bit(a, 64)
  BY <1>1 DEF Bit, AesByte
<1>9. /\ Bit(27, 1) = 1 /\ Bit(27, 2) = 1 /\ Bit(27, 4) = 0 /\ Bit(27, 8) = 1
      /\ Bit(27, 16) = 1 /\ Bit(27, 32) = 0 /\ Bit(27, 64) = 0 /\ Bit(27, 128) = 0
      /\ 27 \in AesByte
  BY DEF Bit, AesByte
<1> HIDE DEF up
<1>10. \A v \in BitValues : Bit(a, v) \in {0, 1}
  BY BitsOfBytes
<1>11. \A v \in BitValues :
          Bit(up, v) = IF v = 1 THEN 0 ELSE Bit(a, BitBelow(v))
  BY <1>5, <1>6, <1>7, <1>8 DEF BitValues, BitBelow
<1>12. CASE a < 128
  <2>1. Double(a) = up /\ Bit(a, 128) = 0 /\ up \in AesByte
    BY <1>1, <1>2, <1>4, <1>12
  <2>2. \A v \in BitValues : BitBelow(v) \in BitValues
    BY DEF BitValues, BitBelow
  <2>3. ASSUME NEW v \in BitValues
        PROVE  Bit(up, v)
                 = (Bit(a, BitBelow(v)) + IF v \in Carried THEN Bit(a, 128) ELSE 0) % 2
    <3>1. Bit(up, v) = Bit(a, BitBelow(v)) /\ Bit(a, BitBelow(v)) \in {0, 1}
      <4>1. CASE v = 1
        BY <1>11, <2>1, <4>1 DEF BitBelow
      <4>2. CASE v # 1
        BY <1>10, <1>11, <2>2, <4>2
      <4> QED
        BY <4>1, <4>2
    <3> QED
      BY <2>1, <3>1
  <2> QED
    BY <2>1, <2>3
<1>13. CASE a >= 128
  <2>1. Double(a) = up ++ 27 /\ Bit(a, 128) = 1 /\ up \in AesByte /\ 27 \in AesByte
    BY <1>1, <1>3, <1>4, <1>9, <1>13 DEF AesByte
  <2>2. /\ Double(a) \in AesByte
        /\ \A v \in BitValues : Bit(Double(a), v) = (Bit(up, v) + Bit(27, v)) % 2
    BY <2>1, XorBits
  <2>3. \A v \in BitValues : Bit(27, v) = IF v \in {1, 2, 8, 16} THEN 1 ELSE 0
    BY <1>9 DEF BitValues
  <2>4. ASSUME NEW v \in BitValues
        PROVE  Bit(Double(a), v)
                 = (Bit(a, BitBelow(v)) + IF v \in Carried THEN Bit(a, 128) ELSE 0) % 2
    <3>1. CASE v = 1
      BY <1>11, <2>1, <2>2, <2>3, <3>1 DEF BitBelow, Carried
    <3>2. CASE v # 1
      <4>1. Bit(up, v) = Bit(a, BitBelow(v))
        BY <1>11, <3>2
      <4>2. Bit(27, v) = IF v \in Carried THEN Bit(a, 128) ELSE 0
        BY <2>1, <2>3, <3>2 DEF Carried
      <4> QED
        BY <2>2, <4>1, <4>2
    <3> QED
      BY <3>1, <3>2
  <2> QED
    BY <2>2, <2>4
<1>14. a < 128 \/ a >= 128
  BY DEF AesByte
<1> QED
  BY <1>12, <1>13, <1>14

(* Doubling is additive.                                                     *)
LEMMA DoubleOfXor ==
    ASSUME NEW a \in AesByte, NEW b \in AesByte
    PROVE  Double(a ++ b) = Double(a) ++ Double(b)
<1>1. /\ a ++ b \in AesByte
      /\ \A v \in BitValues : Bit(a ++ b, v) = (Bit(a, v) + Bit(b, v)) % 2
  BY XorBits
<1>2. Double(a) \in AesByte /\ Double(b) \in AesByte /\ Double(a ++ b) \in AesByte
  BY <1>1, DoubleBits
<1>3. /\ Double(a) ++ Double(b) \in AesByte
      /\ \A v \in BitValues : Bit(Double(a) ++ Double(b), v)
                                = (Bit(Double(a), v) + Bit(Double(b), v)) % 2
  BY <1>2, XorBits
<1>4. ASSUME NEW v \in BitValues
      PROVE  Bit(Double(a ++ b), v) = Bit(Double(a) ++ Double(b), v)
  <2> DEFINE Moved(c) == (Bit(c, BitBelow(v)) + IF v \in Carried THEN Bit(c, 128) ELSE 0) % 2
  <2>1. /\ Bit(Double(a), v) = Moved(a) /\ Bit(Double(b), v) = Moved(b)
        /\ Bit(Double(a ++ b), v) = Moved(a ++ b)
    BY <1>1, DoubleBits
  <2>2. BitBelow(v) \in BitValues /\ 128 \in BitValues
    BY DEF BitBelow, BitValues
  <2>3. /\ Bit(a ++ b, BitBelow(v)) = (Bit(a, BitBelow(v)) + Bit(b, BitBelow(v))) % 2
        /\ Bit(a ++ b, 128) = (Bit(a, 128) + Bit(b, 128)) % 2
    BY <1>1, <2>2
  <2>4. /\ Bit(a, BitBelow(v)) \in {0, 1} /\ Bit(b, BitBelow(v)) \in {0, 1}
        /\ Bit(a, 128) \in {0, 1} /\ Bit(b, 128) \in {0, 1}
    BY <2>2, BitsOfBytes
  <2>5. Moved(a ++ b) = (Moved(a) + Moved(b)) % 2
    BY <2>3, <2>4
  <2> HIDE DEF Moved
  <2> QED
    BY <1>3, <2>1, <2>5
<1> QED
  BY <1>2, <1>3, <1>4, SameBits

-----------------------------------------------------------------------------
(* AesCipher: the columns are unmixed *)

\* A byte doubled n times.
Doubled(b, n) ==
    CASE n = 0 -> b
      [] n = 1 -> Double(b)
      [] n = 2 -> Double(Double(b))
      [] n = 3 -> Double(Double(Double(b)))
      [] n = 4 -> Double(Double(Double(Double(b))))

LEMMA DoubledIs ==
    ASSUME NEW b \in AesByte
    PROVE  /\ \A n \in 0 .. 4 : Doubled(b, n) \in AesByte
           /\ \A n \in 0 .. 3 : /\ Doubled(b, n + 1) = Double(Doubled(b, n))
                                /\ Doubled(Double(b), n) = Doubled(b, n + 1)
           /\ Doubled(b, 0) = b
<1>1. \A a \in AesByte : Double(a) \in AesByte
  BY DoubleBits
<1>2. /\ Doubled(b, 0) = b /\ Doubled(b, 1) = Double(b)
      /\ Doubled(b, 2) = Double(Double(b)) /\ Doubled(b, 3) = Double(Double(Double(b)))
      /\ Doubled(b, 4) = Double(Double(Double(Double(b))))
  BY DEF Doubled
<1>3. /\ Doubled(b, 0) \in AesByte /\ Doubled(b, 1) \in AesByte /\ Doubled(b, 2) \in AesByte
      /\ Doubled(b, 3) \in AesByte /\ Doubled(b, 4) \in AesByte
  BY <1>1, <1>2
<1>4. \A n \in 0 .. 4 : Doubled(b, n) \in AesByte
  BY <1>3
<1>5. \A n \in 0 .. 3 : n = 0 \/ n = 1 \/ n = 2 \/ n = 3
  OBVIOUS
<1>6. \A n \in 0 .. 3 : Doubled(b, n + 1) = Double(Doubled(b, n))
  BY <1>2, <1>5
<1>7. /\ Doubled(Double(b), 0) = Doubled(b, 1) /\ Doubled(Double(b), 1) = Doubled(b, 2)
      /\ Doubled(Double(b), 2) = Doubled(b, 3) /\ Doubled(Double(b), 3) = Doubled(b, 4)
  BY DEF Doubled
<1>8. \A n \in 0 .. 3 : Doubled(Double(b), n) = Doubled(b, n + 1)
  BY <1>5, <1>7
<1> QED
  BY <1>2, <1>4, <1>6, <1>8

LEMMA DoubledOfXor ==
    ASSUME NEW a \in AesByte, NEW b \in AesByte, NEW n \in 0 .. 4
    PROVE  Doubled(a ++ b, n) = Doubled(a, n) ++ Doubled(b, n)
<1>1. a ++ b \in AesByte
  BY XorBits
<1>2. ASSUME NEW m \in 0 .. 3, Doubled(a ++ b, m) = Doubled(a, m) ++ Doubled(b, m)
      PROVE  Doubled(a ++ b, m + 1) = Doubled(a, m + 1) ++ Doubled(b, m + 1)
  <2>1. Doubled(a, m) \in AesByte /\ Doubled(b, m) \in AesByte
    BY DoubledIs
  <2>2. Double(Doubled(a, m) ++ Doubled(b, m))
          = Double(Doubled(a, m)) ++ Double(Doubled(b, m))
    BY <2>1, DoubleOfXor
  <2> QED
    BY <1>1, <1>2, <2>2, DoubledIs
<1>3. Doubled(a ++ b, 0) = Doubled(a, 0) ++ Doubled(b, 0)
  BY <1>1, DoubledIs
<1>4. Doubled(a ++ b, 0 + 1) = Doubled(a, 0 + 1) ++ Doubled(b, 0 + 1)
  BY <1>2, <1>3
<1>5. Doubled(a ++ b, 1 + 1) = Doubled(a, 1 + 1) ++ Doubled(b, 1 + 1)
  BY <1>2, <1>4
<1>6. Doubled(a ++ b, 2 + 1) = Doubled(a, 2 + 1) ++ Doubled(b, 2 + 1)
  BY <1>2, <1>5
<1>7. Doubled(a ++ b, 3 + 1) = Doubled(a, 3 + 1) ++ Doubled(b, 3 + 1)
  BY <1>2, <1>6
<1>8. n = 0 \/ n = 0 + 1 \/ n = 1 + 1 \/ n = 2 + 1 \/ n = 3 + 1
  OBVIOUS
<1> QED
  BY <1>3, <1>4, <1>5, <1>6, <1>7, <1>8

\* A bit of a byte doubled n times.
Up(b, n, v) == Bit(Doubled(b, n), v)

LEMMA UpIs ==
    ASSUME NEW a \in AesByte, NEW b \in AesByte, NEW n \in 0 .. 4, NEW v \in BitValues
    PROVE  /\ Up(a, n, v) \in {0, 1}
           /\ Up(a ++ b, n, v) = (Up(a, n, v) + Up(b, n, v)) % 2
<1>1. Doubled(a, n) \in AesByte /\ Doubled(b, n) \in AesByte
  BY DoubledIs
<1>2. Bit(Doubled(a, n), v) \in {0, 1}
  BY <1>1, BitsOfBytes
<1>3. Doubled(a ++ b, n) = Doubled(a, n) ++ Doubled(b, n)
  BY DoubledOfXor
<1>4. Bit(Doubled(a, n) ++ Doubled(b, n), v)
        = (Bit(Doubled(a, n), v) + Bit(Doubled(b, n), v)) % 2
  BY <1>1, XorBits
<1> QED
  BY <1>2, <1>3, <1>4 DEF Up

\* The places of a sum of four, whatever their order.
LEMMA UpOfFour ==
    ASSUME NEW t0 \in AesByte, NEW t1 \in AesByte, NEW t2 \in AesByte, NEW t3 \in AesByte,
           NEW n \in 0 .. 4, NEW v \in BitValues
    PROVE  /\ t0 ++ t1 ++ t2 ++ t3 \in AesByte
           /\ Up(t0 ++ t1 ++ t2 ++ t3, n, v)
                = (Up(t0, n, v) + Up(t1, n, v) + Up(t2, n, v) + Up(t3, n, v)) % 2
<1> DEFINE s1 == t0 ++ t1
           s2 == s1 ++ t2
<1>1. s1 \in AesByte
  BY XorBits
<1>2. Up(s1, n, v) = (Up(t0, n, v) + Up(t1, n, v)) % 2
  BY UpIs
<1> HIDE DEF s1
<1>3. s2 \in AesByte
  BY <1>1, XorBits
<1>4. Up(s2, n, v) = (Up(s1, n, v) + Up(t2, n, v)) % 2
  BY <1>1, UpIs
<1> HIDE DEF s2
<1>5. s2 ++ t3 \in AesByte
  BY <1>3, XorBits
<1>6. Up(s2 ++ t3, n, v) = (Up(s2, n, v) + Up(t3, n, v)) % 2
  BY <1>3, UpIs
<1>7. /\ Up(t0, n, v) \in {0, 1} /\ Up(t1, n, v) \in {0, 1}
      /\ Up(t2, n, v) \in {0, 1} /\ Up(t3, n, v) \in {0, 1}
  BY UpIs
<1>8. Up(s2 ++ t3, n, v)
        = (Up(t0, n, v) + Up(t1, n, v) + Up(t2, n, v) + Up(t3, n, v)) % 2
  BY <1>2, <1>4, <1>6, <1>7
<1> QED
  BY <1>5, <1>8 DEF s1, s2

(* The products that gf_mul has columns for.                                 *)
LEMMA Products ==
    ASSUME NEW b \in AesByte, NEW v \in BitValues
    PROVE  /\ \A c \in {1, 2, 3, 9, 11, 13, 14} : GfMul(b, c) \in AesByte
           /\ \A n \in 0 .. 3 :
                 /\ Up(GfMul(b, 1), n, v) = Up(b, n, v)
                 /\ Up(GfMul(b, 2), n, v) = Up(b, n + 1, v)
                 /\ Up(GfMul(b, 3), n, v) = (Up(b, n + 1, v) + Up(b, n, v)) % 2
           /\ Up(GfMul(b, 9), 0, v) = (Up(b, 3, v) + Up(b, 0, v)) % 2
           /\ Up(GfMul(b, 11), 0, v) = (Up(b, 3, v) + Up(b, 1, v) + Up(b, 0, v)) % 2
           /\ Up(GfMul(b, 13), 0, v) = (Up(b, 3, v) + Up(b, 2, v) + Up(b, 0, v)) % 2
           /\ Up(GfMul(b, 14), 0, v) = (Up(b, 3, v) + Up(b, 2, v) + Up(b, 1, v)) % 2
<1> DEFINE two == Double(b)
           four == Double(two)
           eight == Double(four)
<1>1. /\ GfMul(b, 1) = b /\ GfMul(b, 2) = two /\ GfMul(b, 3) = two ++ b
      /\ GfMul(b, 9) = eight ++ b /\ GfMul(b, 11) = eight ++ two ++ b
      /\ GfMul(b, 13) = eight ++ four ++ b /\ GfMul(b, 14) = eight ++ four ++ two
  BY DEF GfMul
<1>2. two \in AesByte /\ four \in AesByte /\ eight \in AesByte
  BY DoubleBits
<1>3. \A n \in 0 .. 3 : Up(two, n, v) = Up(b, n + 1, v)
  BY DoubledIs DEF Up
<1>4. /\ Up(two, 0, v) = Up(b, 1, v) /\ Up(four, 0, v) = Up(b, 2, v)
      /\ Up(eight, 0, v) = Up(b, 3, v)
  BY DEF Up, Doubled
<1> HIDE DEF two, four, eight
<1>5. ASSUME NEW a1 \in AesByte, NEW a2 \in AesByte, NEW a3 \in AesByte
      PROVE  /\ a1 ++ a2 \in AesByte /\ a1 ++ a2 ++ a3 \in AesByte
             /\ Up(a1 ++ a2, 0, v) = (Up(a1, 0, v) + Up(a2, 0, v)) % 2
             /\ Up(a1 ++ a2 ++ a3, 0, v) = (Up(a1, 0, v) + Up(a2, 0, v) + Up(a3, 0, v)) % 2
  <2> DEFINE s == a1 ++ a2
  <2>1. s \in AesByte
    BY XorBits
  <2>2. Up(s, 0, v) = (Up(a1, 0, v) + Up(a2, 0, v)) % 2
    BY UpIs
  <2> HIDE DEF s
  <2>3. s ++ a3 \in AesByte
    BY <2>1, XorBits
  <2>4. Up(s ++ a3, 0, v) = (Up(s, 0, v) + Up(a3, 0, v)) % 2
    BY <2>1, UpIs
  <2>5. Up(a1, 0, v) \in {0, 1} /\ Up(a2, 0, v) \in {0, 1} /\ Up(a3, 0, v) \in {0, 1}
    BY UpIs
  <2>6. Up(s ++ a3, 0, v) = (Up(a1, 0, v) + Up(a2, 0, v) + Up(a3, 0, v)) % 2
    BY <2>2, <2>4, <2>5
  <2> QED
    BY <2>1, <2>2, <2>3, <2>6 DEF s
<1>6. \A n \in 0 .. 3 : Up(two ++ b, n, v) = (Up(b, n + 1, v) + Up(b, n, v)) % 2
  <2> TAKE n \in 0 .. 3
  <2>1. Up(two ++ b, n, v) = (Up(two, n, v) + Up(b, n, v)) % 2
    BY <1>2, UpIs
  <2> QED
    BY <1>3, <2>1
<1>7. /\ two ++ b \in AesByte /\ eight ++ b \in AesByte /\ eight ++ two ++ b \in AesByte
      /\ eight ++ four ++ b \in AesByte /\ eight ++ four ++ two \in AesByte
  BY <1>2, <1>5
<1>8. /\ Up(eight ++ b, 0, v) = (Up(eight, 0, v) + Up(b, 0, v)) % 2
      /\ Up(eight ++ two ++ b, 0, v) = (Up(eight, 0, v) + Up(two, 0, v) + Up(b, 0, v)) % 2
      /\ Up(eight ++ four ++ b, 0, v) = (Up(eight, 0, v) + Up(four, 0, v) + Up(b, 0, v)) % 2
      /\ Up(eight ++ four ++ two, 0, v)
           = (Up(eight, 0, v) + Up(four, 0, v) + Up(two, 0, v)) % 2
  BY <1>2, <1>5
<1> QED
  BY <1>1, <1>2, <1>3, <1>4, <1>6, <1>7, <1>8

\* The states of the cipher.
IsState(s) == s \in [Index \X Index -> AesByte]

LEMMA StateEntries ==
    ASSUME NEW s, IsState(s), NEW r \in Index, NEW c \in Index
    PROVE  s[<<r, c>>] \in AesByte
BY DEF IsState

LEMMA SameStates ==
    ASSUME NEW s, NEW t, IsState(s), IsState(t),
           \A r, c \in Index : s[<<r, c>>] = t[<<r, c>>]
    PROVE  s = t
BY DEF IsState

(* The terms of the product of a circulant matrix and a column.              *)
LEMMA Terms ==
    ASSUME NEW s, NEW c \in Index, NEW x, NEW y, NEW z, NEW u
    PROVE  /\ Circulant(<<x, y, z, u>>, s, 0, c)
                = GfMul(s[<<0, c>>], x) ++ GfMul(s[<<1, c>>], y)
                    ++ GfMul(s[<<2, c>>], z) ++ GfMul(s[<<3, c>>], u)
           /\ Circulant(<<x, y, z, u>>, s, 1, c)
                = GfMul(s[<<0, c>>], u) ++ GfMul(s[<<1, c>>], x)
                    ++ GfMul(s[<<2, c>>], y) ++ GfMul(s[<<3, c>>], z)
           /\ Circulant(<<x, y, z, u>>, s, 2, c)
                = GfMul(s[<<0, c>>], z) ++ GfMul(s[<<1, c>>], u)
                    ++ GfMul(s[<<2, c>>], x) ++ GfMul(s[<<3, c>>], y)
           /\ Circulant(<<x, y, z, u>>, s, 3, c)
                = GfMul(s[<<0, c>>], y) ++ GfMul(s[<<1, c>>], z)
                    ++ GfMul(s[<<2, c>>], u) ++ GfMul(s[<<3, c>>], x)
<1> DEFINE row == <<x, y, z, u>>
           Entry(k, r) == row[1 + ((k - r) % 4)]
<1>1. \A k, r \in Index : (k - r) % 4 = IF k >= r THEN k - r ELSE k - r + 4
  BY DEF Index
<1>2. row[1] = x /\ row[2] = y /\ row[3] = z /\ row[4] = u
  OBVIOUS
<1> HIDE DEF row
<1>3. /\ Entry(0, 0) = x /\ Entry(1, 0) = y /\ Entry(2, 0) = z /\ Entry(3, 0) = u
      /\ Entry(0, 1) = u /\ Entry(1, 1) = x /\ Entry(2, 1) = y /\ Entry(3, 1) = z
      /\ Entry(0, 2) = z /\ Entry(1, 2) = u /\ Entry(2, 2) = x /\ Entry(3, 2) = y
      /\ Entry(0, 3) = y /\ Entry(1, 3) = z /\ Entry(2, 3) = u /\ Entry(3, 3) = x
  BY <1>1, <1>2 DEF Index
<1>4. ASSUME NEW r
      PROVE  Circulant(row, s, r, c)
               = GfMul(s[<<0, c>>], Entry(0, r)) ++ GfMul(s[<<1, c>>], Entry(1, r))
                   ++ GfMul(s[<<2, c>>], Entry(2, r)) ++ GfMul(s[<<3, c>>], Entry(3, r))
  BY DEF Circulant
<1> HIDE DEF Entry
<1>5. /\ Circulant(row, s, 0, c) = GfMul(s[<<0, c>>], Entry(0, 0))
           ++ GfMul(s[<<1, c>>], Entry(1, 0)) ++ GfMul(s[<<2, c>>], Entry(2, 0))
           ++ GfMul(s[<<3, c>>], Entry(3, 0))
      /\ Circulant(row, s, 1, c) = GfMul(s[<<0, c>>], Entry(0, 1))
           ++ GfMul(s[<<1, c>>], Entry(1, 1)) ++ GfMul(s[<<2, c>>], Entry(2, 1))
           ++ GfMul(s[<<3, c>>], Entry(3, 1))
      /\ Circulant(row, s, 2, c) = GfMul(s[<<0, c>>], Entry(0, 2))
           ++ GfMul(s[<<1, c>>], Entry(1, 2)) ++ GfMul(s[<<2, c>>], Entry(2, 2))
           ++ GfMul(s[<<3, c>>], Entry(3, 2))
      /\ Circulant(row, s, 3, c) = GfMul(s[<<0, c>>], Entry(0, 3))
           ++ GfMul(s[<<1, c>>], Entry(1, 3)) ++ GfMul(s[<<2, c>>], Entry(2, 3))
           ++ GfMul(s[<<3, c>>], Entry(3, 3))
  BY <1>4
<1>6. Circulant(<<x, y, z, u>>, s, 0, c) = Circulant(row, s, 0, c)
      /\ Circulant(<<x, y, z, u>>, s, 1, c) = Circulant(row, s, 1, c)
      /\ Circulant(<<x, y, z, u>>, s, 2, c) = Circulant(row, s, 2, c)
      /\ Circulant(<<x, y, z, u>>, s, 3, c) = Circulant(row, s, 3, c)
  BY DEF row
<1> QED
  BY <1>3, <1>5, <1>6

\* The bit of the sum of a, b, c and d times 2, 3, 1 and 1, doubled n times.
MixBit(a, b, c, d, n, v) ==
    (Up(a, n + 1, v) + ((Up(b, n + 1, v) + Up(b, n, v)) % 2) + Up(c, n, v) + Up(d, n, v)) % 2

\* The bit of the sum of a, b, c and d times 14, 11, 13 and 9.
UnmixBit(a, b, c, d, v) ==
    (((Up(a, 3, v) + Up(a, 2, v) + Up(a, 1, v)) % 2) + ((Up(b, 3, v) + Up(b, 1, v) + Up(b, 0, v)) % 2)
       + ((Up(c, 3, v) + Up(c, 2, v) + Up(c, 0, v)) % 2) + ((Up(d, 3, v) + Up(d, 0, v)) % 2)) % 2

\* A byte with these bits, for every n and v.
MixedTo(t, a, b, c, d, n, v) == t \in AesByte /\ Up(t, n, v) = MixBit(a, b, c, d, n, v)

LEMMA MixBits ==
    ASSUME NEW a \in AesByte, NEW b \in AesByte, NEW c \in AesByte, NEW d \in AesByte,
           NEW n \in 0 .. 3, NEW v \in BitValues
    PROVE  /\ MixedTo(GfMul(a, 2) ++ GfMul(b, 3) ++ GfMul(c, 1) ++ GfMul(d, 1), a, b, c, d, n, v)
           /\ MixedTo(GfMul(d, 1) ++ GfMul(a, 2) ++ GfMul(b, 3) ++ GfMul(c, 1), a, b, c, d, n, v)
           /\ MixedTo(GfMul(c, 1) ++ GfMul(d, 1) ++ GfMul(a, 2) ++ GfMul(b, 3), a, b, c, d, n, v)
           /\ MixedTo(GfMul(b, 3) ++ GfMul(c, 1) ++ GfMul(d, 1) ++ GfMul(a, 2), a, b, c, d, n, v)
<1> DEFINE a2 == GfMul(a, 2)
           b3 == GfMul(b, 3)
           c1 == GfMul(c, 1)
           d1 == GfMul(d, 1)
           bit == MixBit(a, b, c, d, n, v)
<1>1. /\ a2 \in AesByte /\ b3 \in AesByte /\ c1 \in AesByte /\ d1 \in AesByte
  BY Products
<1>2. /\ Up(a2, n, v) = Up(a, n + 1, v)
      /\ Up(b3, n, v) = (Up(b, n + 1, v) + Up(b, n, v)) % 2
      /\ Up(c1, n, v) = Up(c, n, v) /\ Up(d1, n, v) = Up(d, n, v)
  BY Products
<1> HIDE DEF a2, b3, c1, d1
<1>3. n \in 0 .. 4
  OBVIOUS
<1>4. /\ Up(a2, n, v) \in {0, 1} /\ Up(b3, n, v) \in {0, 1}
      /\ Up(c1, n, v) \in {0, 1} /\ Up(d1, n, v) \in {0, 1}
  BY <1>1, <1>3, UpIs
<1>5. bit = (Up(a2, n, v) + Up(b3, n, v) + Up(c1, n, v) + Up(d1, n, v)) % 2
  BY <1>2 DEF MixBit
<1> HIDE DEF bit
<1>6. ASSUME NEW t0 \in AesByte, NEW t1 \in AesByte, NEW t2 \in AesByte, NEW t3 \in AesByte
      PROVE  /\ t0 ++ t1 ++ t2 ++ t3 \in AesByte
             /\ Up(t0 ++ t1 ++ t2 ++ t3, n, v)
                  = (Up(t0, n, v) + Up(t1, n, v) + Up(t2, n, v) + Up(t3, n, v)) % 2
  BY <1>3, UpOfFour
<1>7. a2 ++ b3 ++ c1 ++ d1 \in AesByte /\ Up(a2 ++ b3 ++ c1 ++ d1, n, v) = bit
  BY <1>1, <1>5, <1>6
<1>8. /\ d1 ++ a2 ++ b3 ++ c1 \in AesByte
      /\ Up(d1 ++ a2 ++ b3 ++ c1, n, v)
           = (Up(d1, n, v) + Up(a2, n, v) + Up(b3, n, v) + Up(c1, n, v)) % 2
  BY <1>1, <1>6
<1>9. /\ c1 ++ d1 ++ a2 ++ b3 \in AesByte
      /\ Up(c1 ++ d1 ++ a2 ++ b3, n, v)
           = (Up(c1, n, v) + Up(d1, n, v) + Up(a2, n, v) + Up(b3, n, v)) % 2
  BY <1>1, <1>6
<1>10. /\ b3 ++ c1 ++ d1 ++ a2 \in AesByte
       /\ Up(b3 ++ c1 ++ d1 ++ a2, n, v)
            = (Up(b3, n, v) + Up(c1, n, v) + Up(d1, n, v) + Up(a2, n, v)) % 2
  BY <1>1, <1>6
<1>11. ASSUME NEW p \in {0, 1}, NEW q \in {0, 1}, NEW r \in {0, 1}, NEW t \in {0, 1}
       PROVE  /\ (t + p + q + r) % 2 = (p + q + r + t) % 2
              /\ (r + t + p + q) % 2 = (p + q + r + t) % 2
              /\ (q + r + t + p) % 2 = (p + q + r + t) % 2
  OBVIOUS
<1>12. /\ Up(d1 ++ a2 ++ b3 ++ c1, n, v) = bit
       /\ Up(c1 ++ d1 ++ a2 ++ b3, n, v) = bit
       /\ Up(b3 ++ c1 ++ d1 ++ a2, n, v) = bit
  BY <1>4, <1>5, <1>8, <1>9, <1>10, <1>11
<1> QED
  BY <1>7, <1>8, <1>9, <1>10, <1>12 DEF a2, b3, c1, d1, bit, MixedTo

(* A column that is mixed and unmixed is what it was, bit by bit.            *)
\* x, y, z and u are the mixed column, from the row of x on.
LEMMA UnmixedBits ==
    ASSUME NEW a \in AesByte, NEW b \in AesByte, NEW c \in AesByte, NEW d \in AesByte,
           NEW x, NEW y, NEW z, NEW u, NEW v \in BitValues,
           \A n \in 0 .. 3 : /\ Up(x, n, v) = MixBit(a, b, c, d, n, v)
                             /\ Up(y, n, v) = MixBit(b, c, d, a, n, v)
                             /\ Up(z, n, v) = MixBit(c, d, a, b, n, v)
                             /\ Up(u, n, v) = MixBit(d, a, b, c, n, v)
    PROVE  UnmixBit(x, y, z, u, v) = Bit(a, v)
<1>1. \A t \in AesByte : \A n \in 0 .. 4 : Up(t, n, v) \in {0, 1}
  BY UpIs
<1>2. /\ Up(a, 0, v) \in {0, 1} /\ Up(a, 1, v) \in {0, 1} /\ Up(a, 2, v) \in {0, 1}
      /\ Up(a, 3, v) \in {0, 1} /\ Up(a, 4, v) \in {0, 1}
      /\ Up(b, 0, v) \in {0, 1} /\ Up(b, 1, v) \in {0, 1} /\ Up(b, 2, v) \in {0, 1}
      /\ Up(b, 3, v) \in {0, 1} /\ Up(b, 4, v) \in {0, 1}
      /\ Up(c, 0, v) \in {0, 1} /\ Up(c, 1, v) \in {0, 1} /\ Up(c, 2, v) \in {0, 1}
      /\ Up(c, 3, v) \in {0, 1} /\ Up(c, 4, v) \in {0, 1}
      /\ Up(d, 0, v) \in {0, 1} /\ Up(d, 1, v) \in {0, 1} /\ Up(d, 2, v) \in {0, 1}
      /\ Up(d, 3, v) \in {0, 1} /\ Up(d, 4, v) \in {0, 1}
  BY <1>1
<1>3. /\ Up(x, 1, v) = MixBit(a, b, c, d, 1, v) /\ Up(x, 2, v) = MixBit(a, b, c, d, 2, v)
      /\ Up(x, 3, v) = MixBit(a, b, c, d, 3, v)
      /\ Up(y, 0, v) = MixBit(b, c, d, a, 0, v) /\ Up(y, 1, v) = MixBit(b, c, d, a, 1, v)
      /\ Up(y, 3, v) = MixBit(b, c, d, a, 3, v)
      /\ Up(z, 0, v) = MixBit(c, d, a, b, 0, v) /\ Up(z, 2, v) = MixBit(c, d, a, b, 2, v)
      /\ Up(z, 3, v) = MixBit(c, d, a, b, 3, v)
      /\ Up(u, 0, v) = MixBit(d, a, b, c, 0, v) /\ Up(u, 3, v) = MixBit(d, a, b, c, 3, v)
  OBVIOUS
<1>4. ASSUME NEW p, NEW q, NEW r, NEW t
      PROVE  /\ MixBit(p, q, r, t, 0, v)
                  = (Up(p, 1, v) + ((Up(q, 1, v) + Up(q, 0, v)) % 2)
                       + Up(r, 0, v) + Up(t, 0, v)) % 2
             /\ MixBit(p, q, r, t, 1, v)
                  = (Up(p, 2, v) + ((Up(q, 2, v) + Up(q, 1, v)) % 2)
                       + Up(r, 1, v) + Up(t, 1, v)) % 2
             /\ MixBit(p, q, r, t, 2, v)
                  = (Up(p, 3, v) + ((Up(q, 3, v) + Up(q, 2, v)) % 2)
                       + Up(r, 2, v) + Up(t, 2, v)) % 2
             /\ MixBit(p, q, r, t, 3, v)
                  = (Up(p, 4, v) + ((Up(q, 4, v) + Up(q, 3, v)) % 2)
                       + Up(r, 3, v) + Up(t, 3, v)) % 2
  <2>1. 0 + 1 = 1 /\ 1 + 1 = 2 /\ 2 + 1 = 3 /\ 3 + 1 = 4
    OBVIOUS
  <2> QED
    BY ONLY <2>1 DEF MixBit
<1>5. /\ Up(x, 1, v) = (Up(a, 2, v) + ((Up(b, 2, v) + Up(b, 1, v)) % 2) + Up(c, 1, v) + Up(d, 1, v)) % 2
      /\ Up(x, 2, v) = (Up(a, 3, v) + ((Up(b, 3, v) + Up(b, 2, v)) % 2) + Up(c, 2, v) + Up(d, 2, v)) % 2
      /\ Up(x, 3, v) = (Up(a, 4, v) + ((Up(b, 4, v) + Up(b, 3, v)) % 2) + Up(c, 3, v) + Up(d, 3, v)) % 2
  BY ONLY <1>3, <1>4
<1>6. /\ Up(y, 0, v) = (Up(b, 1, v) + ((Up(c, 1, v) + Up(c, 0, v)) % 2) + Up(d, 0, v) + Up(a, 0, v)) % 2
      /\ Up(y, 1, v) = (Up(b, 2, v) + ((Up(c, 2, v) + Up(c, 1, v)) % 2) + Up(d, 1, v) + Up(a, 1, v)) % 2
      /\ Up(y, 3, v) = (Up(b, 4, v) + ((Up(c, 4, v) + Up(c, 3, v)) % 2) + Up(d, 3, v) + Up(a, 3, v)) % 2
  BY ONLY <1>3, <1>4
<1>7. /\ Up(z, 0, v) = (Up(c, 1, v) + ((Up(d, 1, v) + Up(d, 0, v)) % 2) + Up(a, 0, v) + Up(b, 0, v)) % 2
      /\ Up(z, 2, v) = (Up(c, 3, v) + ((Up(d, 3, v) + Up(d, 2, v)) % 2) + Up(a, 2, v) + Up(b, 2, v)) % 2
      /\ Up(z, 3, v) = (Up(c, 4, v) + ((Up(d, 4, v) + Up(d, 3, v)) % 2) + Up(a, 3, v) + Up(b, 3, v)) % 2
  BY ONLY <1>3, <1>4
<1>8. /\ Up(u, 0, v) = (Up(d, 1, v) + ((Up(a, 1, v) + Up(a, 0, v)) % 2) + Up(b, 0, v) + Up(c, 0, v)) % 2
      /\ Up(u, 3, v) = (Up(d, 4, v) + ((Up(a, 4, v) + Up(a, 3, v)) % 2) + Up(b, 3, v) + Up(c, 3, v)) % 2
  BY ONLY <1>3, <1>4
<1> DEFINE a0 == Up(a, 0, v)
           a1 == Up(a, 1, v)
           a2 == Up(a, 2, v)
           a3 == Up(a, 3, v)
           a4 == Up(a, 4, v)
           b0 == Up(b, 0, v)
           b1 == Up(b, 1, v)
           b2 == Up(b, 2, v)
           b3 == Up(b, 3, v)
           b4 == Up(b, 4, v)
           c0 == Up(c, 0, v)
           c1 == Up(c, 1, v)
           c2 == Up(c, 2, v)
           c3 == Up(c, 3, v)
           c4 == Up(c, 4, v)
           d0 == Up(d, 0, v)
           d1 == Up(d, 1, v)
           d2 == Up(d, 2, v)
           d3 == Up(d, 3, v)
           d4 == Up(d, 4, v)
           x1 == Up(x, 1, v)
           x2 == Up(x, 2, v)
           x3 == Up(x, 3, v)
           y0 == Up(y, 0, v)
           y1 == Up(y, 1, v)
           y3 == Up(y, 3, v)
           z0 == Up(z, 0, v)
           z2 == Up(z, 2, v)
           z3 == Up(z, 3, v)
           u0 == Up(u, 0, v)
           u3 == Up(u, 3, v)
<1>9. (((x3 + x2 + x1) % 2) + ((y3 + y1 + y0) % 2)
         + ((z3 + z2 + z0) % 2) + ((u3 + u0) % 2)) % 2 = a0
  <2>1. a0 \in {0, 1} /\ a1 \in {0, 1} /\ a2 \in {0, 1} /\ a3 \in {0, 1} /\ a4 \in {0, 1}
    BY <1>2
  <2>2. b0 \in {0, 1} /\ b1 \in {0, 1} /\ b2 \in {0, 1} /\ b3 \in {0, 1} /\ b4 \in {0, 1}
    BY <1>2
  <2>3. c0 \in {0, 1} /\ c1 \in {0, 1} /\ c2 \in {0, 1} /\ c3 \in {0, 1} /\ c4 \in {0, 1}
    BY <1>2
  <2>4. d0 \in {0, 1} /\ d1 \in {0, 1} /\ d2 \in {0, 1} /\ d3 \in {0, 1} /\ d4 \in {0, 1}
    BY <1>2
  <2>5. /\ x1 = (a2 + ((b2 + b1) % 2) + c1 + d1) % 2
       /\ x2 = (a3 + ((b3 + b2) % 2) + c2 + d2) % 2
       /\ x3 = (a4 + ((b4 + b3) % 2) + c3 + d3) % 2
    BY <1>5
  <2>6. /\ y0 = (b1 + ((c1 + c0) % 2) + d0 + a0) % 2
       /\ y1 = (b2 + ((c2 + c1) % 2) + d1 + a1) % 2
       /\ y3 = (b4 + ((c4 + c3) % 2) + d3 + a3) % 2
    BY <1>6
  <2>7. /\ z0 = (c1 + ((d1 + d0) % 2) + a0 + b0) % 2
       /\ z2 = (c3 + ((d3 + d2) % 2) + a2 + b2) % 2
       /\ z3 = (c4 + ((d4 + d3) % 2) + a3 + b3) % 2
    BY <1>7
  <2>8. /\ u0 = (d1 + ((a1 + a0) % 2) + b0 + c0) % 2
       /\ u3 = (d4 + ((a4 + a3) % 2) + b3 + c3) % 2
    BY <1>8
  <2> HIDE DEF a0, a1, a2, a3, a4, b0, b1, b2, b3, b4, c0, c1, c2, c3, c4,
                d0, d1, d2, d3, d4, x1, x2, x3, y0, y1, y3, z0, z2, z3, u0, u3
  <2> QED
    BY ONLY <2>1, <2>2, <2>3, <2>4, <2>5, <2>6, <2>7, <2>8
<1>10. Up(a, 0, v) = Bit(a, v)
  BY DEF Up, Doubled
<1> QED
  BY <1>9, <1>10 DEF UnmixBit

LEMMA UnmixBits ==
    ASSUME NEW a \in AesByte, NEW b \in AesByte, NEW c \in AesByte, NEW d \in AesByte,
           NEW v \in BitValues
    PROVE  LET p == GfMul(a, 14)
               q == GfMul(b, 11)
               r == GfMul(c, 13)
               t == GfMul(d, 9)
           IN  /\ p ++ q ++ r ++ t \in AesByte /\ t ++ p ++ q ++ r \in AesByte
               /\ r ++ t ++ p ++ q \in AesByte /\ q ++ r ++ t ++ p \in AesByte
               /\ Bit(p ++ q ++ r ++ t, v) = UnmixBit(a, b, c, d, v)
               /\ Bit(t ++ p ++ q ++ r, v) = UnmixBit(a, b, c, d, v)
               /\ Bit(r ++ t ++ p ++ q, v) = UnmixBit(a, b, c, d, v)
               /\ Bit(q ++ r ++ t ++ p, v) = UnmixBit(a, b, c, d, v)
<1> DEFINE p == GfMul(a, 14)
           q == GfMul(b, 11)
           r == GfMul(c, 13)
           t == GfMul(d, 9)
           bit == UnmixBit(a, b, c, d, v)
<1>1. /\ p \in AesByte /\ q \in AesByte /\ r \in AesByte /\ t \in AesByte
  BY Products
<1>2. /\ Up(p, 0, v) = (Up(a, 3, v) + Up(a, 2, v) + Up(a, 1, v)) % 2
      /\ Up(q, 0, v) = (Up(b, 3, v) + Up(b, 1, v) + Up(b, 0, v)) % 2
      /\ Up(r, 0, v) = (Up(c, 3, v) + Up(c, 2, v) + Up(c, 0, v)) % 2
      /\ Up(t, 0, v) = (Up(d, 3, v) + Up(d, 0, v)) % 2
  BY Products
<1> HIDE DEF p, q, r, t
<1>3. 0 \in 0 .. 4
  OBVIOUS
<1>4. /\ Up(p, 0, v) \in {0, 1} /\ Up(q, 0, v) \in {0, 1}
      /\ Up(r, 0, v) \in {0, 1} /\ Up(t, 0, v) \in {0, 1}
  BY <1>1, <1>3, UpIs
<1>5. bit = (Up(p, 0, v) + Up(q, 0, v) + Up(r, 0, v) + Up(t, 0, v)) % 2
  BY <1>2 DEF UnmixBit
<1> HIDE DEF bit
<1>6. ASSUME NEW t0 \in AesByte, NEW t1 \in AesByte, NEW t2 \in AesByte, NEW t3 \in AesByte
      PROVE  /\ t0 ++ t1 ++ t2 ++ t3 \in AesByte
             /\ Bit(t0 ++ t1 ++ t2 ++ t3, v)
                  = (Up(t0, 0, v) + Up(t1, 0, v) + Up(t2, 0, v) + Up(t3, 0, v)) % 2
  <2>1. \A e : Up(e, 0, v) = Bit(e, v)
    BY DEF Up, Doubled
  <2> QED
    BY <1>3, <2>1, UpOfFour
<1>7. p ++ q ++ r ++ t \in AesByte /\ Bit(p ++ q ++ r ++ t, v) = bit
  BY <1>1, <1>5, <1>6
<1>8. /\ t ++ p ++ q ++ r \in AesByte
      /\ Bit(t ++ p ++ q ++ r, v)
           = (Up(t, 0, v) + Up(p, 0, v) + Up(q, 0, v) + Up(r, 0, v)) % 2
  BY <1>1, <1>6
<1>9. /\ r ++ t ++ p ++ q \in AesByte
      /\ Bit(r ++ t ++ p ++ q, v)
           = (Up(r, 0, v) + Up(t, 0, v) + Up(p, 0, v) + Up(q, 0, v)) % 2
  BY <1>1, <1>6
<1>10. /\ q ++ r ++ t ++ p \in AesByte
       /\ Bit(q ++ r ++ t ++ p, v)
            = (Up(q, 0, v) + Up(r, 0, v) + Up(t, 0, v) + Up(p, 0, v)) % 2
  BY <1>1, <1>6
<1>11. ASSUME NEW e \in {0, 1}, NEW f \in {0, 1}, NEW g \in {0, 1}, NEW h \in {0, 1}
       PROVE  /\ (h + e + f + g) % 2 = (e + f + g + h) % 2
              /\ (g + h + e + f) % 2 = (e + f + g + h) % 2
              /\ (f + g + h + e) % 2 = (e + f + g + h) % 2
  OBVIOUS
<1>12. /\ Bit(t ++ p ++ q ++ r, v) = bit
       /\ Bit(r ++ t ++ p ++ q, v) = bit
       /\ Bit(q ++ r ++ t ++ p, v) = bit
  BY <1>4, <1>5, <1>8, <1>9, <1>10, <1>11
<1> QED
  BY <1>7, <1>8, <1>9, <1>10, <1>12 DEF p, q, r, t, bit

(* The columns that MixColumns and InvMixColumns yield, bit by bit.          *)
LEMMA MixedColumn ==
    ASSUME NEW s, IsState(s), NEW c \in Index
    PROVE  /\ \A r \in Index : MixColumns(s)[<<r, c>>] \in AesByte
           /\ \A v \in BitValues : \A n \in 0 .. 3 :
                 /\ Up(MixColumns(s)[<<0, c>>], n, v)
                      = MixBit(s[<<0, c>>], s[<<1, c>>], s[<<2, c>>], s[<<3, c>>], n, v)
                 /\ Up(MixColumns(s)[<<1, c>>], n, v)
                      = MixBit(s[<<1, c>>], s[<<2, c>>], s[<<3, c>>], s[<<0, c>>], n, v)
                 /\ Up(MixColumns(s)[<<2, c>>], n, v)
                      = MixBit(s[<<2, c>>], s[<<3, c>>], s[<<0, c>>], s[<<1, c>>], n, v)
                 /\ Up(MixColumns(s)[<<3, c>>], n, v)
                      = MixBit(s[<<3, c>>], s[<<0, c>>], s[<<1, c>>], s[<<2, c>>], n, v)
<1> DEFINE a == s[<<0, c>>]
           b == s[<<1, c>>]
           e == s[<<2, c>>]
           f == s[<<3, c>>]
           column(r) == MixColumns(s)[<<r, c>>]
<1>1. a \in AesByte /\ b \in AesByte /\ e \in AesByte /\ f \in AesByte
  BY StateEntries DEF Index
<1>2. \A r \in Index : column(r) = Circulant(<<2, 3, 1, 1>>, s, r, c)
  BY DEF MixColumns
<1>3. /\ column(0) = GfMul(a, 2) ++ GfMul(b, 3) ++ GfMul(e, 1) ++ GfMul(f, 1)
      /\ column(1) = GfMul(a, 1) ++ GfMul(b, 2) ++ GfMul(e, 3) ++ GfMul(f, 1)
      /\ column(2) = GfMul(a, 1) ++ GfMul(b, 1) ++ GfMul(e, 2) ++ GfMul(f, 3)
      /\ column(3) = GfMul(a, 3) ++ GfMul(b, 1) ++ GfMul(e, 1) ++ GfMul(f, 2)
  <2>1. 0 \in Index /\ 1 \in Index /\ 2 \in Index /\ 3 \in Index
    BY DEF Index
  <2> HIDE DEF column
  <2> QED
    BY <1>2, <2>1, Terms
<1> HIDE DEF a, b, e, f, column
<1>4. ASSUME NEW v \in BitValues, NEW n \in 0 .. 3
      PROVE  /\ column(0) \in AesByte /\ Up(column(0), n, v) = MixBit(a, b, e, f, n, v)
             /\ column(1) \in AesByte /\ Up(column(1), n, v) = MixBit(b, e, f, a, n, v)
             /\ column(2) \in AesByte /\ Up(column(2), n, v) = MixBit(e, f, a, b, n, v)
             /\ column(3) \in AesByte /\ Up(column(3), n, v) = MixBit(f, a, b, e, n, v)
  <2>1. MixedTo(GfMul(a, 2) ++ GfMul(b, 3) ++ GfMul(e, 1) ++ GfMul(f, 1), a, b, e, f, n, v)
    BY <1>1, MixBits
  <2>2. MixedTo(GfMul(a, 1) ++ GfMul(b, 2) ++ GfMul(e, 3) ++ GfMul(f, 1), b, e, f, a, n, v)
    BY <1>1, MixBits
  <2>3. MixedTo(GfMul(a, 1) ++ GfMul(b, 1) ++ GfMul(e, 2) ++ GfMul(f, 3), e, f, a, b, n, v)
    BY <1>1, MixBits
  <2>4. MixedTo(GfMul(a, 3) ++ GfMul(b, 1) ++ GfMul(e, 1) ++ GfMul(f, 2), f, a, b, e, n, v)
    BY <1>1, MixBits
  <2>5. /\ MixedTo(column(0), a, b, e, f, n, v) /\ MixedTo(column(1), b, e, f, a, n, v)
        /\ MixedTo(column(2), e, f, a, b, n, v) /\ MixedTo(column(3), f, a, b, e, n, v)
    BY ONLY <1>3, <2>1, <2>2, <2>3, <2>4
  <2> QED
    BY ONLY <2>5 DEF MixedTo
<1>5. \A r \in Index : column(r) \in AesByte
  <2>1. 1 \in BitValues /\ 0 \in 0 .. 3
    BY DEF BitValues
  <2>2. \A r \in Index : r = 0 \/ r = 1 \/ r = 2 \/ r = 3
    BY DEF Index
  <2> QED
    BY <1>4, <2>1, <2>2
<1> QED
  BY <1>4, <1>5 DEF a, b, e, f, column

LEMMA UnmixedColumn ==
    ASSUME NEW s, IsState(s), NEW c \in Index
    PROVE  /\ \A r \in Index : InvMixColumns(s)[<<r, c>>] \in AesByte
           /\ \A v \in BitValues :
                 /\ Bit(InvMixColumns(s)[<<0, c>>], v)
                      = UnmixBit(s[<<0, c>>], s[<<1, c>>], s[<<2, c>>], s[<<3, c>>], v)
                 /\ Bit(InvMixColumns(s)[<<1, c>>], v)
                      = UnmixBit(s[<<1, c>>], s[<<2, c>>], s[<<3, c>>], s[<<0, c>>], v)
                 /\ Bit(InvMixColumns(s)[<<2, c>>], v)
                      = UnmixBit(s[<<2, c>>], s[<<3, c>>], s[<<0, c>>], s[<<1, c>>], v)
                 /\ Bit(InvMixColumns(s)[<<3, c>>], v)
                      = UnmixBit(s[<<3, c>>], s[<<0, c>>], s[<<1, c>>], s[<<2, c>>], v)
<1> DEFINE a == s[<<0, c>>]
           b == s[<<1, c>>]
           e == s[<<2, c>>]
           f == s[<<3, c>>]
           column(r) == InvMixColumns(s)[<<r, c>>]
<1>1. a \in AesByte /\ b \in AesByte /\ e \in AesByte /\ f \in AesByte
  BY StateEntries DEF Index
<1>2. \A r \in Index : column(r) = Circulant(<<14, 11, 13, 9>>, s, r, c)
  BY DEF InvMixColumns
<1>3. /\ column(0) = GfMul(a, 14) ++ GfMul(b, 11) ++ GfMul(e, 13) ++ GfMul(f, 9)
      /\ column(1) = GfMul(a, 9) ++ GfMul(b, 14) ++ GfMul(e, 11) ++ GfMul(f, 13)
      /\ column(2) = GfMul(a, 13) ++ GfMul(b, 9) ++ GfMul(e, 14) ++ GfMul(f, 11)
      /\ column(3) = GfMul(a, 11) ++ GfMul(b, 13) ++ GfMul(e, 9) ++ GfMul(f, 14)
  <2>1. 0 \in Index /\ 1 \in Index /\ 2 \in Index /\ 3 \in Index
    BY DEF Index
  <2>2. /\ Circulant(<<14, 11, 13, 9>>, s, 0, c)
               = GfMul(a, 14) ++ GfMul(b, 11) ++ GfMul(e, 13) ++ GfMul(f, 9)
        /\ Circulant(<<14, 11, 13, 9>>, s, 1, c)
               = GfMul(a, 9) ++ GfMul(b, 14) ++ GfMul(e, 11) ++ GfMul(f, 13)
        /\ Circulant(<<14, 11, 13, 9>>, s, 2, c)
               = GfMul(a, 13) ++ GfMul(b, 9) ++ GfMul(e, 14) ++ GfMul(f, 11)
        /\ Circulant(<<14, 11, 13, 9>>, s, 3, c)
               = GfMul(a, 11) ++ GfMul(b, 13) ++ GfMul(e, 9) ++ GfMul(f, 14)
    BY Terms
  <2> HIDE DEF column, a, b, e, f
  <2> QED
    BY <1>2, <2>1, <2>2
<1> HIDE DEF a, b, e, f, column
<1>4. ASSUME NEW v \in BitValues
      PROVE  /\ column(0) \in AesByte /\ Bit(column(0), v) = UnmixBit(a, b, e, f, v)
             /\ column(1) \in AesByte /\ Bit(column(1), v) = UnmixBit(b, e, f, a, v)
             /\ column(2) \in AesByte /\ Bit(column(2), v) = UnmixBit(e, f, a, b, v)
             /\ column(3) \in AesByte /\ Bit(column(3), v) = UnmixBit(f, a, b, e, v)
  <2>1. column(0) \in AesByte /\ Bit(column(0), v) = UnmixBit(a, b, e, f, v)
    BY ONLY <1>1, <1>3, <1>4, UnmixBits
  <2>2. column(1) \in AesByte /\ Bit(column(1), v) = UnmixBit(b, e, f, a, v)
    BY ONLY <1>1, <1>3, <1>4, UnmixBits
  <2>3. column(2) \in AesByte /\ Bit(column(2), v) = UnmixBit(e, f, a, b, v)
    BY ONLY <1>1, <1>3, <1>4, UnmixBits
  <2>4. column(3) \in AesByte /\ Bit(column(3), v) = UnmixBit(f, a, b, e, v)
    BY ONLY <1>1, <1>3, <1>4, UnmixBits
  <2> QED
    BY <2>1, <2>2, <2>3, <2>4
<1>5. \A r \in Index : column(r) \in AesByte
  <2>1. 1 \in BitValues
    BY DEF BitValues
  <2>2. \A r \in Index : r = 0 \/ r = 1 \/ r = 2 \/ r = 3
    BY DEF Index
  <2> QED
    BY <1>4, <2>1, <2>2
<1> QED
  BY <1>4, <1>5 DEF a, b, e, f, column

(* InvMixColumns undoes MixColumns.                                          *)
LEMMA Unmixed ==
    ASSUME NEW s, IsState(s)
    PROVE  /\ IsState(MixColumns(s)) /\ IsState(InvMixColumns(s))
           /\ InvMixColumns(MixColumns(s)) = s
<1>1. ASSUME NEW t, IsState(t)
      PROVE  IsState(MixColumns(t)) /\ IsState(InvMixColumns(t))
  <2>1. \A r, c \in Index : /\ MixColumns(t)[<<r, c>>] \in AesByte
                            /\ InvMixColumns(t)[<<r, c>>] \in AesByte
    BY <1>1, MixedColumn, UnmixedColumn
  <2>2. \A p \in Index \X Index : /\ MixColumns(t)[p] \in AesByte
                                  /\ InvMixColumns(t)[p] \in AesByte
    BY <2>1
  <2>3. /\ MixColumns(t) = [p \in Index \X Index |-> MixColumns(t)[p]]
        /\ InvMixColumns(t) = [p \in Index \X Index |-> InvMixColumns(t)[p]]
    BY DEF MixColumns, InvMixColumns
  <2> QED
    BY <2>2, <2>3 DEF IsState
<1>2. ASSUME NEW c \in Index
      PROVE  \A r \in Index : InvMixColumns(MixColumns(s))[<<r, c>>] = s[<<r, c>>]
  <2> DEFINE m == MixColumns(s)
             back(r) == InvMixColumns(m)[<<r, c>>]
             in(r) == s[<<r, c>>]
             mixed(r) == m[<<r, c>>]
  <2>1. IsState(m)
    BY <1>1
  <2>2. \A r \in Index : back(r) \in AesByte /\ in(r) \in AesByte
    BY <2>1, UnmixedColumn, StateEntries
  <2>3. in(0) \in AesByte /\ in(1) \in AesByte /\ in(2) \in AesByte /\ in(3) \in AesByte
    BY <2>2 DEF Index
  <2>4. ASSUME NEW v \in BitValues
        PROVE  /\ Bit(back(0), v) = Bit(in(0), v) /\ Bit(back(1), v) = Bit(in(1), v)
               /\ Bit(back(2), v) = Bit(in(2), v) /\ Bit(back(3), v) = Bit(in(3), v)
    <3>1. \A n \in 0 .. 3 :
             /\ Up(mixed(0), n, v) = MixBit(in(0), in(1), in(2), in(3), n, v)
             /\ Up(mixed(1), n, v) = MixBit(in(1), in(2), in(3), in(0), n, v)
             /\ Up(mixed(2), n, v) = MixBit(in(2), in(3), in(0), in(1), n, v)
             /\ Up(mixed(3), n, v) = MixBit(in(3), in(0), in(1), in(2), n, v)
      BY MixedColumn
    <3>2. /\ Bit(back(0), v) = UnmixBit(mixed(0), mixed(1), mixed(2), mixed(3), v)
          /\ Bit(back(1), v) = UnmixBit(mixed(1), mixed(2), mixed(3), mixed(0), v)
          /\ Bit(back(2), v) = UnmixBit(mixed(2), mixed(3), mixed(0), mixed(1), v)
          /\ Bit(back(3), v) = UnmixBit(mixed(3), mixed(0), mixed(1), mixed(2), v)
      BY <2>1, UnmixedColumn
    <3> HIDE DEF back, in, mixed
    <3>3. UnmixBit(mixed(0), mixed(1), mixed(2), mixed(3), v) = Bit(in(0), v)
      BY ONLY <2>3, <2>4, <3>1, UnmixedBits
    <3>4. UnmixBit(mixed(1), mixed(2), mixed(3), mixed(0), v) = Bit(in(1), v)
      BY ONLY <2>3, <2>4, <3>1, UnmixedBits
    <3>5. UnmixBit(mixed(2), mixed(3), mixed(0), mixed(1), v) = Bit(in(2), v)
      BY ONLY <2>3, <2>4, <3>1, UnmixedBits
    <3>6. UnmixBit(mixed(3), mixed(0), mixed(1), mixed(2), v) = Bit(in(3), v)
      BY ONLY <2>3, <2>4, <3>1, UnmixedBits
    <3> QED
      BY <3>2, <3>3, <3>4, <3>5, <3>6
  <2>5. \A r \in Index : r = 0 \/ r = 1 \/ r = 2 \/ r = 3
    BY DEF Index
  <2> HIDE DEF back, in
  <2>6. \A r \in Index : \A v \in BitValues : Bit(back(r), v) = Bit(in(r), v)
    BY <2>4, <2>5
  <2>7. \A r \in Index : back(r) = in(r)
    BY <2>2, <2>6, SameBits
  <2> QED
    BY <2>7 DEF back, in
<1>3. IsState(InvMixColumns(MixColumns(s)))
  BY <1>1
<1> QED
  BY <1>1, <1>2, <1>3, SameStates

-----------------------------------------------------------------------------
(* AesCipher: every transformation has its inverse *)

(* aes_invsbox is the inverse of aes_sbox.                                   *)
LEMMA SboxesAreInverse ==
    ASSUME NEW b \in AesByte
    PROVE  Sbox(b) \in AesByte /\ InvSbox(b) \in AesByte /\ InvSbox(Sbox(b)) = b
<1>1. /\ aes_sbox[1 + b] \in AesByte /\ aes_invsbox[1 + b] \in AesByte
  BY DEF aes_sbox, aes_invsbox, AesByte
<1>2. aes_invsbox[1 + aes_sbox[1 + b]] = b
  BY DEF aes_sbox, aes_invsbox, AesByte
<1> QED
  BY <1>1, <1>2 DEF Sbox, InvSbox

(* A state whose entries are written in terms of the places.                 *)
LEMMA StateIs ==
    ASSUME NEW t, DOMAIN t = Index \X Index, t = [p \in Index \X Index |-> t[p]],
           \A r, c \in Index : t[<<r, c>>] \in AesByte
    PROVE  IsState(t)
<1>1. \A p \in Index \X Index : t[p] \in AesByte
  OBVIOUS
<1> QED
  BY <1>1 DEF IsState

LEMMA Unsubstituted ==
    ASSUME NEW s, IsState(s)
    PROVE  /\ IsState(SubBytes(s)) /\ IsState(InvSubBytes(s))
           /\ InvSubBytes(SubBytes(s)) = s
<1>1. ASSUME NEW t, IsState(t)
      PROVE  /\ IsState(SubBytes(t)) /\ IsState(InvSubBytes(t))
             /\ \A r, c \in Index : /\ SubBytes(t)[<<r, c>>] = Sbox(t[<<r, c>>])
                                    /\ InvSubBytes(t)[<<r, c>>] = InvSbox(t[<<r, c>>])
  <2>1. \A r, c \in Index : t[<<r, c>>] \in AesByte
    BY <1>1, StateEntries
  <2>2. \A p \in Index \X Index : Sbox(t[p]) \in AesByte /\ InvSbox(t[p]) \in AesByte
    BY <2>1, SboxesAreInverse
  <2> QED
    BY <2>2 DEF IsState, SubBytes, InvSubBytes
<1>2. \A r, c \in Index : InvSubBytes(SubBytes(s))[<<r, c>>] = InvSbox(Sbox(s[<<r, c>>]))
  <2>1. IsState(SubBytes(s))
    BY <1>1
  <2>2. \A r, c \in Index : SubBytes(s)[<<r, c>>] = Sbox(s[<<r, c>>])
    BY <1>1
  <2>3. \A r, c \in Index :
           InvSubBytes(SubBytes(s))[<<r, c>>] = InvSbox(SubBytes(s)[<<r, c>>])
    BY <1>1, <2>1
  <2> QED
    BY <2>2, <2>3
<1>3. \A r, c \in Index : InvSbox(Sbox(s[<<r, c>>])) = s[<<r, c>>]
  BY StateEntries, SboxesAreInverse
<1>4. IsState(InvSubBytes(SubBytes(s)))
  BY <1>1
<1> QED
  BY <1>1, <1>2, <1>3, <1>4, SameStates

LEMMA Unshifted ==
    ASSUME NEW s, IsState(s)
    PROVE  /\ IsState(ShiftRows(s)) /\ IsState(InvShiftRows(s))
           /\ InvShiftRows(ShiftRows(s)) = s
<1>1. \A r, c \in Index : /\ (c + r) % 4 \in Index /\ (c - r) % 4 \in Index
                          /\ (((c - r) % 4) + r) % 4 = c
  BY DEF Index
<1>2. ASSUME NEW t, IsState(t)
      PROVE  /\ IsState(ShiftRows(t)) /\ IsState(InvShiftRows(t))
             /\ \A r, c \in Index : /\ ShiftRows(t)[<<r, c>>] = t[<<r, (c + r) % 4>>]
                                    /\ InvShiftRows(t)[<<r, c>>] = t[<<r, (c - r) % 4>>]
  <2>1. \A r, c \in Index : /\ ShiftRows(t)[<<r, c>>] = t[<<r, (c + r) % 4>>]
                            /\ InvShiftRows(t)[<<r, c>>] = t[<<r, (c - r) % 4>>]
    BY DEF ShiftRows, InvShiftRows
  <2>2. \A r, c \in Index : /\ ShiftRows(t)[<<r, c>>] \in AesByte
                            /\ InvShiftRows(t)[<<r, c>>] \in AesByte
    <3>1. ASSUME NEW r \in Index, NEW c \in Index
          PROVE  t[<<r, (c + r) % 4>>] \in AesByte /\ t[<<r, (c - r) % 4>>] \in AesByte
      <4> DEFINE up == (c + r) % 4
                 down == (c - r) % 4
      <4>1. up \in Index /\ down \in Index
        BY <1>1
      <4> HIDE DEF up, down
      <4>2. t[<<r, up>>] \in AesByte /\ t[<<r, down>>] \in AesByte
        BY <1>2, <4>1, StateEntries
      <4> QED
        BY <4>2 DEF up, down
    <3> QED
      BY <2>1, <3>1
  <2>3. /\ ShiftRows(t) = [p \in Index \X Index |-> ShiftRows(t)[p]]
        /\ DOMAIN ShiftRows(t) = Index \X Index
        /\ InvShiftRows(t) = [p \in Index \X Index |-> InvShiftRows(t)[p]]
        /\ DOMAIN InvShiftRows(t) = Index \X Index
    BY DEF ShiftRows, InvShiftRows
  <2>4. IsState(ShiftRows(t))
    BY <2>2, <2>3, StateIs
  <2>5. IsState(InvShiftRows(t))
    BY <2>2, <2>3, StateIs
  <2> QED
    BY <2>1, <2>4, <2>5
<1>3. ASSUME NEW r \in Index, NEW c \in Index
      PROVE  InvShiftRows(ShiftRows(s))[<<r, c>>] = s[<<r, c>>]
  <2> DEFINE from == (c - r) % 4
  <2>1. from \in Index /\ (from + r) % 4 = c
    BY <1>1
  <2>2. InvShiftRows(ShiftRows(s))[<<r, c>>] = ShiftRows(s)[<<r, from>>]
    BY <1>2
  <2> HIDE DEF from
  <2>3. ShiftRows(s)[<<r, from>>] = s[<<r, (from + r) % 4>>]
    BY <1>2, <2>1
  <2> QED
    BY <2>1, <2>2, <2>3
<1>4. IsState(InvShiftRows(ShiftRows(s)))
  BY <1>2
<1> QED
  BY <1>2, <1>3, <1>4, SameStates

\* The words of a key schedule.
AreWords(v) == v \in Seq([1 .. 4 -> AesByte])

LEMMA WordEntries ==
    ASSUME NEW v, AreWords(v), NEW k \in 1 .. Len(v), NEW l \in 1 .. 4
    PROVE  v[k][l] \in AesByte
<1>1. v[k] \in [1 .. 4 -> AesByte]
  BY DEF AreWords
<1> QED
  BY <1>1

\* AddRoundKey with the words v.
WithKey(v, s, n) == [p \in Index \X Index |-> s[p] ++ v[Nb * n + p[2] + 1][p[1] + 1]]

LEMMA KeyAddedTwice ==
    ASSUME NEW s, IsState(s), NEW v, AreWords(v), NEW n \in Nat, Nb * n + 4 <= Len(v)
    PROVE  IsState(WithKey(v, s, n)) /\ WithKey(v, WithKey(v, s, n), n) = s
<1> DEFINE key(r, c) == v[Nb * n + c + 1][r + 1]
<1>1. \A r, c \in Index : key(r, c) \in AesByte
  <2>1. Len(v) \in Nat
    BY DEF AreWords
  <2>2. \A r, c \in Index : Nb * n + c + 1 \in 1 .. Len(v) /\ r + 1 \in 1 .. 4
    BY <2>1 DEF Nb, Index
  <2> QED
    BY <2>2, WordEntries
<1>2. ASSUME NEW t, IsState(t)
      PROVE  /\ IsState(WithKey(v, t, n))
             /\ \A r, c \in Index : WithKey(v, t, n)[<<r, c>>] = t[<<r, c>>] ++ key(r, c)
  <2>1. \A r, c \in Index : WithKey(v, t, n)[<<r, c>>] = t[<<r, c>>] ++ key(r, c)
    BY DEF WithKey
  <2> HIDE DEF key
  <2>2. \A r, c \in Index : t[<<r, c>>] ++ key(r, c) \in AesByte
    BY <1>1, <1>2, StateEntries, XorBits
  <2>3. \A r, c \in Index : WithKey(v, t, n)[<<r, c>>] \in AesByte
    BY <2>1, <2>2
  <2>4. /\ WithKey(v, t, n) = [p \in Index \X Index |-> WithKey(v, t, n)[p]]
        /\ DOMAIN WithKey(v, t, n) = Index \X Index
    BY DEF WithKey
  <2>5. IsState(WithKey(v, t, n))
    BY <2>3, <2>4, StateIs
  <2> QED
    BY <2>1, <2>5
<1> HIDE DEF key
<1>3. IsState(WithKey(v, s, n)) /\ IsState(WithKey(v, WithKey(v, s, n), n))
  BY <1>2
<1>4. ASSUME NEW r \in Index, NEW c \in Index
      PROVE  WithKey(v, WithKey(v, s, n), n)[<<r, c>>] = s[<<r, c>>]
  <2>1. WithKey(v, WithKey(v, s, n), n)[<<r, c>>] = (s[<<r, c>>] ++ key(r, c)) ++ key(r, c)
    BY <1>2, <1>3
  <2> QED
    BY <1>1, <2>1, StateEntries, XorTwice
<1> QED
  BY <1>3, <1>4, SameStates

\* The blocks of the cipher.
IsBlock(b) == b \in [1 .. 16 -> AesByte]

LEMMA BlockKept ==
    ASSUME NEW b, IsBlock(b)
    PROVE  IsState(ToState(b)) /\ FromState(ToState(b)) = b
<1>1. \A r, c \in Index : 4 * c + r + 1 \in 1 .. 16
  BY DEF Index
<1>2. \A k \in 1 .. 16 : b[k] \in AesByte
  BY DEF IsBlock
<1>3. \A r, c \in Index : ToState(b)[<<r, c>>] = b[4 * c + r + 1]
  BY DEF ToState
<1>4. IsState(ToState(b))
  <2>1. /\ ToState(b) = [p \in Index \X Index |-> ToState(b)[p]]
        /\ DOMAIN ToState(b) = Index \X Index
    BY DEF ToState
  <2> QED
    BY <1>1, <1>2, <1>3, <2>1, StateIs
<1>5. ASSUME NEW k \in 1 .. 16
      PROVE  FromState(ToState(b))[k] = b[k]
  <2>1. /\ (k - 1) % 4 \in Index /\ (k - 1) \div 4 \in Index
        /\ 4 * ((k - 1) \div 4) + ((k - 1) % 4) + 1 = k
    BY DEF Index
  <2>2. FromState(ToState(b))[k] = ToState(b)[<<(k - 1) % 4, (k - 1) \div 4>>]
    BY DEF FromState
  <2> QED
    BY <1>3, <2>1, <2>2
<1>6. FromState(ToState(b)) = [k \in 1 .. 16 |-> FromState(ToState(b))[k]]
  BY DEF FromState
<1>7. b = [k \in 1 .. 16 |-> b[k]]
  BY DEF IsBlock
<1> QED
  BY <1>4, <1>5, <1>6, <1>7

-----------------------------------------------------------------------------
(* AesCipher: decryption goes back through the rounds *)

\* What a round of encryption, number n of rounds, has made of s before a step.
Partly(rounds, s, n, step) ==
    CASE step = "sub" -> s
      [] step = "shift" -> SubBytes(s)
      [] step = "mix" -> ShiftRows(SubBytes(s))
      [] step = "add" -> IF n = rounds THEN ShiftRows(SubBytes(s))
                                       ELSE MixColumns(ShiftRows(SubBytes(s)))

\* The trace is that of the rounds with the words v.
Traced(v, rounds, block, tr) ==
    /\ tr[1] = WithKey(v, ToState(block), 0)
    /\ \A n \in 1 .. Len(tr) - 1 :
          tr[n + 1] = WithKey(v, Partly(rounds, tr[n], n, "add"), n)

AreStates(tr) == tr \in Seq([Index \X Index -> AesByte])

CipherTypes ==
    /\ aes_at \in {"idle", "key", "ready", "encrypt", "decrypt", "done"}
    /\ keysize \in KeySizes \cup {0}
    /\ aes_key \in Seq(AesByte)
    /\ aes_round \in 0 .. 14
    /\ aes_step \in {"sub", "shift", "mix", "add"}
    /\ AreWords(w) /\ IsBlock(in_block) /\ IsState(state) /\ AreStates(trace)

KeyInv ==
    /\ aes_at = "idle" => keysize = 0 /\ w = <<>>
    /\ aes_at # "idle" => keysize \in {128, 192, 256}
    /\ aes_at = "key" => Len(w) \in Nk .. Nb * (Nr + 1)
    /\ aes_at \in {"ready", "encrypt", "decrypt", "done"} => Len(w) = Nb * (Nr + 1)

EncryptInv ==
    aes_at = "encrypt" =>
        /\ aes_round \in 1 .. Nr /\ Len(trace) = aes_round
        /\ Traced(w, Nr, in_block, trace)
        /\ aes_step = "mix" => aes_round < Nr
        /\ state = Partly(Nr, trace[aes_round], aes_round, aes_step)

\* The state that encryption had at this place.
Undone(rounds, tr, n, step) ==
    CASE step = "add" -> tr[n + 1]
      [] step = "mix" -> Partly(rounds, tr[n], n, "add")
      [] step = "shift" -> Partly(rounds, tr[n], n, "mix")
      [] step = "sub" -> Partly(rounds, tr[n], n, "shift")

DecryptInv ==
    aes_at = "decrypt" =>
        /\ aes_round \in 0 .. Nr /\ Len(trace) = Nr + 1
        /\ Traced(w, Nr, in_block, trace)
        /\ aes_step # "add" => aes_round > 0
        /\ aes_step = "mix" => aes_round < Nr
        /\ state = Undone(Nr, trace, aes_round, aes_step)

CipherInv ==
    /\ CipherTypes
    /\ KeyInv /\ EncryptInv /\ DecryptInv
    /\ aes_at = "done" => state = ToState(in_block)

LEMMA CipherTypesOK ==
    ASSUME CipherTypes, KeyInv
    PROVE  CipherTypeOK
<1>1. Len(w) <= (keysize \div 8) + 28
  <2>1. CASE aes_at = "idle"
    BY <2>1 DEF KeyInv
  <2>2. CASE aes_at # "idle"
    <3>1. keysize = 128 \/ keysize = 192 \/ keysize = 256
      BY <2>2 DEF KeyInv
    <3>2. Len(w) <= Nb * (Nr + 1)
      <4>1. Nr \in Nat /\ Nk \in Nat
        BY <3>1 DEF Nr, Nk
      <4>2. CASE aes_at = "key"
        BY <4>1, <4>2 DEF KeyInv, Nb
      <4>3. CASE aes_at # "key"
        BY <2>2, <4>1, <4>3 DEF KeyInv, CipherTypes, Nb
      <4> QED
        BY <4>2, <4>3
    <3>3. Nb * (Nr + 1) = (keysize \div 8) + 28
      BY <3>1 DEF Nr, Nb
    <3> QED
      BY <3>2, <3>3
  <2> QED
    BY <2>1, <2>2
<1> QED
  BY <1>1 DEF CipherTypes, CipherTypeOK, AreWords, IsBlock, IsState, AreStates

LEMMA CipherRounds ==
    ASSUME KeyInv, aes_at # "idle"
    PROVE  /\ Nr \in {10, 12, 14} /\ Nk \in {4, 6, 8}
           /\ keysize = 32 * Nk /\ Nr = Nk + 6
BY DEF KeyInv, Nr, Nk

LEMMA EntryIsState ==
    ASSUME NEW tr, AreStates(tr), NEW n \in 1 .. Len(tr)
    PROVE  IsState(tr[n])
<1> DEFINE S == [Index \X Index -> AesByte]
<1>1. tr \in Seq(S)
  BY DEF AreStates
<1> HIDE DEF S
<1>2. tr[n] \in S
  BY <1>1
<1> QED
  BY <1>2 DEF S, IsState

LEMMA PartlyIs ==
    ASSUME NEW s, IsState(s), NEW rounds, NEW n,
           NEW step \in {"sub", "shift", "mix", "add"}
    PROVE  IsState(Partly(rounds, s, n, step))
<1>1. IsState(SubBytes(s))
  BY Unsubstituted
<1>2. IsState(ShiftRows(SubBytes(s)))
  BY <1>1, Unshifted
<1>3. IsState(MixColumns(ShiftRows(SubBytes(s))))
  BY <1>2, Unmixed
<1> QED
  BY <1>1, <1>2, <1>3 DEF Partly

LEMMA TraceGrows ==
    ASSUME NEW v, NEW rounds, NEW block, NEW tr, NEW t, AreStates(tr), IsState(t),
           Traced(v, rounds, block, tr), Len(tr) > 0,
           t = WithKey(v, Partly(rounds, tr[Len(tr)], Len(tr), "add"), Len(tr))
    PROVE  /\ AreStates(Append(tr, t)) /\ Len(Append(tr, t)) = Len(tr) + 1
           /\ Append(tr, t)[Len(tr) + 1] = t
           /\ Traced(v, rounds, block, Append(tr, t))
<1> DEFINE longer == Append(tr, t)
<1>1. Len(tr) \in Nat \ {0}
  BY DEF AreStates
<1>2. /\ AreStates(longer) /\ Len(longer) = Len(tr) + 1 /\ longer[Len(tr) + 1] = t
      /\ \A n \in 1 .. Len(tr) : longer[n] = tr[n]
  BY DEF AreStates, IsState
<1> HIDE DEF longer
<1>3. longer[1] = tr[1]
  BY <1>1, <1>2
<1>4. ASSUME NEW n \in 1 .. Len(longer) - 1
      PROVE  longer[n + 1] = WithKey(v, Partly(rounds, longer[n], n, "add"), n)
  <2>1. n \in 1 .. Len(tr) /\ longer[n] = tr[n]
    BY <1>1, <1>2
  <2>2. CASE n = Len(tr)
    BY <1>2, <2>1, <2>2
  <2>3. CASE n # Len(tr)
    <3>1. n \in 1 .. Len(tr) - 1 /\ n + 1 \in 1 .. Len(tr)
      BY <1>1, <2>1, <2>3
    <3>2. tr[n + 1] = WithKey(v, Partly(rounds, tr[n], n, "add"), n)
      BY <3>1 DEF Traced
    <3> QED
      BY <1>2, <2>1, <3>1, <3>2
  <2> QED
    BY <2>2, <2>3
<1>5. Traced(v, rounds, block, longer)
  BY <1>3, <1>4 DEF Traced
<1> QED
  BY <1>2, <1>5 DEF longer

(* The key of a round is written when there is one for every round.          *)
LEMMA KeyOfRound ==
    ASSUME CipherInv, aes_at \in {"ready", "encrypt", "decrypt"}, NEW n \in 0 .. Nr,
           NEW s, IsState(s)
    PROVE  /\ AddRoundKey(s, n) = WithKey(w, s, n) /\ IsState(WithKey(w, s, n))
           /\ WithKey(w, WithKey(w, s, n), n) = s
<1>1. Nr \in Nat /\ Len(w) = Nb * (Nr + 1) /\ AreWords(w)
  BY CipherRounds DEF CipherInv, CipherTypes, KeyInv
<1>2. n \in Nat /\ Nb * n + 4 <= Len(w)
  BY <1>1 DEF Nb
<1>3. IsState(WithKey(w, s, n)) /\ WithKey(w, WithKey(w, s, n), n) = s
  BY <1>1, <1>2, KeyAddedTwice
<1>4. AddRoundKey(s, n) = WithKey(w, s, n)
  BY DEF AddRoundKey, WithKey
<1> QED
  BY <1>3, <1>4

-----------------------------------------------------------------------------
(* AesCipher: the steps of the key schedule *)

AreBytes(v) == v \in [1 .. 4 -> AesByte]

(* An entry of Rcon is a word.                                               *)
LEMMA RconIs ==
    ASSUME NEW n \in Nat
    PROVE  AreBytes(Rcon(n))
<1> DEFINE Powers(f) == f = [k \in Nat |-> IF k = 0 THEN 1 ELSE Double(f[k - 1])]
           step == [k \in Nat |-> [b \in AesByte |-> Double(b)]]
<1>1. DOMAIN step = Nat /\ \A m \in Nat : \A b \in AesByte : step[m][b] \in AesByte
  BY DoubleBits
<1>2. \A k \in Nat, b \in AesByte : step[k][b] = Double(b)
  OBVIOUS
<1>3. 1 \in AesByte
  BY DEF AesByte
<1> HIDE DEF step
<1>4. PICK g : /\ g[0] = 1 /\ g = [k \in Nat |-> g[k]]
               /\ \A k \in Nat : g[k] \in AesByte /\ g[k + 1] = step[k][g[k]]
  BY <1>1, <1>3, IteratesForever
<1>5. \A k \in Nat : g[k] = IF k = 0 THEN 1 ELSE Double(g[k - 1])
  <2> TAKE k \in Nat
  <2>1. CASE k = 0
    BY <1>4, <2>1
  <2>2. CASE k # 0
    <3>1. k - 1 \in Nat /\ (k - 1) + 1 = k
      BY <2>2
    <3>2. g[k] = step[k - 1][g[k - 1]] /\ g[k - 1] \in AesByte
      BY <1>4, <3>1
    <3> QED
      BY <1>2, <2>2, <3>1, <3>2
  <2> QED
    BY <2>1, <2>2
<1>6. Powers(g)
  BY <1>4, <1>5
<1> DEFINE f == CHOOSE f : Powers(f)
<1>7. Powers(f)
  BY <1>6
<1>8. Rcon(n) = <<f[n], 0, 0, 0>>
  BY DEF Rcon
<1> HIDE DEF f
<1>9. \A k \in Nat : f[k] = IF k = 0 THEN 1 ELSE Double(f[k - 1])
  BY <1>7
<1> HIDE DEF Powers
<1>10. f[n] \in AesByte
  <2> DEFINE G == {k \in Nat : f[k] \in AesByte}
  <2>1. 0 \in G
    BY <1>3, <1>9
  <2>2. ASSUME NEW k \in Nat, k \in G
        PROVE  k + 1 \in G
    <3>1. k + 1 \in Nat /\ k + 1 # 0 /\ (k + 1) - 1 = k
      OBVIOUS
    <3>2. f[k + 1] = Double(f[k])
      BY <1>9, <3>1
    <3> QED
      BY <2>2, <3>1, <3>2, DoubleBits
  <2> HIDE DEF G
  <2>3. Nat \subseteq G
    BY <2>1, <2>2, EveryNumber
  <2> QED
    BY <2>3 DEF G
<1> QED
  BY <1>8, <1>10 DEF AreBytes, AesByte

LEMMA WordsAreWords ==
    ASSUME NEW v, AreBytes(v), NEW u, AreBytes(u)
    PROVE  AreBytes(XorWords(v, u)) /\ AreBytes(SubWord(v)) /\ AreBytes(RotWord(v))
<1>1. \A k \in 1 .. 4 : v[k] \in AesByte /\ u[k] \in AesByte
  BY DEF AreBytes
<1>2. \A k \in 1 .. 4 : v[k] ++ u[k] \in AesByte /\ Sbox(v[k]) \in AesByte
  BY <1>1, XorBits, SboxesAreInverse
<1>3. AreBytes(XorWords(v, u)) /\ AreBytes(SubWord(v))
  BY <1>2 DEF AreBytes, XorWords, SubWord
<1>4. AreBytes(RotWord(v))
  <2>1. v[1] \in AesByte /\ v[2] \in AesByte /\ v[3] \in AesByte /\ v[4] \in AesByte
    BY <1>1
  <2> QED
    BY <2>1 DEF AreBytes, RotWord
<1> QED
  BY <1>3, <1>4

LEMMA InitCipherInv == CipherInit => CipherInv
<1> SUFFICES ASSUME CipherInit PROVE CipherInv
  OBVIOUS
<1>1. 0 \in AesByte
  BY DEF AesByte
<1>2. IsBlock(in_block) /\ IsState(state)
  BY <1>1 DEF CipherInit, IsBlock, IsState, ZeroState
<1>3. AreWords(w) /\ AreStates(trace) /\ aes_key \in Seq(AesByte)
  BY DEF CipherInit, AreWords, AreStates
<1> QED
  BY <1>2, <1>3 DEF CipherInit, CipherInv, CipherTypes, KeyInv, EncryptInv, DecryptInv

LEMMA KeySetupCipher ==
    ASSUME CipherInv, KeySetup
    PROVE  CipherInv'
<1>1. PICK key \in CipherKeys, size \in KeySizes \cap {128, 192, 256} :
         /\ Len(key) >= size \div 8
         /\ aes_key' = key /\ keysize' = size
         /\ w' = [k \in 1 .. size \div 32 |-> SubSeq(key, 4 * k - 3, 4 * k)]
  BY DEF KeySetup
<1>2. key \in Seq(AesByte) /\ Len(key) \in Nat
  BY AesCipherAssumption
<1> DEFINE words == size \div 32
<1>3. words \in {4, 6, 8} /\ 4 * words = size \div 8
  BY DEF words
<1>4. ASSUME NEW k \in 1 .. words
      PROVE  AreBytes(SubSeq(key, 4 * k - 3, 4 * k))
  <2>1. 4 * k - 3 \in 1 .. Len(key) /\ 4 * k \in 1 .. Len(key)
    BY <1>1, <1>2, <1>3
  <2>2. (4 * k) - (4 * k - 3) + 1 = 4
    BY <1>3
  <2> DEFINE first == 4 * k - 3
             last == 4 * k
  <2> HIDE DEF first, last
  <2>3. /\ first \in Nat /\ last \in Nat /\ first >= 1 /\ last <= Len(key)
        /\ last = first + 3
    BY <1>3, <2>1 DEF first, last
  <2>4. SubSeq(key, first, last) = [l \in 1 .. 4 |-> key[first + l - 1]]
    BY <1>2, <2>3
  <2>5. \A l \in 1 .. 4 : first + l - 1 \in 1 .. Len(key)
    BY <1>2, <2>3
  <2>6. \A l \in 1 .. 4 : key[first + l - 1] \in AesByte
    BY <1>2, <2>5
  <2>7. AreBytes(SubSeq(key, first, last))
    BY <2>4, <2>6 DEF AreBytes
  <2> QED
    BY <2>7 DEF first, last
<1>5. AreWords(w') /\ Len(w') = words
  <2> DEFINE S == [1 .. 4 -> AesByte]
             W(k) == SubSeq(key, 4 * k - 3, 4 * k)
  <2>1. \A k \in 1 .. words : W(k) \in S
    BY <1>4 DEF AreBytes
  <2> HIDE DEF S, W
  <2>2. words \in Nat
    BY <1>3
  <2> HIDE DEF words
  <2>3. [k \in 1 .. words |-> W(k)] \in Seq(S) /\ Len([k \in 1 .. words |-> W(k)]) = words
    BY <2>1, <2>2
  <2>4. w' = [k \in 1 .. words |-> W(k)]
    BY <1>1 DEF words, W
  <2> QED
    BY <2>3, <2>4 DEF AreWords, S
<1>6. /\ aes_at' = "key" /\ keysize' \in {128, 192, 256} /\ keysize' \in KeySizes
      /\ aes_key' \in Seq(AesByte)
      /\ UNCHANGED <<in_block, state, aes_round, aes_step, trace>>
  BY <1>1, <1>2 DEF KeySetup
<1>7. Nk' = words /\ Nr' \in {10, 12, 14} /\ Nb * (Nr' + 1) >= Nk' /\ Nb * (Nr' + 1) \in Nat
  BY <1>1, <1>3 DEF Nk, Nr, Nb
<1>8. CipherTypes'
  BY <1>5, <1>6 DEF CipherInv, CipherTypes
<1>9. KeyInv'
  <2>1. Len(w') \in Nk' .. Nb * (Nr' + 1)
    BY <1>3, <1>5, <1>7
  <2> QED
    BY <1>6, <2>1 DEF KeyInv
<1> QED
  BY <1>6, <1>8, <1>9 DEF CipherInv, EncryptInv, DecryptInv

(* The word that is combined is one of the schedule, or changed as a whole.  *)
LEMMA TempWordIs ==
    ASSUME CipherInv, aes_at = "key", Len(w) < Nb * (Nr + 1)
    PROVE  LET k == Len(w)
           IN  AreBytes(XorWords(w[k - Nk + 1], TempWord(k)))
<1> DEFINE k == Len(w)
<1>1. AreWords(w) /\ k \in Nat /\ Nk \in {4, 6, 8} /\ k >= Nk
  BY CipherRounds DEF CipherInv, CipherTypes, KeyInv, AreWords
<1>2. \A l \in 1 .. k : AreBytes(w[l])
  BY DEF CipherInv, CipherTypes, AreWords, AreBytes
<1> HIDE DEF k
<1>3. k \in 1 .. k /\ k - Nk + 1 \in 1 .. k
  BY <1>1
<1>4. AreBytes(w[k]) /\ AreBytes(w[k - Nk + 1])
  BY <1>2, <1>3
<1>5. (k - 1) \div Nk \in Nat
  BY <1>1
<1>6. AreBytes(Rcon((k - 1) \div Nk))
  BY <1>5, RconIs
<1>7. /\ AreBytes(SubWord(RotWord(w[k]))) /\ AreBytes(SubWord(w[k]))
  BY <1>4, WordsAreWords
<1>8. AreBytes(XorWords(SubWord(RotWord(w[k])), Rcon((k - 1) \div Nk)))
  BY <1>6, <1>7, WordsAreWords
<1>9. AreBytes(TempWord(k))
  BY <1>4, <1>7, <1>8 DEF TempWord
<1> QED
  BY <1>4, <1>9, WordsAreWords DEF k

LEMMA KeyStepsCipher ==
    ASSUME CipherInv, KeyWord \/ KeyDone
    PROVE  CipherInv'
<1>1. /\ aes_at = "key" /\ UNCHANGED <<keysize, aes_key>>
      /\ UNCHANGED <<in_block, state, aes_round, aes_step, trace>>
  BY DEF KeyWord, KeyDone, keyVars
<1>2. Nr' = Nr /\ Nk' = Nk /\ Nr \in Nat /\ Len(w) \in Nk .. Nb * (Nr + 1) /\ Nk \in Nat
      /\ keysize \in {128, 192, 256}
  BY <1>1, CipherRounds DEF Nr, Nk, CipherInv, KeyInv
<1>3. CASE KeyWord
  <2> DEFINE word == XorWords(w[Len(w) - Nk + 1], TempWord(Len(w)))
  <2>1. aes_at' = "key" /\ Len(w) < Nb * (Nr + 1) /\ w' = Append(w, word)
    BY <1>1, <1>3 DEF KeyWord
  <2>2. AreBytes(word)
    BY <1>1, <2>1, TempWordIs
  <2> HIDE DEF word
  <2>3. AreWords(w') /\ Len(w') = Len(w) + 1
    BY <2>1, <2>2 DEF AreBytes, AreWords, CipherInv, CipherTypes
  <2>4. Len(w') \in Nk .. Nb * (Nr + 1)
    <3>1. Nb * (Nr + 1) \in Nat
      BY <1>2 DEF Nb
    <3> QED
      BY <1>2, <2>1, <2>3, <3>1
  <2>5. CipherTypes' /\ KeyInv'
    BY <1>1, <1>2, <2>1, <2>3, <2>4 DEF CipherInv, CipherTypes, KeyInv
  <2> QED
    BY <2>1, <2>5 DEF CipherInv, EncryptInv, DecryptInv
<1>4. CASE KeyDone
  <2>1. aes_at' = "ready" /\ Len(w) = Nb * (Nr + 1) /\ w' = w
    BY <1>4 DEF KeyDone, keyVars
  <2>2. CipherTypes' /\ KeyInv'
    BY <1>1, <1>2, <2>1 DEF CipherInv, CipherTypes, KeyInv
  <2> QED
    BY <2>1, <2>2 DEF CipherInv, EncryptInv, DecryptInv
<1> QED
  BY <1>3, <1>4

-----------------------------------------------------------------------------
(* AesCipher: the steps of the rounds *)

\* What no step of the rounds changes.
KeyKept == UNCHANGED keyVars /\ Nr' = Nr /\ Nk' = Nk

LEMMA KeyIsKept ==
    ASSUME UNCHANGED keyVars
    PROVE  KeyKept
BY DEF KeyKept, keyVars, Nr, Nk

LEMMA EncryptCipher ==
    ASSUME CipherInv, Encrypt
    PROVE  CipherInv'
<1>1. /\ aes_at = "ready" /\ aes_at' = "encrypt" /\ in_block' \in InBlocks
      /\ state' = AddRoundKey(ToState(in_block'), 0)
      /\ trace' = <<state'>> /\ aes_round' = 1 /\ aes_step' = "sub"
      /\ KeyKept
  BY KeyIsKept DEF Encrypt
<1>2. IsBlock(in_block')
  BY <1>1, AesCipherAssumption DEF IsBlock
<1>3. IsState(ToState(in_block'))
  BY <1>2, BlockKept
<1>4. Nr \in {10, 12, 14}
  BY <1>1, CipherRounds DEF CipherInv
<1>5. /\ state' = WithKey(w', ToState(in_block'), 0) /\ IsState(state')
  <2>1. 0 \in 0 .. Nr
    BY <1>4
  <2>2. w' = w
    BY <1>1 DEF KeyKept, keyVars
  <2> QED
    BY <1>1, <1>3, <2>1, <2>2, KeyOfRound
<1>6. AreStates(trace') /\ Len(trace') = 1 /\ trace'[1] = state'
  BY <1>1, <1>5 DEF AreStates, IsState
<1>7. Traced(w', Nr', in_block', trace')
  BY <1>5, <1>6 DEF Traced
<1>8. CipherTypes'
  BY <1>1, <1>2, <1>5, <1>6 DEF KeyKept, keyVars, CipherInv, CipherTypes
<1>9. KeyInv'
  BY <1>1 DEF KeyKept, keyVars, CipherInv, KeyInv
<1>10. EncryptInv'
  BY <1>1, <1>4, <1>6, <1>7 DEF EncryptInv, Partly, KeyKept
<1> QED
  BY <1>1, <1>8, <1>9, <1>10 DEF CipherInv, DecryptInv

LEMMA EncryptSteps ==
    ASSUME CipherInv, EncryptSub \/ EncryptShift \/ EncryptMix
    PROVE  CipherInv'
<1>1. /\ aes_at = "encrypt" /\ UNCHANGED <<aes_at, aes_round, trace, in_block>> /\ KeyKept
  BY KeyIsKept DEF EncryptSub, EncryptShift, EncryptMix, Transform
<1>2. /\ aes_round \in 1 .. Nr /\ Len(trace) = aes_round /\ AreStates(trace)
      /\ Traced(w, Nr, in_block, trace)
      /\ state = Partly(Nr, trace[aes_round], aes_round, aes_step)
      /\ IsState(state) /\ Nr \in Nat
  BY <1>1, CipherRounds DEF CipherInv, CipherTypes, EncryptInv
<1> DEFINE s == trace[aes_round]
<1>3. /\ aes_step' \in {"shift", "mix", "add"} /\ (aes_step' = "mix" => aes_round < Nr)
      /\ state' = Partly(Nr, s, aes_round, aes_step') /\ IsState(state')
  <2>1. CASE EncryptSub
    <3>1. aes_step = "sub" /\ aes_step' = "shift" /\ state' = SubBytes(state)
      BY <2>1 DEF EncryptSub, Transform
    <3>2. state = s
      BY <1>2, <3>1 DEF Partly
    <3> QED
      BY <1>2, <3>1, <3>2, Unsubstituted DEF Partly
  <2>2. CASE EncryptShift
    <3>1. /\ aes_step = "shift" /\ aes_step' = (IF aes_round = Nr THEN "add" ELSE "mix")
          /\ state' = ShiftRows(state)
      BY <2>2 DEF EncryptShift, Transform
    <3>2. state = SubBytes(s)
      BY <1>2, <3>1 DEF Partly
    <3>3. state' = Partly(Nr, s, aes_round, aes_step')
      BY <3>1, <3>2 DEF Partly
    <3> QED
      BY <1>2, <3>1, <3>3, Unshifted
  <2>3. CASE EncryptMix
    <3>1. aes_step = "mix" /\ aes_step' = "add" /\ state' = MixColumns(state)
      BY <2>3 DEF EncryptMix, Transform
    <3>2. state = ShiftRows(SubBytes(s)) /\ aes_round # Nr
      BY <1>1, <1>2, <3>1 DEF Partly, CipherInv, EncryptInv
    <3>3. state' = Partly(Nr, s, aes_round, aes_step')
      BY <3>1, <3>2 DEF Partly
    <3> QED
      BY <1>2, <3>1, <3>3, Unmixed
  <2> QED
    BY <2>1, <2>2, <2>3
<1> HIDE DEF s
<1>4. CipherTypes'
  BY <1>1, <1>3 DEF KeyKept, keyVars, CipherInv, CipherTypes
<1>5. KeyInv'
  BY <1>1 DEF KeyKept, keyVars, CipherInv, KeyInv
<1>6. EncryptInv'
  <2>1. s = trace'[aes_round']
    BY <1>1 DEF s
  <2>2. /\ w' = w /\ Nr' = Nr /\ in_block' = in_block /\ trace' = trace
        /\ aes_round' = aes_round
    BY <1>1 DEF KeyKept, keyVars
  <2> QED
    BY <1>2, <1>3, <2>1, <2>2 DEF EncryptInv
<1> QED
  BY <1>1, <1>4, <1>5, <1>6 DEF CipherInv, DecryptInv

(* The end of a round: its state is the next of the trace.                   *)
LEMMA EncryptAdds ==
    ASSUME CipherInv, EncryptAdd \/ EncryptLast
    PROVE  CipherInv'
<1>1. /\ aes_at = "encrypt" /\ aes_step = "add" /\ in_block' = in_block /\ KeyKept
      /\ state' = AddRoundKey(state, aes_round) /\ trace' = Append(trace, state')
  BY KeyIsKept DEF EncryptAdd, EncryptLast, Transform
<1>2. /\ aes_round \in 1 .. Nr /\ Len(trace) = aes_round /\ AreStates(trace)
      /\ Traced(w, Nr, in_block, trace)
      /\ state = Partly(Nr, trace[aes_round], aes_round, "add")
      /\ IsState(state) /\ Nr \in {10, 12, 14}
  BY <1>1, CipherRounds DEF CipherInv, CipherTypes, EncryptInv
<1>3. state' = WithKey(w, state, aes_round) /\ IsState(state')
  <2>1. aes_round \in 0 .. Nr
    BY <1>2
  <2> QED
    BY <1>1, <1>2, <2>1, KeyOfRound
<1>4. /\ AreStates(trace') /\ Len(trace') = aes_round + 1 /\ trace'[aes_round + 1] = state'
      /\ Traced(w, Nr, in_block, trace')
  BY <1>1, <1>2, <1>3, TraceGrows
<1>5. w' = w /\ Nr' = Nr /\ in_block' = in_block
  BY <1>1 DEF KeyKept, keyVars
<1>6. aes_at' \in {"encrypt", "decrypt"} => KeyInv'
  BY <1>1 DEF KeyKept, keyVars, CipherInv, KeyInv
<1>7. CASE EncryptAdd
  <2>1. aes_at' = "encrypt" /\ aes_round' = aes_round + 1 /\ aes_step' = "sub" /\ aes_round < Nr
    BY <1>1, <1>7 DEF EncryptAdd, Transform
  <2>2. aes_round' \in 1 .. Nr /\ aes_round' \in 0 .. 14
    BY <1>2, <2>1
  <2>3. CipherTypes'
    BY <1>1, <1>3, <1>4, <2>1, <2>2 DEF KeyKept, keyVars, CipherInv, CipherTypes
  <2>4. EncryptInv'
    BY <1>4, <1>5, <2>1, <2>2 DEF EncryptInv, Partly
  <2> QED
    BY <1>6, <2>1, <2>3, <2>4 DEF CipherInv, DecryptInv
<1>8. CASE EncryptLast
  <2>1. aes_at' = "decrypt" /\ aes_round' = aes_round /\ aes_step' = "add" /\ aes_round = Nr
    BY <1>1, <1>8 DEF EncryptLast, Transform
  <2>2. aes_round' \in 0 .. Nr /\ aes_round' \in 0 .. 14
    BY <1>2, <2>1
  <2>3. CipherTypes'
    BY <1>1, <1>3, <1>4, <2>1, <2>2 DEF KeyKept, keyVars, CipherInv, CipherTypes
  <2>4. DecryptInv'
    BY <1>4, <1>5, <2>1, <2>2 DEF DecryptInv, Undone
  <2> QED
    BY <1>6, <2>1, <2>3, <2>4 DEF CipherInv, EncryptInv
<1> QED
  BY <1>7, <1>8

(* Every step of decryption undoes the one of encryption.                    *)
LEMMA DecryptSteps ==
    ASSUME CipherInv, DecryptAdd \/ DecryptMix \/ DecryptShift \/ DecryptSub
    PROVE  CipherInv'
<1>1. /\ aes_at = "decrypt" /\ aes_at' = aes_at /\ trace' = trace /\ in_block' = in_block
      /\ KeyKept
  BY KeyIsKept DEF DecryptAdd, DecryptMix, DecryptShift, DecryptSub, Transform
<1>2. /\ aes_round \in 0 .. Nr /\ Len(trace) = Nr + 1 /\ AreStates(trace)
      /\ Traced(w, Nr, in_block, trace)
      /\ state = Undone(Nr, trace, aes_round, aes_step)
      /\ IsState(state) /\ Nr \in {10, 12, 14}
  BY <1>1, CipherRounds DEF CipherInv, CipherTypes, DecryptInv
<1> DEFINE s == trace[aes_round]
<1>3. aes_round > 0 => IsState(s)
  BY <1>2, EntryIsState
<1> HIDE DEF s
<1>4. aes_round > 0 => /\ IsState(SubBytes(s)) /\ InvSubBytes(SubBytes(s)) = s
                       /\ IsState(ShiftRows(SubBytes(s)))
                       /\ InvShiftRows(ShiftRows(SubBytes(s))) = SubBytes(s)
                       /\ IsState(MixColumns(ShiftRows(SubBytes(s))))
                       /\ InvMixColumns(MixColumns(ShiftRows(SubBytes(s))))
                            = ShiftRows(SubBytes(s))
  <2> SUFFICES ASSUME aes_round > 0 PROVE /\ IsState(SubBytes(s))
                                          /\ InvSubBytes(SubBytes(s)) = s
                                          /\ IsState(ShiftRows(SubBytes(s)))
                                          /\ InvShiftRows(ShiftRows(SubBytes(s))) = SubBytes(s)
                                          /\ IsState(MixColumns(ShiftRows(SubBytes(s))))
                                          /\ InvMixColumns(MixColumns(ShiftRows(SubBytes(s))))
                                               = ShiftRows(SubBytes(s))
    OBVIOUS
  <2>1. IsState(SubBytes(s)) /\ InvSubBytes(SubBytes(s)) = s
    BY <1>3, Unsubstituted
  <2>2. IsState(ShiftRows(SubBytes(s))) /\ InvShiftRows(ShiftRows(SubBytes(s))) = SubBytes(s)
    BY <2>1, Unshifted
  <2>3. /\ IsState(MixColumns(ShiftRows(SubBytes(s))))
        /\ InvMixColumns(MixColumns(ShiftRows(SubBytes(s)))) = ShiftRows(SubBytes(s))
    BY <2>2, Unmixed
  <2> QED
    BY <2>1, <2>2, <2>3
<1>5. CASE DecryptSub
  <2>1. aes_step = "sub" /\ aes_step' = "add" /\ state' = InvSubBytes(state)
        /\ aes_round' = aes_round - 1
    BY <1>5 DEF DecryptSub, Transform
  <2>2. aes_round > 0
    BY <1>1, <2>1 DEF CipherInv, DecryptInv
  <2>3. state = SubBytes(s)
    BY <1>2, <2>1 DEF Undone, Partly, s
  <2>4. state' = s /\ IsState(state')
    BY <1>3, <1>4, <2>1, <2>2, <2>3
  <2>5. aes_round' \in 0 .. Nr /\ aes_round' \in 0 .. 14 /\ aes_round' + 1 = aes_round
    BY <1>2, <2>1, <2>2
  <2>6. state' = Undone(Nr', trace', aes_round', aes_step')
    BY <1>1, <2>1, <2>4, <2>5 DEF Undone, s
  <2>7. CipherTypes'
    BY <1>1, <2>1, <2>4, <2>5 DEF KeyKept, keyVars, CipherInv, CipherTypes
  <2>8. KeyInv'
    BY <1>1 DEF KeyKept, keyVars, CipherInv, KeyInv
  <2>9. DecryptInv'
    BY <1>1, <1>2, <2>1, <2>5, <2>6 DEF KeyKept, keyVars, DecryptInv
  <2> QED
    BY <1>1, <2>7, <2>8, <2>9 DEF CipherInv, EncryptInv
<1>6. CASE DecryptAdd \/ DecryptMix \/ DecryptShift
  <2>1. /\ aes_round > 0 /\ aes_round' = aes_round
        /\ aes_step' \in {"mix", "shift", "sub"} /\ (aes_step' = "mix" => aes_round < Nr)
        /\ state' = Undone(Nr, trace, aes_round, aes_step') /\ IsState(state')
    <3>1. CASE DecryptAdd
      <4>1. /\ aes_step = "add" /\ aes_step' = (IF aes_round = Nr THEN "shift" ELSE "mix")
            /\ aes_round > 0 /\ aes_round' = aes_round
            /\ state' = AddRoundKey(state, aes_round)
        BY <3>1 DEF DecryptAdd, Transform
      <4>2. state = trace[aes_round + 1]
        BY <1>2, <4>1 DEF Undone
      <4> DEFINE before == Partly(Nr, s, aes_round, "add")
      <4>3. IsState(before)
        BY <1>3, <4>1, PartlyIs
      <4>4. state = WithKey(w, before, aes_round)
        <5>1. aes_round \in 1 .. Len(trace) - 1
          BY <1>2, <4>1
        <5> QED
          BY <1>2, <4>2, <5>1 DEF Traced, s
      <4> HIDE DEF before
      <4>5. state' = before
        BY <1>1, <1>2, <4>1, <4>3, <4>4, KeyOfRound
      <4>6. aes_round = Nr => before = Partly(Nr, s, aes_round, "mix")
        BY DEF before, Partly
      <4>7. state' = Undone(Nr, trace, aes_round, aes_step')
        BY <4>1, <4>5, <4>6 DEF Undone, before, s
      <4> QED
        BY <1>2, <4>1, <4>3, <4>5, <4>7
    <3>2. CASE DecryptMix
      <4>1. /\ aes_step = "mix" /\ aes_step' = "shift" /\ aes_round' = aes_round
            /\ state' = InvMixColumns(state)
        BY <3>2 DEF DecryptMix, Transform
      <4>2. aes_round > 0 /\ aes_round < Nr
        BY <1>1, <4>1 DEF CipherInv, DecryptInv
      <4>3. aes_round # Nr
        BY <1>2, <4>2
      <4>4. state = MixColumns(ShiftRows(SubBytes(s)))
        BY <1>2, <4>1, <4>3 DEF Undone, Partly, s
      <4>5. state' = ShiftRows(SubBytes(s)) /\ IsState(state')
        BY <1>4, <4>1, <4>2, <4>4
      <4>6. state' = Undone(Nr, trace, aes_round, aes_step')
        BY <4>1, <4>5 DEF Undone, Partly, s
      <4> QED
        BY <4>1, <4>2, <4>5, <4>6
    <3>3. CASE DecryptShift
      <4>1. /\ aes_step = "shift" /\ aes_step' = "sub" /\ aes_round' = aes_round
            /\ state' = InvShiftRows(state)
        BY <3>3 DEF DecryptShift, Transform
      <4>2. aes_round > 0
        BY <1>1, <4>1 DEF CipherInv, DecryptInv
      <4>3. state = ShiftRows(SubBytes(s))
        BY <1>2, <4>1 DEF Undone, Partly, s
      <4>4. state' = SubBytes(s) /\ IsState(state')
        BY <1>4, <4>1, <4>2, <4>3
      <4>5. state' = Undone(Nr, trace, aes_round, aes_step')
        BY <4>1, <4>4 DEF Undone, Partly, s
      <4> QED
        BY <4>1, <4>2, <4>4, <4>5
    <3> QED
      BY <1>6, <3>1, <3>2, <3>3
  <2>2. CipherTypes'
    BY <1>1, <2>1 DEF KeyKept, keyVars, CipherInv, CipherTypes
  <2>3. KeyInv'
    BY <1>1 DEF KeyKept, keyVars, CipherInv, KeyInv
  <2>4. DecryptInv'
    BY <1>1, <1>2, <2>1 DEF KeyKept, keyVars, DecryptInv
  <2> QED
    BY <1>1, <2>2, <2>3, <2>4 DEF CipherInv, EncryptInv
<1> QED
  BY <1>5, <1>6

LEMMA DecryptEnds ==
    ASSUME CipherInv, DecryptLast \/ NextBlock
    PROVE  CipherInv'
<1>1. KeyKept
  BY KeyIsKept DEF DecryptLast, NextBlock, Transform
<1>2. CASE DecryptLast
  <2>1. /\ aes_at = "decrypt" /\ aes_round = 0 /\ aes_step = "add" /\ aes_at' = "done"
        /\ state' = AddRoundKey(state, 0) /\ aes_step' = "add"
        /\ UNCHANGED <<aes_round, trace, in_block>>
    BY <1>2 DEF DecryptLast, Transform
  <2>2. state = WithKey(w, ToState(in_block), 0) /\ Nr \in {10, 12, 14}
    BY <2>1, CipherRounds DEF CipherInv, DecryptInv, Undone, Traced
  <2>3. IsState(ToState(in_block)) /\ 0 \in 0 .. Nr
    BY <2>2, BlockKept DEF CipherInv, CipherTypes
  <2>4. IsState(state)
    BY DEF CipherInv, CipherTypes
  <2>5. state' = ToState(in_block)
    BY <2>1, <2>2, <2>3, <2>4, KeyOfRound
  <2>6. CipherTypes'
    BY <1>1, <2>1, <2>3, <2>5 DEF KeyKept, keyVars, CipherInv, CipherTypes
  <2>7. KeyInv'
    BY <1>1, <2>1 DEF KeyKept, keyVars, CipherInv, KeyInv
  <2>8. state' = ToState(in_block')
    BY <2>1, <2>5
  <2> QED
    BY <2>1, <2>6, <2>7, <2>8 DEF CipherInv, EncryptInv, DecryptInv
<1>3. CASE NextBlock
  <2>1. /\ aes_at = "done" /\ aes_at' = "ready"
        /\ in_block' = [k \in 1 .. 16 |-> 0] /\ state' = ZeroState /\ trace' = <<>>
        /\ UNCHANGED <<aes_round, aes_step>>
    BY <1>3 DEF NextBlock
  <2>2. 0 \in AesByte
    BY DEF AesByte
  <2>3. IsBlock(in_block') /\ IsState(state') /\ AreStates(trace')
    BY <2>1, <2>2 DEF IsBlock, IsState, AreStates, ZeroState
  <2>4. CipherTypes'
    BY <1>1, <2>1, <2>3 DEF KeyKept, keyVars, CipherInv, CipherTypes
  <2>5. KeyInv'
    BY <1>1, <2>1 DEF KeyKept, keyVars, CipherInv, KeyInv
  <2> QED
    BY <2>1, <2>4, <2>5 DEF CipherInv, EncryptInv, DecryptInv
<1> QED
  BY <1>2, <1>3

LEMMA StepCipherInv == CipherInv /\ [CipherNext]_cipherVars => CipherInv'
<1> SUFFICES ASSUME CipherInv, [CipherNext]_cipherVars PROVE CipherInv'
  OBVIOUS
<1>1. CASE UNCHANGED cipherVars
  <2>1. KeyKept /\ UNCHANGED <<aes_at, in_block, state, aes_round, aes_step, trace>>
    BY <1>1, KeyIsKept DEF cipherVars, keyVars
  <2>2. UNCHANGED <<keysize, aes_key, w>> /\ Nr' = Nr /\ Nk' = Nk
    BY <2>1 DEF KeyKept, keyVars
  <2> QED
    BY <2>1, <2>2 DEF CipherInv, CipherTypes, KeyInv, EncryptInv, DecryptInv
<1>2. KeySetupRefused => UNCHANGED cipherVars
  BY DEF KeySetupRefused
<1> QED
  BY <1>1, <1>2, KeySetupCipher, KeyStepsCipher, EncryptCipher, EncryptSteps, EncryptAdds,
     DecryptSteps, DecryptEnds DEF CipherNext

(* Theorem: AesCipher!CipherTypeOK.                                          *)
THEOREM CipherTypeCorrect == CipherSpec => []CipherTypeOK
<1>1. CipherInv => CipherTypeOK
  BY CipherTypesOK DEF CipherInv
<1> QED
  BY <1>1, InitCipherInv, StepCipherInv, PTL DEF CipherSpec

(* Theorem: for every key of the three sizes and every block, decryption     *)
(* passes back through the states of the rounds and ends with the block:     *)
(* AesCipher!RoundsAreUndone.                                                *)
THEOREM RoundsStayUndone == CipherSpec => []RoundsAreUndone
<1>1. CipherInv => RoundsAreUndone
  <2> SUFFICES ASSUME CipherInv PROVE RoundsAreUndone
    OBVIOUS
  <2>1. aes_at = "decrypt" /\ aes_step = "add" => state = trace[aes_round + 1]
    BY DEF CipherInv, DecryptInv, Undone
  <2>2. aes_at = "done" => FromState(state) = in_block
    BY BlockKept DEF CipherInv, CipherTypes
  <2> QED
    BY <2>1, <2>2 DEF RoundsAreUndone
<1> QED
  BY <1>1, InitCipherInv, StepCipherInv, PTL DEF CipherSpec


-----------------------------------------------------------------------------
(* The types of every function *)

LEMMA HashIsBucket ==
    \A k \in FiveTuple : HashVal(k) \in 0 .. CL_BIG_PRIME - 1
<1>1. CL_BIG_PRIME \in Nat \ {0}
  BY ClassifierAssumption
<1>2. 2 ^ 16 \in Nat /\ 2 ^ 8 \in Nat
  OBVIOUS
<1>3. \A a \in Int : a % CL_BIG_PRIME \in 0 .. CL_BIG_PRIME - 1
  BY <1>1
<1>4. \A r, v \in Nat : r * v \in Int
  OBVIOUS
<1>5. \A r \in Nat : Shifted(r, 16) \in Nat /\ Shifted(r, 8) \in Nat
  BY <1>1, <1>2, <1>3, <1>4 DEF Shifted
<1>6. \A r, value \in Nat :
        /\ Mixed(r, 16, value) \in 0 .. CL_BIG_PRIME - 1
        /\ Mixed(r, 8, value) \in 0 .. CL_BIG_PRIME - 1
  <2> TAKE r \in Nat, value \in Nat
  <2>1. Shifted(r, 16) + value \in Int /\ Shifted(r, 8) + value \in Int
    BY <1>5
  <2> QED
    BY <1>3, <2>1 DEF Mixed
<1>7. \A r, value \in Nat : Mixed(r, 16, value) \in Nat
  BY <1>1, <1>6
<1> TAKE k \in FiveTuple
<1>8. /\ k.src_addr \in Nat /\ k.dst_addr \in Nat /\ k.src_port \in Nat
      /\ k.dst_port \in Nat /\ k.proto \in Nat
  BY DEF FiveTuple
<1>9. k.src_addr % CL_BIG_PRIME \in Nat
  BY <1>1, <1>3, <1>8
<1>10. \A r \in Nat : HashRest(r, k) \in 0 .. CL_BIG_PRIME - 1
  BY <1>6, <1>7, <1>8 DEF HashRest
<1> QED
  BY <1>5, <1>7, <1>8, <1>9, <1>10 DEF HashVal

LEMMA ClassifierTypeStep ==
    ASSUME ClassifierTypeOK, [ClassifierNext]_classifierVars
    PROVE  ClassifierTypeOK'
<1> USE DEF ClassifierTypeOK
<1>1. Len(ClassifierTable) \in Nat /\ Rows = 1 .. Len(ClassifierTable)
  BY ClassifierAssumption DEF Rows
<1>2. CASE FillRow
  <2> DEFINE row == ClassifierTable[entered + 1]
             bucket == HashVal(row.key)
  <2>1. /\ entered < Len(ClassifierTable) /\ entered' = entered + 1
        /\ hash_table' = [h \in DOMAIN hash_table \cup {bucket} |->
                            IF h = bucket THEN row.tenant_id ELSE hash_table[h]]
        /\ frame' = frame /\ tos' = tos /\ classifier_fault' = classifier_fault
    BY <1>2 DEF FillRow
  <2>2. entered + 1 \in Rows /\ entered + 1 \in 0 .. Len(ClassifierTable)
    BY <1>1, <2>1
  <2>3. bucket \in 0 .. CL_BIG_PRIME - 1
    <3> DEFINE TableRow == [key : FiveTuple, tenant_id : Nat \ {0}]
    <3>1. ClassifierTable \in Seq(TableRow)
      BY ClassifierAssumption
    <3> HIDE DEF TableRow
    <3>2. ClassifierTable[entered + 1] \in TableRow
      BY <2>2, <3>1 DEF Rows
    <3>3. row.key \in FiveTuple
      BY <3>2 DEF TableRow
    <3> QED
      BY <3>3, HashIsBucket
  <2>4. row.tenant_id = ClassifierTable[entered + 1].tenant_id
    OBVIOUS
  <2> HIDE DEF row, bucket
  <2>5. DOMAIN hash_table' \subseteq 0 .. CL_BIG_PRIME - 1
    BY <2>1, <2>3
  <2>6. ASSUME NEW h \in DOMAIN hash_table'
        PROVE  \E r \in Rows : hash_table'[h] = ClassifierTable[r].tenant_id
    <3>1. CASE h = bucket
      BY <2>1, <2>2, <2>4, <3>1
    <3>2. CASE h # bucket
      <4>1. h \in DOMAIN hash_table /\ hash_table'[h] = hash_table[h]
        BY <2>1, <3>2
      <4> QED
        BY <4>1
    <3> QED
      BY <3>1, <3>2
  <2> QED
    BY <2>1, <2>2, <2>5, <2>6
<1>3. ASSUME NEW f \in Frames, Classify(f)
      PROVE  ClassifierTypeOK'
  <2> DEFINE h == HashVal(KeyOf(f))
  <2>1. /\ frame' = f
        /\ tos' = IF h \in DOMAIN hash_table THEN hash_table[h] ELSE 0
        /\ entered' = entered /\ hash_table' = hash_table
        /\ classifier_fault' = classifier_fault
    BY <1>3 DEF Classify
  <2> HIDE DEF h
  <2>2. tos' \in {0} \cup {ClassifierTable[r].tenant_id : r \in Rows}
    BY <2>1
  <2> QED
    BY <2>1, <2>2
<1>4. ASSUME NEW f \in Frames, NoIpv4Header(f)
      PROVE  ClassifierTypeOK'
  BY <1>4 DEF NoIpv4Header
<1>5. CASE UNCHANGED classifierVars
  BY <1>5 DEF classifierVars
<1> QED
  BY <1>2, <1>3, <1>4, <1>5 DEF ClassifierNext, ClassifierStopped

(* For any prime, table and frames: the buckets of the classifier are those  *)
(* of its table, and hold tenants of it.                                     *)
THEOREM ClassifierTypeCorrect == ClassifierSpec => []ClassifierTypeOK
<1>1. ClassifierInit => ClassifierTypeOK
  <2> SUFFICES ASSUME ClassifierInit PROVE ClassifierTypeOK
    OBVIOUS
  <2>1. Len(ClassifierTable) \in Nat
    BY ClassifierAssumption
  <2>2. 0 \in 0 .. Len(ClassifierTable)
    BY <2>1
  <2>3. DOMAIN hash_table = {}
    BY DEF ClassifierInit
  <2> QED
    BY <2>2, <2>3 DEF ClassifierInit, ClassifierTypeOK
<1>2. ClassifierTypeOK /\ [ClassifierNext]_classifierVars => ClassifierTypeOK'
  BY ClassifierTypeStep
<1> QED
  BY <1>1, <1>2, PTL DEF ClassifierSpec

-----------------------------------------------------------------------------

LEMMA NatTypeStep ==
    ASSUME HashesAreBuckets, NatTypeOK, [NatNext]_natVars
    PROVE  NatTypeOK'
<1>1. CASE NatStartBatch
  <2>1. 1 \in 0 .. U16 - 1
    BY NatAssumption
  <2> QED
    BY <1>1, <2>1 DEF NatTypeOK, NatStartBatch
<1>2. ASSUME NEW why \in {"outside bucket", "no backward entry"}, NatFault(why)
      PROVE  NatTypeOK'
  BY <1>2 DEF NatTypeOK, NatFault
<1>3. ASSUME NEW k \in NatPackets \cup Replies, NatPacket(k)
      PROVE  NatTypeOK'
  <2>1. k \in FlowKeys
    <3>1. CASE k \in NatPackets
      BY <3>1, NatAssumption
    <3>2. CASE k \in Replies
      <4>1. PICK row \in RowsInUse : k = row.key
        BY <3>2 DEF Replies
      <4>2. PICK b \in NatBuckets : \E n \in DOMAIN natentry_map[b] : row = natentry_map[b][n]
        BY <4>1 DEF RowsInUse
      <4>3. natentry_map[b] \in Seq(NatRows)
        BY DEF NatTypeOK
      <4>4. row \in NatRows
        BY <4>2, <4>3
      <4> QED
        BY <4>1, <4>4 DEF NatRows
    <3> QED
      BY <3>1, <3>2
  <2>2. CASE Forward(k)
    <3>1. Row(k) \in NatRows
      BY <2>1, <2>2, FoundRow DEF Forward
    <3>2. Row(k).new_ip \in Nat /\ Row(k).new_port \in Nat
      <4>1. Row(k).new_ip \in 0 .. U16 - 1 /\ Row(k).new_port \in Nat
        BY <3>1 DEF NatRows
      <4> QED
        BY <4>1, NatAssumption
    <3>3. Backward(k) \in FlowKeys
      BY <2>1, <3>2, BackwardKeyType DEF Backward
    <3>4. Row(Backward(k)) \in NatRows
      BY <2>2, <3>3, FoundRow DEF Forward
    <3>5. sent_hdr' \in FlowKeys
      BY <2>1, <2>2, <3>1, <3>4, HeaderTypes DEF Forward
    <3> QED
      BY <2>2, <3>5 DEF NatTypeOK, Forward
  <2>3. CASE ForwardWithoutBackward(k)
    BY <1>2, <2>3 DEF ForwardWithoutBackward
  <2>4. CASE FullBucket(k)
    <3>1. sent_hdr' \in FlowKeys
      BY <2>1, <2>4, HeaderTypes DEF FullBucket
    <3> QED
      BY <2>4, <3>1 DEF NatTypeOK, FullBucket
  <2>5. ASSUME NEW port \in Ports \cup {0}, Create(k, port)
        PROVE  NatTypeOK'
    <3>1. port \in Nat
      BY PortIsNat
    <3>2. natentry_map' \in [NatBuckets -> Seq(NatRows)]
      BY <2>1, <2>5, <3>1, CreateAdds
    <3>3. port_used' \subseteq Ports
      BY <2>5 DEF Create, PickPort, NatTypeOK
    <3>4. /\ FwdRow(k, new_ip, port) \in NatRows /\ BwdRow(k, new_ip, port) \in NatRows
          /\ Uint16(k.src_ip) \in 0 .. U16 - 1
      BY <2>1, <3>1, RowTypes
    <3>5. \E fwd \in NatRows : sent_hdr' = Translated(k, fwd, BwdRow(k, new_ip, port))
      BY <2>5, <3>4 DEF Create, FwdRow, BwdRow
    <3>6. sent_hdr' \in FlowKeys
      BY <2>1, <3>4, <3>5, HeaderTypes
    <3>7. new_ip' \in 0 .. U16 - 1 /\ nat_fault' = nat_fault
      BY <2>5, <3>4 DEF Create
    <3> QED
      BY <3>2, <3>3, <3>6, <3>7 DEF NatTypeOK
  <2>6. ASSUME NEW port \in Ports \cup {0}, CreateHalf(k, port)
        PROVE  NatTypeOK'
    <3>1. port_used' \subseteq Ports
      BY <2>6 DEF CreateHalf, PickPort, NatTypeOK
    <3>2. new_ip' \in 0 .. U16 - 1
      BY <2>1, <2>6, PortIsNat, RowTypes DEF CreateHalf
    <3>3. sent_hdr' \in FlowKeys
      BY <2>1, <2>6, HeaderTypes DEF CreateHalf
    <3> QED
      BY <2>6, <3>1, <3>2, <3>3 DEF NatTypeOK, CreateHalf
  <2>7. CASE LeaveBucket(k)
    BY <1>2, <2>7 DEF LeaveBucket
  <2> QED
    BY <1>3, <2>2, <2>3, <2>4, <2>5, <2>6, <2>7 DEF NatPacket
<1>4. CASE UNCHANGED natVars
  BY <1>4 DEF natVars, NatTypeOK
<1> QED
  BY <1>1, <1>3, <1>4 DEF NatNext, NatStopped

(* For any clients, also those that talk to each other, any hash into the    *)
(* buckets and any sizes: an address is one of 16 bits, a port one that was  *)
(* drawn, and a packet leaves with a whole header, from wherever the fields  *)
(* of it were taken.                                                         *)
THEOREM NatTypeCorrect ==
    ASSUME HashesAreBuckets
    PROVE  NatSpec => []NatTypeOK
<1>1. NatInit => NatTypeOK
  BY NatInitInv DEF NatInv
<1>2. NatTypeOK /\ [NatNext]_natVars => NatTypeOK'
  BY NatTypeStep
<1> QED
  BY <1>1, <1>2, PTL DEF NatSpec

-----------------------------------------------------------------------------

\* What the types say beyond the invariant: an answer counts a packet twice at most.
HandlerRest ==
    /\ header \in Seq(Headers) /\ Len(header) = Len(slots)
    /\ answer <= HandlerBatch + looked
    /\ tcp_num \in Nat /\ udp_num \in Nat
    /\ handler_fault \in {"none", "null header", "outside buffer"}
    /\ batches \in 0 .. BatchBound

LEMMA HandlerTypesHold ==
    ASSUME HandlersInv, HandlerRest
    PROVE  HandlersTypeOK
<1>1. HandlerBatch \in Nat
  BY HandlersAssumption
<1>2. free_mbufs \subseteq HandlerMbufs /\ leaked \subseteq HandlerMbufs
  BY DEF HandlersInv, MbufsInOnePlace
<1>3. looked \in 0 .. Len(slots) /\ answer \in Nat /\ slots \in Seq(HandlerMbufs)
  BY DEF HandlersInv, HandlerTypes
<1>4. Len(slots) <= HandlerBatch
  <2>1. CASE slots = <<>>
    BY <1>1, <2>1
  <2>2. CASE slots # <<>>
    BY <1>1, <2>2 DEF HandlersInv, HandlerTypes
  <2> QED
    BY <2>1, <2>2
<1>5. answer \in 0 .. 2 * HandlerBatch
  <2>1. answer <= HandlerBatch + looked
    BY DEF HandlerRest
  <2>2. looked \in Nat /\ looked <= HandlerBatch /\ Len(slots) \in Nat
    BY <1>1, <1>3, <1>4
  <2>3. \A a, l, b \in Nat : a <= b + l /\ l <= b => a \in 0 .. 2 * b
    OBVIOUS
  <2> QED
    BY <1>1, <1>3, <2>1, <2>2, <2>3
<1>6. len_cnt \in [0 .. LEN_CNT - 1 -> U16Range]
  <2>1. 0 \in U16Range
    BY DEF U16Range
  <2>2. len_cnt = [n \in 0 .. LEN_CNT - 1 |-> 0]
    BY DEF HandlersInv, MonitorCounts
  <2> QED
    BY <2>1, <2>2
<1>7. handler \in {"monitor", "ids", "aes_encrypt", "aes_decrypt"}
      /\ seen \in [{"tcp", "udp", "neither"} -> Nat]
  BY DEF HandlersInv, HandlerTypes
<1> QED
  BY <1>2, <1>3, <1>5, <1>6, <1>7 DEF HandlerRest, HandlersTypeOK

LEMMA HandlerRestStep ==
    ASSUME HandlersInv, HandlerRest, [HandlersNext]_handlerVars
    PROVE  HandlerRest'
<1>1. /\ HandlerBatch \in Nat \ {0} /\ BatchBound \in Nat
      /\ looked \in 0 .. Len(slots) /\ answer \in Nat /\ slots \in Seq(HandlerMbufs)
  BY HandlersAssumption DEF HandlersInv, HandlerTypes
<1>2. Len(slots) \in Nat /\ looked \in Nat
  BY <1>1
<1>3. CASE HandlerReceive
  <2>1. PICK ms \in kSubset(HandlerBatch, free_mbufs) : slots' = SetToSeq(ms)
    BY <1>3 DEF HandlerReceive
  <2>2. IsFiniteSet(free_mbufs)
    BY MbufsAreFinite DEF HandlersInv
  <2>3. slots' \in [1 .. HandlerBatch -> ms]
    BY <2>1, <2>2, BatchIsListed
  <2>4. Len(slots') = HandlerBatch
    <3>1. DOMAIN slots' = 1 .. HandlerBatch
      BY <2>3
    <3>2. slots' \in Seq(ms)
      BY <1>1, <2>3
    <3> QED
      BY <1>1, <3>1, <3>2
  <2>5. header' \in [1 .. HandlerBatch -> Headers]
    BY <1>3 DEF HandlerReceive
  <2>6. header' \in Seq(Headers) /\ Len(header') = HandlerBatch
    <3>1. header' \in Seq(Headers)
      BY <1>1, <2>5
    <3>2. DOMAIN header' = 1 .. HandlerBatch
      BY <2>5
    <3> QED
      BY <1>1, <3>1, <3>2
  <2>7. answer' <= HandlerBatch + looked'
    BY <1>1, <1>3 DEF HandlerReceive, AnswerAtStart
  <2>8. batches' \in 0 .. BatchBound
    BY <1>1, <1>3 DEF HandlerReceive, HandlerRest
  <2> QED
    BY <1>3, <2>4, <2>6, <2>7, <2>8 DEF HandlerReceive, HandlerRest, statVars
<1>4. ASSUME NextPacket, tcp_num' \in Nat, udp_num' \in Nat,
             answer' \in Nat, answer' <= answer + 1
      PROVE  HandlerRest'
  <2>1. looked' = looked + 1 /\ answer <= HandlerBatch + looked
    BY <1>4 DEF NextPacket, HandlerRest
  <2>2. \A a, c, b, l \in Nat : a <= c + 1 /\ c <= b + l => a <= b + (l + 1)
    OBVIOUS
  <2>3. answer' <= HandlerBatch + looked'
    BY <1>1, <1>2, <1>4, <2>1, <2>2
  <2> QED
    BY <1>4, <2>3 DEF NextPacket, batchVarsH, HandlerRest
<1>5. CASE Monitor
  <2>1. /\ tcp_num' = tcp_num + (IF HasTcpHdr(pkt) THEN 1 ELSE 0)
        /\ udp_num' = udp_num + (IF HasUdpHdr(pkt) THEN 1 ELSE 0)
        /\ NextPacket /\ answer' = answer
    BY <1>5 DEF Monitor
  <2>2. tcp_num \in Nat /\ udp_num \in Nat
    BY DEF HandlerRest
  <2>3. tcp_num' \in Nat /\ udp_num' \in Nat
    BY <2>1, <2>2
  <2>4. answer' <= answer + 1
    BY <1>1, <2>1
  <2> QED
    BY <1>1, <1>4, <2>1, <2>3, <2>4
<1>6. CASE IdsHandle
  <2>1. NextPacket /\ answer' = answer /\ tcp_num' = tcp_num /\ udp_num' = udp_num
    BY <1>6 DEF IdsHandle, statVars
  <2>2. answer' <= answer + 1
    BY <1>1, <2>1
  <2>3. tcp_num \in Nat /\ udp_num \in Nat
    BY DEF HandlerRest
  <2> QED
    BY <1>1, <1>4, <2>1, <2>2, <2>3
<1>7. CASE AesEncryptHandle
  <2>1. answer' \in Nat /\ answer' <= answer + 1
    BY <1>1, <1>7 DEF AesEncryptHandle
  <2> QED
    BY <1>4, <1>7, <2>1 DEF AesEncryptHandle, statVars, HandlerRest
<1>8. CASE AesDecryptHandle
  <2>1. answer' \in Nat /\ answer' <= answer + 1
    BY <1>1, <1>8 DEF AesDecryptHandle
  <2> QED
    BY <1>4, <1>8, <2>1 DEF AesDecryptHandle, statVars, HandlerRest
<1>9. CASE MonitorNull \/ SendOutside
  BY <1>9 DEF MonitorNull, SendOutside, batchVarsH, statVars, HandlerRest
<1>10. CASE SendFront
  <2>1. slots' = <<>> /\ header' = <<>> /\ looked' = 0 /\ answer' = 0
    BY <1>10 DEF SendFront
  <2>2. header' \in Seq(Headers) /\ Len(header') = Len(slots')
    BY <2>1
  <2>3. /\ tcp_num' = tcp_num /\ udp_num' = udp_num
        /\ handler_fault' = handler_fault /\ batches' = batches
    BY <1>10 DEF SendFront, statVars
  <2>4. answer' <= HandlerBatch + looked'
    BY <1>1, <2>1
  <2> QED
    BY <2>2, <2>3, <2>4 DEF HandlerRest
<1>11. CASE HandlerStopped \/ UNCHANGED handlerVars
  BY <1>11 DEF HandlerStopped, handlerVars, statVars, HandlerRest
<1> QED
  BY <1>3, <1>5, <1>6, <1>7, <1>8, <1>9, <1>10, <1>11 DEF HandlersNext

(* For any pool, batch and packets: an answer counts no packet more than     *)
(* twice, and the length counters stay within 16 bits.                       *)
THEOREM HandlersTypeCorrect == HandlersSpec => []HandlersTypeOK
<1>1. HandlersInit => HandlerRest
  <2> SUFFICES ASSUME HandlersInit PROVE HandlerRest
    OBVIOUS
  <2>1. <<>> \in Seq(Headers)
    OBVIOUS
  <2> QED
    BY <2>1, HandlersAssumption DEF HandlersInit, HandlerRest
<1>2. HandlersInv /\ HandlerRest /\ [HandlersNext]_handlerVars
        => HandlersInv' /\ HandlerRest'
  BY StepHandlers, HandlerRestStep
<1>3. HandlersInv /\ HandlerRest => HandlersTypeOK
  BY HandlerTypesHold
<1> QED
  BY <1>1, <1>2, <1>3, InitHandlers, PTL DEF HandlersSpec

-----------------------------------------------------------------------------

\* Between the calls there is none.
ModesRest ==
    /\ stage = "idle" => call = NoCall
    /\ mac_auth \in BOOLEAN

LEMMA ModesRestStep ==
    ASSUME ModesRest, [ModesNext]_modesVars
    PROVE  ModesRest'
<1> USE DEF ModesRest
<1>1. CASE CallCbc \/ CallCtr
  BY <1>1 DEF CallCbc, CallCtr, Call
<1>2. CASE CbcEncryptBlock \/ CbcEncrypted \/ CbcDecryptBlock \/ CbcDecrypted
  BY <1>2 DEF CbcEncryptBlock, CbcEncrypted, CbcDecryptBlock, CbcDecrypted, InCbc,
              StartDecrypt
<1>3. CASE CtrBlock \/ CtrLastBlock
  <2>1. stage \in {"encrypt", "decrypt"} /\ call' = call /\ mac_auth' = mac_auth
    BY <1>3 DEF CtrBlock, CtrLastBlock, InCtr
  <2>2. stage' # "idle"
    BY <1>3, <2>1 DEF CtrBlock, CtrLastBlock, StartDecrypt
  <2> QED
    BY <2>1, <2>2
<1>4. CASE EncryptCcm \/ Disturb
  BY <1>4 DEF EncryptCcm, Disturb
<1>5. CASE DecryptCcm
  <2>1. stage' = "done" /\ \E payload, mac : mac_auth' = MacMatches(payload, mac)
    BY <1>5 DEF DecryptCcm
  <2>2. \A payload, mac : MacMatches(payload, mac) \in BOOLEAN
    BY DEF MacMatches
  <2>3. mac_auth' \in BOOLEAN
    BY <2>1, <2>2
  <2> QED
    BY <2>1, <2>3
<1>6. CASE Return
  BY <1>6 DEF Return
<1>7. CASE UNCHANGED modesVars
  BY <1>7 DEF modesVars
<1>8. RefuseCbc \/ RefuseCcm \/ RefuseDecryptCcm => UNCHANGED modesVars
  BY DEF RefuseCbc, RefuseCcm, RefuseDecryptCcm
<1> QED
  BY <1>1, <1>2, <1>3, <1>4, <1>5, <1>6, <1>7, <1>8 DEF ModesNext

(* For any cipher and messages of any length: what is put out, the counter   *)
(* and the chained block are bytes and blocks.                               *)
THEOREM ModesTypeCorrect == ModesSpec => []ModesTypeOK
<1>1. ModesInit => ModesRest
  BY DEF ModesInit, ModesRest
<1>2. ModesRest /\ [ModesNext]_modesVars => ModesRest'
  BY ModesRestStep
<1>3. ModesInv /\ ModesRest => ModesTypeOK
  BY DEF ModesInv, ModesTypes, ModesRest, ModesTypeOK
<1> QED
  BY <1>1, <1>2, <1>3, ModesInvInit, ModesInvStep, PTL DEF ModesSpec

-----------------------------------------------------------------------------
(* The functions side by side *)

(* Whichever function is compiled in, each behaves as its own specification  *)
(* says: the ones that are not run stay as they were initialised.            *)
LEMMA EachKeepsToItself ==
    FunctionsSpec =>
        /\ ClassifierSpec /\ NatSpec /\ FirewallSpec /\ IdsSpec
        /\ CipherSpec /\ ModesSpec /\ HandlersSpec
<1>1. FunctionsInit =>
        /\ ClassifierInit /\ NatInit /\ FirewallInit /\ IdsInit
        /\ CipherInit /\ ModesInit /\ HandlersInit
  BY DEF FunctionsInit
<1>2. [FunctionsNext]_functionsVars => [ClassifierNext]_classifierVars
  BY DEF FunctionsNext, functionsVars, RunClassifier, RunNat, RunFirewall, RunIds, RunCipher,
         RunModes, RunHandlers
<1>3. [FunctionsNext]_functionsVars => [NatNext]_natVars
  BY DEF FunctionsNext, functionsVars, RunClassifier, RunNat, RunFirewall, RunIds, RunCipher,
         RunModes, RunHandlers
<1>4. [FunctionsNext]_functionsVars => [FirewallNext]_firewallVars
  BY DEF FunctionsNext, functionsVars, RunClassifier, RunNat, RunFirewall, RunIds, RunCipher,
         RunModes, RunHandlers
<1>5. [FunctionsNext]_functionsVars => [IdsNext]_idsVars
  BY DEF FunctionsNext, functionsVars, RunClassifier, RunNat, RunFirewall, RunIds, RunCipher,
         RunModes, RunHandlers
<1>6. [FunctionsNext]_functionsVars => [CipherNext]_cipherVars
  BY DEF FunctionsNext, functionsVars, RunClassifier, RunNat, RunFirewall, RunIds, RunCipher,
         RunModes, RunHandlers
<1>7. [FunctionsNext]_functionsVars => [ModesNext]_modesVars
  BY DEF FunctionsNext, functionsVars, RunClassifier, RunNat, RunFirewall, RunIds, RunCipher,
         RunModes, RunHandlers
<1>8. [FunctionsNext]_functionsVars => [HandlersNext]_handlerVars
  BY DEF FunctionsNext, functionsVars, RunClassifier, RunNat, RunFirewall, RunIds, RunCipher,
         RunModes, RunHandlers
<1> QED
  BY <1>1, <1>2, <1>3, <1>4, <1>5, <1>6, <1>7, <1>8, PTL
     DEF FunctionsSpec, ClassifierSpec, NatSpec, FirewallSpec, IdsSpec, CipherSpec, ModesSpec,
         HandlersSpec

(* Theorem: whichever function is compiled in, all keep their types:         *)
(* NetworkFunctions!FunctionsTypeOK, for any hash that yields a bucket.      *)
THEOREM FunctionsTypeCorrect ==
    ASSUME HashesAreBuckets
    PROVE  FunctionsSpec => []FunctionsTypeOK
<1>1. FunctionsSpec => [](compiled \in NetworkFunction)
  <2>1. FunctionsInit => compiled \in NetworkFunction
    BY DEF FunctionsInit
  <2>2. compiled \in NetworkFunction /\ [FunctionsNext]_functionsVars
          => (compiled \in NetworkFunction)'
    BY DEF FunctionsNext, functionsVars
  <2> QED
    BY <2>1, <2>2, PTL DEF FunctionsSpec
<1>2. /\ compiled \in NetworkFunction
      /\ ClassifierTypeOK /\ NatTypeOK /\ (FirewallTypeOK /\ AtRest) /\ IdsTypeOK
      /\ CipherTypeOK /\ ModesTypeOK /\ HandlersTypeOK
      => FunctionsTypeOK
  BY DEF FunctionsTypeOK
<1>3. NatSpec => []NatTypeOK
  BY NatTypeCorrect
<1> QED
  BY <1>1, <1>2, <1>3, EachKeepsToItself, ClassifierTypeCorrect, FirewallTypeCorrect,
     IdsTypeCorrect, CipherTypeCorrect, ModesTypeCorrect, HandlersTypeCorrect, PTL


-----------------------------------------------------------------------------
(* AesModes: blocks as numbers *)

LEMMA NumbersOfBytes ==
    /\ NumbersOf[0] = 1
    /\ \A k \in Nat : /\ NumbersOf[k] \in Nat \ {0}
                      /\ NumbersOf[k + 1] = BYTES * NumbersOf[k]
<1> DEFINE Powers(f) == f = [k \in Nat |-> IF k = 0 THEN 1 ELSE BYTES * f[k - 1]]
           S == Nat \ {0}
           step == [k \in Nat |-> [v \in S |-> BYTES * v]]
<1>1. DOMAIN step = Nat /\ \A m \in Nat : \A v \in S : step[m][v] \in S
  <2>1. BYTES \in Nat \ {0}
    BY AesModesAssumption
  <2>2. \A v \in S : BYTES * v \in S
    BY <2>1
  <2> QED
    BY <2>2
<1>2. \A k \in Nat, v \in S : step[k][v] = BYTES * v
  OBVIOUS
<1>3. 1 \in S
  OBVIOUS
<1> HIDE DEF step, S
<1>4. PICK g : /\ g[0] = 1 /\ g = [k \in Nat |-> g[k]]
               /\ \A k \in Nat : g[k] \in S /\ g[k + 1] = step[k][g[k]]
  BY <1>1, <1>3, IteratesForever
<1>5. \A k \in Nat : g[k] = IF k = 0 THEN 1 ELSE BYTES * g[k - 1]
  <2> TAKE k \in Nat
  <2>1. CASE k = 0
    BY <1>4, <2>1
  <2>2. CASE k # 0
    <3>1. k - 1 \in Nat /\ (k - 1) + 1 = k
      BY <2>2
    <3>2. g[k] = step[k - 1][g[k - 1]] /\ g[k - 1] \in S
      BY <1>4, <3>1
    <3> QED
      BY <1>2, <2>2, <3>1, <3>2
  <2> QED
    BY <2>1, <2>2
<1>6. Powers(g)
  BY <1>4, <1>5
<1> DEFINE f == CHOOSE f : Powers(f)
<1>7. Powers(f)
  BY <1>6
<1>8. NumbersOf = f
  BY DEF NumbersOf
<1> HIDE DEF f
<1>9. \A k \in Nat : f[k] = IF k = 0 THEN 1 ELSE BYTES * f[k - 1]
  BY <1>7
<1> HIDE DEF Powers
<1>10. f[0] = 1
  BY <1>9
<1>11. \A k \in Nat : f[k + 1] = BYTES * f[k]
  <2> TAKE k \in Nat
  <2>1. k + 1 \in Nat /\ k + 1 # 0 /\ (k + 1) - 1 = k
    OBVIOUS
  <2> QED
    BY <1>9, <2>1
<1>12. \A k \in Nat : f[k] \in Nat \ {0}
  <2> DEFINE G == {k \in Nat : f[k] \in Nat \ {0}}
  <2>1. 0 \in G
    BY <1>10
  <2>2. ASSUME NEW k \in Nat, k \in G
        PROVE  k + 1 \in G
    <3>1. BYTES \in Nat \ {0}
      BY AesModesAssumption
    <3>2. \A v \in Nat \ {0} : BYTES * v \in Nat \ {0}
      BY <3>1
    <3> QED
      BY <1>11, <2>2, <3>2
  <2>3. Nat \subseteq G
    <3> HIDE DEF G
    <3> QED
      BY <2>1, <2>2, EveryNumber
  <2> QED
    BY <2>3
<1> QED
  BY <1>8, <1>10, <1>11, <1>12

\* The numbers that the first k bytes of a block are, for all k.
PrefixNumbers(f, b) ==
    /\ f[0] = 0
    /\ \A k \in Nat : k < AES_BLOCK_SIZE =>
          /\ f[k] \in Nat /\ f[k + 1] \in Nat
          /\ f[k + 1] = BYTES * f[k] + b[k + 1]

(* A block is the last of them.                                              *)
LEMMA NumberIsPrefix ==
    ASSUME NEW b \in Block
    PROVE  \E f : PrefixNumbers(f, b) /\ Number(b) = f[AES_BLOCK_SIZE]
<1> DEFINE len == AES_BLOCK_SIZE
           Sums(f) == f = [k \in 0 .. len |-> IF k = 0 THEN 0 ELSE BYTES * f[k - 1] + b[k]]
           step == [k \in Nat |-> [v \in Nat |-> IF k < len THEN BYTES * v + b[k + 1] ELSE v]]
<1>1. len \in Nat \ {0} /\ BYTES \in Nat \ {0}
  BY AesModesAssumption
<1>2. \A k \in 1 .. len : b[k] \in Nat
  <2>1. \A k \in 1 .. len : b[k] \in Byte
    BY DEF Block
  <2> QED
    BY <1>1, <2>1 DEF Byte
<1>3. \A k \in Nat : k < len => b[k + 1] \in Nat
  BY <1>1, <1>2
<1>4. DOMAIN b = 1 .. len /\ Len(b) = len
  <2>1. DOMAIN b = 1 .. len
    BY DEF Block
  <2>2. b \in Seq(Byte)
    BY <1>1 DEF Block
  <2> QED
    BY <1>1, <2>1, <2>2
<1>5. \A k \in Nat, v \in Nat :
        step[k][v] = IF k < len THEN BYTES * v + b[k + 1] ELSE v
  OBVIOUS
<1>6. DOMAIN step = Nat /\ \A m \in Nat : \A v \in Nat : step[m][v] \in Nat
  <2>1. \A v, c \in Nat : BYTES * v + c \in Nat
    BY <1>1
  <2> QED
    BY <1>3, <1>5, <2>1
<1>7. 0 \in Nat
  OBVIOUS
<1> HIDE DEF step
<1>8. PICK g \in [0 .. len -> Nat] : IteratesTo(g, len, 0, step)
  <2> HIDE DEF len
  <2> QED
    BY <1>1, <1>6, <1>7, IteratesExist
<1>9. \A k \in 0 .. len : g[k] \in Nat /\ g = [n \in 0 .. len |-> g[n]]
  BY <1>8
<1> HIDE DEF len
<1>10. \A k \in 0 .. len : g[k] = IF k = 0 THEN 0 ELSE BYTES * g[k - 1] + b[k]
  <2> TAKE k \in 0 .. len
  <2>1. CASE k = 0
    BY <1>8, <2>1 DEF IteratesTo
  <2>2. CASE k # 0
    <3>1. k \in 1 .. len /\ k - 1 \in Nat /\ k - 1 < len /\ (k - 1) + 1 = k
          /\ k - 1 \in 0 .. len
      BY <1>1, <2>2
    <3>2. g[k] = step[k - 1][g[k - 1]] /\ g[k - 1] \in Nat
      BY <1>8, <1>9, <3>1 DEF IteratesTo
    <3>3. step[k - 1][g[k - 1]] = BYTES * g[k - 1] + b[(k - 1) + 1]
      BY <1>5, <3>1, <3>2
    <3> QED
      BY <2>2, <3>1, <3>2, <3>3
  <2> QED
    BY <2>1, <2>2
<1>11. Sums(g)
  <2>1. 0 \in 0 .. len
    BY <1>1
  <2>2. g = [n \in 0 .. len |-> g[n]]
    BY <1>9, <2>1
  <2> QED
    BY <1>10, <2>2
<1> DEFINE f == CHOOSE f : Sums(f)
<1>12. Sums(f)
  BY <1>11
<1>13. Number(b) = f[len]
  BY <1>4 DEF Number, len
<1> HIDE DEF f
<1>14. \A k \in 0 .. len : f[k] = IF k = 0 THEN 0 ELSE BYTES * f[k - 1] + b[k]
  BY <1>12
<1> HIDE DEF Sums
<1>15. f[0] = 0
  BY <1>1, <1>14
<1>16. \A k \in Nat : k < len => f[k + 1] = BYTES * f[k] + b[k + 1]
  <2> TAKE k \in Nat
  <2> SUFFICES ASSUME k < len PROVE f[k + 1] = BYTES * f[k] + b[k + 1]
    OBVIOUS
  <2>1. k + 1 \in 0 .. len /\ k + 1 # 0 /\ (k + 1) - 1 = k
    BY <1>1
  <2> QED
    BY <1>14, <2>1
<1>17. \A k \in Nat : k <= len => f[k] \in Nat
  <2> DEFINE G == {k \in Nat : k <= len => f[k] \in Nat}
  <2>1. 0 \in G
    BY <1>15
  <2>2. ASSUME NEW k \in Nat, k \in G
        PROVE  k + 1 \in G
    <3> SUFFICES ASSUME k + 1 <= len PROVE f[k + 1] \in Nat
      OBVIOUS
    <3>1. k < len /\ k <= len
      BY <1>1
    <3>2. f[k] \in Nat /\ b[k + 1] \in Nat
      BY <1>3, <2>2, <3>1
    <3>3. BYTES * f[k] \in Nat
      BY <1>1, <3>2
    <3> QED
      BY <1>16, <3>1, <3>2, <3>3
  <2>3. Nat \subseteq G
    <3> HIDE DEF G
    <3> QED
      BY <2>1, <2>2, EveryNumber
  <2> QED
    BY <2>3
<1>18. \A k \in Nat : k < len => f[k] \in Nat /\ f[k + 1] \in Nat
  <2> TAKE k \in Nat
  <2>1. k < len => k <= len /\ k + 1 \in Nat /\ k + 1 <= len
    BY <1>1
  <2> QED
    BY <1>17, <2>1
<1>19. PrefixNumbers(f, b)
  BY <1>15, <1>16, <1>18 DEF PrefixNumbers, len
<1> QED
  BY <1>13, <1>19 DEF len

\* The next of p numbers, after the last of which comes 0.
NextOf(v, p) == IF v + 1 = p THEN 0 ELSE v + 1

(* A byte after a number: the carry of the byte goes to the number.          *)
LEMMA CarryCounts ==
    ASSUME NEW bytes \in Nat, bytes > 1, NEW p \in Nat \ {0}, NEW v \in Nat, v < p,
           NEW c \in 0 .. bytes - 1
    PROVE  /\ bytes * v + c < bytes * p
           /\ c = bytes - 1 => NextOf(bytes * v + c, bytes * p) = bytes * NextOf(v, p) + 0
           /\ c # bytes - 1 => NextOf(bytes * v + c, bytes * p) = bytes * v + (c + 1)
<1>1. PICK d \in Nat : p = v + 1 + d
  BY v + 1 <= p
<1>2. bytes * p = bytes * v + bytes + bytes * d
  BY <1>1
<1>3. bytes * v \in Nat /\ bytes * d \in Nat /\ bytes * (v + 1) = bytes * v + bytes
  BY <1>1
<1>4. d = 0 => bytes * d = 0
  OBVIOUS
<1>5. d # 0 => bytes * d >= bytes
  <2> SUFFICES ASSUME d # 0 PROVE bytes * d >= bytes
    OBVIOUS
  <2>1. PICK e \in Nat : d = e + 1
    BY d - 1 \in Nat, d = (d - 1) + 1
  <2>2. bytes * d = bytes * e + bytes /\ bytes * e \in Nat
    BY <2>1
  <2> QED
    BY <2>2
<1> DEFINE x == bytes * v
           y == bytes * d
           z == bytes * p
<1>6. x \in Nat /\ y \in Nat /\ z = x + bytes + y /\ (d = 0 => y = 0)
      /\ (d # 0 => y >= bytes) /\ bytes * (v + 1) = x + bytes /\ bytes * 0 = 0
  BY <1>2, <1>3, <1>4, <1>5
<1> HIDE DEF x, y, z
<1>7. x + c < z
  BY <1>6
<1>8. c = bytes - 1 => NextOf(x + c, z) = bytes * NextOf(v, p) + 0
  <2> SUFFICES ASSUME c = bytes - 1
               PROVE  NextOf(x + c, z) = bytes * NextOf(v, p) + 0
    OBVIOUS
  <2>1. CASE d = 0
    <3>1. v + 1 = p /\ (x + c) + 1 = z
      BY <1>1, <1>6, <2>1
    <3>2. NextOf(v, p) = 0 /\ NextOf(x + c, z) = 0
      BY <3>1 DEF NextOf
    <3> QED
      BY <1>6, <3>2
  <2>2. CASE d # 0
    <3>1. v + 1 # p /\ (x + c) + 1 # z
      BY <1>1, <1>6, <2>2
    <3>2. NextOf(v, p) = v + 1 /\ NextOf(x + c, z) = (x + c) + 1
      BY <3>1 DEF NextOf
    <3> QED
      BY <1>6, <3>2
  <2> QED
    BY <2>1, <2>2
<1>9. c # bytes - 1 => NextOf(x + c, z) = x + (c + 1)
  BY <1>6 DEF NextOf
<1> QED
  BY <1>7, <1>8, <1>9 DEF x, z

\* All bytes after the first k are as large as they can be.
Carries(b, k) == \A l \in k + 1 .. AES_BLOCK_SIZE : b[l] = BYTES - 1

(* The carry runs through the bytes as through the digits of the number.     *)
LEMMA PrefixesCount ==
    ASSUME NEW b \in Block, NEW f, PrefixNumbers(f, b),
           NEW g, PrefixNumbers(g, IncrementIv(b, AES_BLOCK_SIZE))
    PROVE  \A k \in Nat : k <= AES_BLOCK_SIZE =>
             /\ f[k] \in Nat /\ f[k] < NumbersOf[k]
             /\ g[k] = IF Carries(b, k) THEN NextOf(f[k], NumbersOf[k]) ELSE f[k]
<1> DEFINE len == AES_BLOCK_SIZE
           inc == IncrementIv(b, len)
           Holds(k) == /\ f[k] \in Nat /\ f[k] < NumbersOf[k]
                       /\ g[k] = IF Carries(b, k) THEN NextOf(f[k], NumbersOf[k]) ELSE f[k]
           G == {k \in Nat : k <= len => Holds(k)}
<1>1. len \in Nat \ {0} /\ BYTES \in Nat /\ BYTES > 1
  BY AesModesAssumption, CounterAssumption
<1>2. \A k \in 1 .. len : b[k] \in 0 .. BYTES - 1
  BY DEF Block, Byte
<1>3. \A k \in 1 .. len : inc[k] = IF Carries(b, k) THEN (b[k] + 1) % BYTES ELSE b[k]
  <2> TAKE k \in 1 .. len
  <2>1. k > len - len
    BY <1>1
  <2> QED
    BY <2>1 DEF IncrementIv, Carries
<1>4. (BYTES - 1 + 1) % BYTES = 0
      /\ \A c \in 0 .. BYTES - 1 : c # BYTES - 1 => (c + 1) % BYTES = c + 1
  BY <1>1
<1> HIDE DEF inc
<1>5. 0 \in G
  <2>1. f[0] = 0 /\ g[0] = 0 /\ NumbersOf[0] = 1
    BY NumbersOfBytes DEF PrefixNumbers
  <2>2. NextOf(0, 1) = 0
    BY DEF NextOf
  <2> QED
    BY <2>1, <2>2
<1>6. ASSUME NEW k \in Nat, k \in G
      PROVE  k + 1 \in G
  <2> SUFFICES ASSUME k + 1 <= len PROVE Holds(k + 1)
    OBVIOUS
  <2> DEFINE c == b[k + 1]
             p == NumbersOf[k]
  <2>1. k < len /\ k <= len /\ k + 1 \in 1 .. len
    BY <1>1
  <2>2. /\ f[k] \in Nat /\ f[k] < p /\ p \in Nat \ {0}
        /\ g[k] = IF Carries(b, k) THEN NextOf(f[k], p) ELSE f[k]
    BY <1>6, <2>1, NumbersOfBytes
  <2>3. /\ f[k + 1] \in Nat /\ f[k + 1] = BYTES * f[k] + c
        /\ g[k + 1] = BYTES * g[k] + inc[k + 1]
        /\ NumbersOf[k + 1] = BYTES * p
    BY <2>1, NumbersOfBytes DEF PrefixNumbers, inc
  <2>4. c \in 0 .. BYTES - 1
        /\ inc[k + 1] = IF Carries(b, k + 1) THEN (c + 1) % BYTES ELSE c
    BY <1>2, <1>3, <2>1
  <2>5. Carries(b, k) <=> Carries(b, k + 1) /\ c = BYTES - 1
    <3>1. k + 1 .. len = {k + 1} \cup ((k + 1) + 1 .. len)
      BY <2>1
    <3> QED
      BY <3>1 DEF Carries
  <2> HIDE DEF c, p
  <2>6. /\ BYTES * f[k] + c < BYTES * p
        /\ c = BYTES - 1 => NextOf(BYTES * f[k] + c, BYTES * p) = BYTES * NextOf(f[k], p) + 0
        /\ c # BYTES - 1 => NextOf(BYTES * f[k] + c, BYTES * p) = BYTES * f[k] + (c + 1)
    BY <1>1, <2>2, <2>4, CarryCounts
  <2>7. CASE ~ Carries(b, k + 1)
    BY <2>2, <2>3, <2>4, <2>5, <2>6, <2>7
  <2>8. CASE Carries(b, k + 1) /\ c = BYTES - 1
    <3>1. inc[k + 1] = 0 /\ g[k] = NextOf(f[k], p)
      BY <1>4, <2>2, <2>4, <2>5, <2>8
    <3>2. g[k + 1] = NextOf(f[k + 1], NumbersOf[k + 1])
      BY <2>3, <2>6, <2>8, <3>1
    <3> QED
      BY <2>3, <2>6, <2>8, <3>2
  <2>9. CASE Carries(b, k + 1) /\ c # BYTES - 1
    <3>1. inc[k + 1] = c + 1 /\ g[k] = f[k]
      BY <1>4, <2>2, <2>4, <2>5, <2>9
    <3>2. g[k + 1] = NextOf(f[k + 1], NumbersOf[k + 1])
      BY <2>3, <2>6, <2>9, <3>1
    <3> QED
      BY <2>3, <2>6, <2>9, <3>2
  <2> QED
    BY <2>7, <2>8, <2>9
<1>7. Nat \subseteq G
  <2> HIDE DEF G
  <2> QED
    BY <1>5, <1>6, EveryNumber
<1> QED
  BY <1>7

(* increment_iv adds one to a block.                                         *)
LEMMA IncrementCounts ==
    ASSUME NEW b \in Block
    PROVE  /\ Number(b) \in Nat /\ Number(b) < NumbersOf[AES_BLOCK_SIZE]
           /\ Number(IncrementIv(b, AES_BLOCK_SIZE))
                = NextOf(Number(b), NumbersOf[AES_BLOCK_SIZE])
<1>1. AES_BLOCK_SIZE \in Nat /\ IncrementIv(b, AES_BLOCK_SIZE) \in Block
  BY AesModesAssumption, IncrementedIv
<1>2. PICK f : PrefixNumbers(f, b) /\ Number(b) = f[AES_BLOCK_SIZE]
  BY NumberIsPrefix
<1>3. PICK g : /\ PrefixNumbers(g, IncrementIv(b, AES_BLOCK_SIZE))
               /\ Number(IncrementIv(b, AES_BLOCK_SIZE)) = g[AES_BLOCK_SIZE]
  BY <1>1, NumberIsPrefix
<1>4. Carries(b, AES_BLOCK_SIZE)
  BY <1>1 DEF Carries
<1> QED
  BY <1>1, <1>2, <1>3, <1>4, PrefixesCount

LEMMA NextIsModulo ==
    ASSUME NEW p \in Nat \ {0}, NEW a \in Nat
    PROVE  a % p \in 0 .. p - 1 /\ NextOf(a % p, p) = (a + 1) % p
<1> DEFINE q == a \div p
           r == a % p
<1>1. q \in Nat /\ a = p * q + r
  OBVIOUS
<1>2. r \in 0 .. p - 1 /\ a = p * q + r
  BY <1>1
<1> HIDE DEF q, r
<1>3. \A n \in Nat, c \in 0 .. p - 1 : (p * n + c) % p = c
  OBVIOUS
<1>4. CASE r + 1 = p
  <2>0. \A n \in Nat : p * (n + 1) = p * n + p /\ p * n \in Nat
    OBVIOUS
  <2>1. a + 1 = p * (q + 1) + 0
    BY <1>1, <1>2, <1>4, <2>0
  <2>2. q + 1 \in Nat /\ 0 \in 0 .. p - 1
    BY <1>1
  <2>3. (a + 1) % p = 0
    BY <1>3, <2>1, <2>2
  <2>4. NextOf(r, p) = 0
    BY <1>4 DEF NextOf
  <2> QED
    BY <1>2, <2>3, <2>4 DEF r
<1>5. CASE r + 1 # p
  <2>1. p * q \in Nat
    BY <1>1
  <2>2. a + 1 = p * q + (r + 1) /\ r + 1 \in 0 .. p - 1
    BY <1>2, <1>5, <2>1
  <2>3. (a + 1) % p = r + 1
    BY <1>1, <1>3, <2>2
  <2>4. NextOf(r, p) = r + 1
    BY <1>5 DEF NextOf
  <2> QED
    BY <1>2, <2>3, <2>4 DEF r
<1> QED
  BY <1>4, <1>5

(* The counter block is the initial vector and the number of blocks done.    *)
LEMMA CountersCountUp ==
    ASSUME NEW iv \in Block
    PROVE  \A n \in Nat :
             Number(CounterAfter(iv, n)) = (Number(iv) + n) % NumbersOf[AES_BLOCK_SIZE]
<1> DEFINE p == NumbersOf[AES_BLOCK_SIZE]
           x == Number(iv)
           G == {n \in Nat : Number(CounterAfter(iv, n)) = (x + n) % p}
<1>1. p \in Nat \ {0} /\ x \in Nat /\ x < p
  BY AesModesAssumption, NumbersOfBytes, IncrementCounts
<1>2. 0 \in G
  <2>1. CounterAfter(iv, 0) = iv
    BY CountersFollow
  <2>2. (x + 0) % p = x
    <3> HIDE DEF x, p
    <3> QED
      BY <1>1
  <2> QED
    BY <2>1, <2>2
<1>3. ASSUME NEW n \in Nat, n \in G
      PROVE  n + 1 \in G
  <2>1. CounterAfter(iv, n) \in Block
        /\ CounterAfter(iv, n + 1) = IncrementIv(CounterAfter(iv, n), AES_BLOCK_SIZE)
    BY CountersFollow
  <2>2. Number(CounterAfter(iv, n + 1)) = NextOf(Number(CounterAfter(iv, n)), p)
    BY <2>1, IncrementCounts
  <2>3. Number(CounterAfter(iv, n)) = (x + n) % p
    BY <1>3
  <2> HIDE DEF x, p
  <2>4. x + n \in Nat /\ (x + n) + 1 = x + (n + 1)
    BY <1>1
  <2>5. NextOf((x + n) % p, p) = ((x + n) + 1) % p
    BY <1>1, <2>4, NextIsModulo
  <2> QED
    BY <2>2, <2>3, <2>4, <2>5
<1>4. Nat \subseteq G
  <2> HIDE DEF G
  <2> QED
    BY <1>2, <1>3, EveryNumber
<1> QED
  BY <1>4

-----------------------------------------------------------------------------
(* AesModes: the lengths of what the MAC is computed of *)

LEMMA TwoBytesAre ==
    ASSUME NEW n \in Nat
    PROVE  TwoBytes(n) \in Seq(Byte) /\ Len(TwoBytes(n)) = 2
<1>1. BYTES \in Nat \ {0}
  BY AesModesAssumption
<1>2. \A m \in Int : m % BYTES \in Byte
  BY <1>1 DEF Byte
<1>3. n \div BYTES \in Int
  BY <1>1
<1> QED
  BY <1>2, <1>3 DEF TwoBytes

LEMMA JoinedBytes ==
    ASSUME NEW s \in Seq(Byte), NEW t \in Seq(Byte)
    PROVE  s \o t \in Seq(Byte) /\ Len(s \o t) = Len(s) + Len(t)
BY Joined

LEMMA FormatBlockLength ==
    ASSUME NEW nonce \in Seq(Byte), Len(nonce) <= AES_BLOCK_SIZE - 3,
           NEW la \in Nat, NEW lp \in Nat, NEW mac_len \in Nat
    PROVE  /\ FirstFormatBlk(la, lp, mac_len, nonce) \in Seq(Byte)
           /\ Len(FirstFormatBlk(la, lp, mac_len, nonce)) = AES_BLOCK_SIZE
<1> DEFINE flags == 8 * (((mac_len - 2) \div 2) % 8)
                      + ((AES_BLOCK_SIZE - 2 - Len(nonce)) % 8)
                      + (IF la > 0 THEN 64 ELSE 0)
           first == <<flags % BYTES>>
           l == Len(nonce)
           b == AES_BLOCK_SIZE
           rest == Zeros(b - 3 - l)
           last == TwoBytes(lp)
<1>1. b \in Nat \ {0} /\ BYTES \in Nat \ {0} /\ l \in Nat /\ l <= b - 3
  BY AesModesAssumption
<1>2. flags \in Int
  BY <1>1
<1> HIDE DEF flags
<1>3. first \in Seq(Byte) /\ Len(first) = 1
  <2>1. flags % BYTES \in Byte
    BY <1>1, <1>2 DEF Byte
  <2> QED
    BY <2>1
<1>4. rest \in Seq(Byte) /\ Len(rest) = b - 3 - l
  <2>1. b - 3 - l \in Nat
    BY <1>1
  <2> QED
    BY <2>1, ZerosAreBytes
<1>5. last \in Seq(Byte) /\ Len(last) = 2
  BY TwoBytesAre
<1>6. FirstFormatBlk(la, lp, mac_len, nonce) = first \o nonce \o rest \o last
  BY DEF FirstFormatBlk, flags
<1> HIDE DEF first, rest, last, l, b
<1> DEFINE front == first \o nonce
           most == front \o rest
<1>7. front \in Seq(Byte) /\ Len(front) = 1 + l
  <2>1. first \o nonce \in Seq(Byte) /\ Len(first \o nonce) = Len(first) + Len(nonce)
    BY <1>3, JoinedBytes
  <2> QED
    BY <1>3, <2>1 DEF l
<1> HIDE DEF front
<1>8. most \in Seq(Byte) /\ Len(most) = (1 + l) + (b - 3 - l)
  BY <1>4, <1>7, JoinedBytes
<1> HIDE DEF most
<1>9. most \o last \in Seq(Byte) /\ Len(most \o last) = ((1 + l) + (b - 3 - l)) + 2
  <2>1. most \o last \in Seq(Byte) /\ Len(most \o last) = Len(most) + Len(last)
    BY <1>5, <1>8, JoinedBytes
  <2> QED
    BY <1>5, <1>8, <2>1
<1>10. ((1 + l) + (b - 3 - l)) + 2 = b
  BY <1>1
<1> QED
  BY <1>6, <1>9, <1>10 DEF most, front, b

\* What a length is filled up by: as it is done for the associated data, by a
\* whole block at times, and for the payload.
Filling(n) == AES_BLOCK_SIZE - (n % AES_BLOCK_SIZE)
LeastFilling(n) == Filling(n) % AES_BLOCK_SIZE

LEMMA FillingIs ==
    ASSUME NEW n \in Nat
    PROVE  LET r == n % AES_BLOCK_SIZE
           IN  /\ r \in 0 .. AES_BLOCK_SIZE - 1
               /\ Filling(n) \in Nat /\ Filling(n) = AES_BLOCK_SIZE - r
               /\ LeastFilling(n) = IF r = 0 THEN 0 ELSE AES_BLOCK_SIZE - r
<1> DEFINE b == AES_BLOCK_SIZE
           r == n % b
<1>1. b \in Nat \ {0}
  BY AesModesAssumption
<1> HIDE DEF b
<1>2. r \in 0 .. b - 1
  BY <1>1
<1>3. \A c \in 0 .. b - 1 : (b * 0 + c) % b = c /\ b * 0 + c = c
  BY <1>1
<1>4. (b * 1 + 0) % b = 0 /\ b * 1 + 0 = b
  <2>1. \A q \in Nat, c \in 0 .. b - 1 : (b * q + c) % b = c
    BY <1>1
  <2>2. 0 \in 0 .. b - 1 /\ 1 \in Nat
    BY <1>1
  <2>3. (b * 1 + 0) % b = 0
    BY <2>1, <2>2
  <2> QED
    BY <1>1, <2>3
<1> HIDE DEF r
<1>5. (b - r) % b = IF r = 0 THEN 0 ELSE b - r
  <2>1. CASE r = 0
    <3>1. b - r = b
      BY <1>1, <2>1
    <3> QED
      BY <1>4, <2>1, <3>1
  <2>2. CASE r # 0
    <3>1. b - r \in 0 .. b - 1
      BY <1>1, <1>2, <2>2
    <3>2. (b - r) % b = b - r
      BY <1>3, <3>1
    <3> QED
      BY <2>2, <3>2
  <2> QED
    BY <2>1, <2>2
<1>6. b - r \in Nat
  BY <1>1, <1>2
<1> QED
  BY <1>2, <1>5, <1>6 DEF b, r, Filling, LeastFilling

LEMMA FormattedLength ==
    ASSUME NEW nonce \in Seq(Byte), Len(nonce) <= AES_BLOCK_SIZE - 3,
           NEW payload \in Seq(Byte), NEW assoc \in Seq(Byte), NEW mac_len \in Nat
    PROVE  Len(Formatted(payload, assoc, nonce, mac_len))
             = AES_BLOCK_SIZE + ((2 + Len(assoc)) + Filling(2 + Len(assoc)))
                 + (Len(payload) + LeastFilling(Len(payload)))
<1> DEFINE first == FirstFormatBlk(Len(assoc), Len(payload), mac_len, nonce)
           two == TwoBytes(Len(assoc))
           la == Len(assoc)
           lp == Len(payload)
<1>1. la \in Nat /\ lp \in Nat /\ AES_BLOCK_SIZE \in Nat
  BY AesModesAssumption
<1>2. first \in Seq(Byte) /\ Len(first) = AES_BLOCK_SIZE
  BY <1>1, FormatBlockLength
<1>3. two \in Seq(Byte) /\ Len(two) = 2
  BY <1>1, TwoBytesAre
<1> DEFINE data == two \o assoc
<1> HIDE DEF two, first
<1>4. data \in Seq(Byte) /\ Len(data) = 2 + la
  <2>1. data \in Seq(Byte) /\ Len(data) = Len(two) + Len(assoc)
    BY <1>3, JoinedBytes
  <2> QED
    BY <1>3, <2>1
<1>5. 2 + la \in Nat
  BY <1>1
<1>6. Filling(2 + la) \in Nat /\ LeastFilling(lp) \in Nat
  <2>1. Filling(2 + la) \in Nat
    BY <1>5, FillingIs
  <2>2. lp % AES_BLOCK_SIZE \in 0 .. AES_BLOCK_SIZE - 1
        /\ LeastFilling(lp) = IF lp % AES_BLOCK_SIZE = 0 THEN 0
                              ELSE AES_BLOCK_SIZE - (lp % AES_BLOCK_SIZE)
    BY <1>1, FillingIs
  <2> DEFINE r == lp % AES_BLOCK_SIZE
  <2>3. r \in 0 .. AES_BLOCK_SIZE - 1
        /\ LeastFilling(lp) = IF r = 0 THEN 0 ELSE AES_BLOCK_SIZE - r
    BY <2>2
  <2> HIDE DEF r
  <2>4. LeastFilling(lp) \in Nat
    BY <1>1, <2>3
  <2> QED
    BY <2>1, <2>4
<1>7. FormatAssocData(assoc) = data \o Zeros(Filling(2 + la))
  BY <1>4 DEF FormatAssocData, two, Filling
<1>8. FormatPayloadData(payload) = payload \o Zeros(LeastFilling(lp))
  BY DEF FormatPayloadData, LeastFilling, Filling
<1> HIDE DEF data
<1>9. FormatAssocData(assoc) \in Seq(Byte)
      /\ Len(FormatAssocData(assoc)) = (2 + la) + Filling(2 + la)
  <2>1. Zeros(Filling(2 + la)) \in Seq(Byte) /\ Len(Zeros(Filling(2 + la))) = Filling(2 + la)
    BY <1>6, ZerosAreBytes
  <2> DEFINE z == Zeros(Filling(2 + la))
  <2> HIDE DEF z
  <2>2. data \o z \in Seq(Byte) /\ Len(data \o z) = Len(data) + Len(z)
    BY <1>4, <2>1, JoinedBytes DEF z
  <2> QED
    BY <1>4, <1>7, <2>1, <2>2 DEF z
<1>10. FormatPayloadData(payload) \in Seq(Byte)
       /\ Len(FormatPayloadData(payload)) = lp + LeastFilling(lp)
  <2>1. Zeros(LeastFilling(lp)) \in Seq(Byte) /\ Len(Zeros(LeastFilling(lp))) = LeastFilling(lp)
    BY <1>6, ZerosAreBytes
  <2> DEFINE z == Zeros(LeastFilling(lp))
  <2> HIDE DEF z
  <2>2. payload \o z \in Seq(Byte) /\ Len(payload \o z) = Len(payload) + Len(z)
    BY <2>1, JoinedBytes DEF z
  <2> QED
    BY <1>8, <2>1, <2>2 DEF z
<1>11. Formatted(payload, assoc, nonce, mac_len)
         = first \o FormatAssocData(assoc) \o FormatPayloadData(payload)
  BY DEF Formatted, first
<1> DEFINE mid == FormatAssocData(assoc)
           end == FormatPayloadData(payload)
<1> HIDE DEF mid, end, la, lp
<1>12. first \o mid \in Seq(Byte)
       /\ Len(first \o mid) = AES_BLOCK_SIZE + ((2 + la) + Filling(2 + la))
  <2>1. mid \in Seq(Byte) /\ Len(mid) = (2 + la) + Filling(2 + la)
    BY <1>9 DEF mid, la
  <2>2. first \o mid \in Seq(Byte) /\ Len(first \o mid) = Len(first) + Len(mid)
    BY <1>2, <2>1, JoinedBytes
  <2> QED
    BY <1>2, <2>1, <2>2
<1> DEFINE most == first \o mid
<1>13. most \in Seq(Byte) /\ Len(most) = AES_BLOCK_SIZE + ((2 + la) + Filling(2 + la))
  BY <1>12
<1>14. end \in Seq(Byte) /\ Len(end) = lp + LeastFilling(lp)
  BY <1>10 DEF end
<1> HIDE DEF most
<1>15. Len(most \o end) = (AES_BLOCK_SIZE + ((2 + la) + Filling(2 + la)))
                            + (lp + LeastFilling(lp))
  <2>1. Len(most \o end) = Len(most) + Len(end)
    BY <1>13, <1>14, JoinedBytes
  <2> QED
    BY <1>13, <1>14, <2>1
<1> QED
  BY <1>11, <1>15 DEF most, mid, end, la, lp

(* A length that is filled up is a number of blocks.                         *)
LEMMA FilledUp ==
    ASSUME NEW n \in Nat
    PROVE  /\ \E q \in Nat : n + Filling(n) = AES_BLOCK_SIZE * q
           /\ \E q \in Nat : n + LeastFilling(n) = AES_BLOCK_SIZE * q
<1> DEFINE b == AES_BLOCK_SIZE
           q == n \div b
           r == n % b
<1>1. b \in Nat \ {0}
  BY AesModesAssumption
<1>2. Filling(n) = b - r /\ LeastFilling(n) = IF r = 0 THEN 0 ELSE b - r
  BY FillingIs
<1> HIDE DEF b
<1>3. q \in Nat /\ r \in 0 .. b - 1 /\ n = b * q + r
  BY <1>1
<1> HIDE DEF q, r
<1>4. \A p \in Nat : b * (p + 1) = b * p + b /\ b * p \in Nat
  BY <1>1
<1>5. n + (b - r) = b * (q + 1) /\ (r = 0 => n + 0 = b * q)
  BY <1>1, <1>3, <1>4
<1>6. q + 1 \in Nat
  BY <1>3
<1> QED
  BY <1>2, <1>3, <1>5, <1>6 DEF b

(* What is formatted is whole blocks and, in all cases but one, no longer    *)
(* than the buffer; then it is a byte longer.                                *)
LEMMA FormattedFits ==
    ASSUME NEW nonce \in Seq(Byte), Len(nonce) <= AES_BLOCK_SIZE - 3,
           NEW payload \in Seq(Byte), NEW assoc \in Seq(Byte), NEW mac_len \in Nat
    PROVE  LET size == Len(Formatted(payload, assoc, nonce, mac_len))
               room == Len(payload) + Len(assoc) + 3 * AES_BLOCK_SIZE
           IN  /\ size % AES_BLOCK_SIZE = 0
               /\ \/ size <= room
                  \/ /\ size = room + 1
                     /\ (Len(assoc) + 2) % AES_BLOCK_SIZE = 0
                     /\ Len(payload) % AES_BLOCK_SIZE = 1
<1> DEFINE size == Len(Formatted(payload, assoc, nonce, mac_len))
           b == AES_BLOCK_SIZE
           la == Len(assoc)
           lp == Len(payload)
           fa == Filling(2 + la)
           fp == LeastFilling(lp)
           ra == (2 + la) % b
           rp == lp % b
<1>1. /\ b \in Nat \ {0} /\ la \in Nat /\ lp \in Nat /\ 2 + la \in Nat
      /\ 2 + la = la + 2 /\ Len(nonce) \in Nat
  BY AesModesAssumption
<1>2. size = b + ((2 + la) + fa) + (lp + fp)
  BY FormattedLength
<1>3. /\ ra \in 0 .. b - 1 /\ fa = b - ra
      /\ rp \in 0 .. b - 1 /\ fp = IF rp = 0 THEN 0 ELSE b - rp
  BY <1>1, FillingIs
<1>4. PICK q \in Nat : (2 + la) + fa = b * q
  BY <1>1, FilledUp
<1>5. PICK p \in Nat : lp + fp = b * p
  BY <1>1, FilledUp
<1>6. size % b = 0
  <2> HIDE DEF size, b, la, lp, fa, fp, ra, rp
  <2>1. b * (1 + q + p) = b + b * q + b * p
    BY <1>1
  <2>2. size = b * (1 + q + p) + 0
    <3>1. b * q \in Nat /\ b * p \in Nat
      BY <1>1
    <3> QED
      BY <1>1, <1>2, <1>4, <1>5, <2>1, <3>1
  <2>3. \A n \in Nat, c \in 0 .. b - 1 : (b * n + c) % b = c
    BY <1>1
  <2>4. 1 + q + p \in Nat /\ 0 \in 0 .. b - 1
    BY <1>1
  <2> QED
    BY <2>2, <2>3, <2>4
<1>7. ra = (la + 2) % b
  BY <1>1
<1>8. \/ size <= lp + la + 3 * b
      \/ size = (lp + la + 3 * b) + 1 /\ ra = 0 /\ rp = 1
  <2>1. 3 <= b
    BY <1>1
  <2> HIDE DEF size, b, la, lp, fa, fp, ra, rp
  <2>2. fa \in Int /\ fp \in Int
    BY <1>1, <1>3
  <2>3. size - (lp + la + 3 * b) = 2 - ra - b + fp
    BY <1>1, <1>2, <1>3, <2>2
  <2>4. size \in Int /\ (lp + la + 3 * b) \in Int
    BY <1>1, <1>2, <2>2
  <2>5. CASE rp = 0
    BY <1>1, <1>3, <2>1, <2>2, <2>3, <2>4, <2>5
  <2>6. CASE rp # 0
    <3>1. size - (lp + la + 3 * b) = 2 - ra - rp
      BY <1>1, <1>3, <2>2, <2>3, <2>6
    <3> QED
      BY <1>1, <1>3, <2>4, <2>6, <3>1
  <2> QED
    BY <2>5, <2>6
<1> QED
  BY <1>6, <1>7, <1>8

-----------------------------------------------------------------------------
(* AesModes: the counters of CCM *)

(* The first counter block ends with 0: what a payload is encrypted with is  *)
(* the next block, or the same one if there is no byte to count with.        *)
LEMMA PayloadCounterIs ==
    ASSUME NEW nonce \in Seq(Byte), NEW mac_len \in Nat, ValidCcm(nonce, mac_len)
    PROVE  /\ mac_len >= AES_BLOCK_SIZE - 1 =>
                 PayloadCounter(nonce, mac_len) = FirstCtrBlk(nonce)
           /\ mac_len < AES_BLOCK_SIZE - 1 =>
                 PayloadCounter(nonce, mac_len)
                   = IncrementIv(FirstCtrBlk(nonce), AES_BLOCK_SIZE)
<1> DEFINE b == AES_BLOCK_SIZE
           l == Len(nonce)
           iv == FirstCtrBlk(nonce)
           size == b - 1 - mac_len
<1>1. /\ b \in Nat \ {0} /\ l \in Nat /\ l <= b - 3 /\ mac_len <= b
      /\ BYTES \in Nat /\ BYTES > 1
  BY AesModesAssumption, CounterAssumption DEF ValidCcm
<1>2. iv \in [1 .. b -> Byte]
  <2>1. <<>> \in Seq(Byte)
    OBVIOUS
  <2> QED
    BY <2>1, CcmBlocks DEF Block
<1>3. iv[b] = 0
  <2> DEFINE first == <<((b - 2 - l) % 8) % BYTES>>
             rest == Zeros(b - 1 - l)
             front == first \o nonce
  <2>1. first \in Seq(Byte) /\ Len(first) = 1
    <3>1. (b - 2 - l) % 8 \in Int
      BY <1>1
    <3>2. \A n \in Int : n % BYTES \in Byte
      BY <1>1 DEF Byte
    <3> QED
      BY <3>1, <3>2
  <2>2. b - 1 - l \in Nat /\ b - 1 - l \in 1 .. (b - 1 - l)
    BY <1>1
  <2>3. rest \in Seq(Byte) /\ Len(rest) = b - 1 - l /\ rest[b - 1 - l] = 0
    BY <2>2, ZerosAreBytes DEF Zeros
  <2>4. iv = front \o rest
    BY DEF FirstCtrBlk
  <2> HIDE DEF first, rest
  <2>5. front \in Seq(Byte) /\ Len(front) = 1 + l
    <3>1. front \in Seq(Byte) /\ Len(front) = Len(first) + Len(nonce)
      BY <2>1, JoinedBytes
    <3> QED
      BY <2>1, <3>1
  <2> HIDE DEF front, iv, l
  <2>6. \A k \in 1 .. Len(rest) : (front \o rest)[Len(front) + k] = rest[k]
    BY <2>3, <2>5, Joined
  <2>7. (front \o rest)[(1 + l) + (b - 1 - l)] = rest[b - 1 - l]
    BY <2>2, <2>3, <2>5, <2>6
  <2>8. (1 + l) + (b - 1 - l) = b
    BY <1>1
  <2> QED
    BY <2>3, <2>4, <2>7, <2>8
<1>4. PayloadCounter(nonce, mac_len) = IncrementIv(iv, size)
  BY DEF PayloadCounter
<1> HIDE DEF iv, b
<1>5. iv = [k \in 1 .. b |-> iv[k]] /\ b \in 1 .. b /\ 0 # BYTES - 1
  BY <1>1, <1>2
\* Whatever the size, only the last byte can change.
<1>6. \A n \in Int : IncrementIv(iv, n)
        = [k \in 1 .. b |-> IF k = b /\ b > b - n THEN (iv[k] + 1) % BYTES ELSE iv[k]]
  <2> TAKE n \in Int
  <2>1. \A k \in 1 .. b : (\A m \in k + 1 .. b : iv[m] = BYTES - 1) <=> k = b
    <3> TAKE k \in 1 .. b
    <3>1. k # b => b \in k + 1 .. b
      BY <1>1
    <3>2. k = b => k + 1 .. b = {}
      BY <1>1
    <3> QED
      BY <1>3, <1>5, <3>1, <3>2
  <2> QED
    BY <2>1 DEF IncrementIv, b
<1>7. size \in Int /\ b \in Int
  BY <1>1
<1>8. ASSUME mac_len >= b - 1
      PROVE  IncrementIv(iv, size) = iv
  <2>1. ~ (b > b - size)
    BY <1>1, <1>8
  <2> HIDE DEF size
  <2> QED
    BY <1>5, <1>6, <1>7, <2>1
<1>9. ASSUME mac_len < b - 1
      PROVE  IncrementIv(iv, size) = IncrementIv(iv, b)
  <2>1. b > b - size /\ b > b - b
    BY <1>1, <1>9
  <2> HIDE DEF size
  <2> QED
    BY <1>6, <1>7, <2>1
<1> QED
  BY <1>4, <1>8, <1>9 DEF b, iv

(* A counter comes back only after as many increments as there are blocks.   *)
LEMMA CountersDiffer ==
    ASSUME NEW p \in Nat \ {0}, NEW x \in Nat, x < p, NEW n \in Nat, n + 1 < p
    PROVE  (NextOf(x, p) + n) % p # x
<1>1. \A q \in Nat, c \in 0 .. p - 1 : (p * q + c) % p = c
  OBVIOUS
<1>2. p * 0 = 0 /\ p * 1 = p
  OBVIOUS
<1>3. CASE x + 1 = p
  <2>1. NextOf(x, p) = 0 /\ n \in 0 .. p - 1 /\ p * 0 + n = 0 + n
    BY <1>2, <1>3 DEF NextOf
  <2>2. (0 + n) % p = n
    BY <1>1, <2>1
  <2> QED
    BY <1>3, <2>1, <2>2
<1>4. CASE x + 1 # p /\ x + 1 + n < p
  <2>1. NextOf(x, p) = x + 1
    BY <1>4 DEF NextOf
  <2>2. x + 1 + n \in 0 .. p - 1 /\ p * 0 + (x + 1 + n) = x + 1 + n
    BY <1>2, <1>4
  <2>3. (x + 1 + n) % p = x + 1 + n
    BY <1>1, <2>2
  <2> QED
    BY <2>1, <2>3
<1>5. CASE x + 1 # p /\ x + 1 + n >= p
  <2>1. NextOf(x, p) = x + 1
    BY <1>5 DEF NextOf
  <2>2. x + 1 + n - p \in 0 .. p - 1 /\ p * 1 + (x + 1 + n - p) = x + 1 + n
    BY <1>2, <1>5
  <2>3. (x + 1 + n) % p = x + 1 + n - p
    BY <1>1, <2>2
  <2> QED
    BY <2>1, <2>3
<1> QED
  BY <1>3, <1>4, <1>5

(* The counter of the MAC is used for the payload just if it is where that   *)
(* begins.                                                                   *)
LEMMA CcmCounters ==
    ASSUME NEW nonce \in Seq(Byte), NEW mac_len \in Nat, ValidCcm(nonce, mac_len),
           NEW payload \in Payloads, payload # <<>>
    PROVE  LET used == {CounterAfter(PayloadCounter(nonce, mac_len), n) :
                           n \in 0 .. (Len(payload) - 1) \div AES_BLOCK_SIZE}
           IN  FirstCtrBlk(nonce) \in used <=> mac_len >= AES_BLOCK_SIZE - 1
<1> DEFINE b == AES_BLOCK_SIZE
           first == FirstCtrBlk(nonce)
           iv == PayloadCounter(nonce, mac_len)
           top == (Len(payload) - 1) \div b
           p == NumbersOf[b]
<1>1. /\ b \in Nat \ {0} /\ payload \in Seq(Byte) /\ Len(payload) \in Nat \ {0}
      /\ Len(payload) < p /\ p \in Nat \ {0}
  <2>1. b \in Nat \ {0} /\ payload \in Seq(Byte)
    BY AesModesAssumption
  <2>2. Len(payload) \in Nat /\ Len(payload) # 0
    BY <2>1, EmptySeq
  <2>3. p \in Nat \ {0}
    BY <2>1, NumbersOfBytes
  <2> QED
    BY <2>1, <2>2, <2>3, CounterAssumption
<1>2. first \in Block /\ iv \in Block
  BY <1>1, CcmBlocks
<1>3. top \in Nat /\ top + 1 < p
  <2> DEFINE n == Len(payload) - 1
  <2>1. n \in Nat /\ n + 1 < p
    BY <1>1
  <2> HIDE DEF n
  <2>2. n \div b \in Nat /\ n \div b <= n
    <3> DEFINE q == n \div b
    <3>1. q \in Nat /\ n = b * q + (n % b) /\ n % b \in Nat
      BY <1>1, <2>1
    <3>2. PICK d \in Nat : b = d + 1
      BY <1>1, b - 1 \in Nat, b = (b - 1) + 1
    <3> HIDE DEF q
    <3>3. b * q = d * q + q /\ d * q \in Nat
      BY <3>1, <3>2
    <3>4. q <= n
      BY <3>1, <3>3
    <3> QED
      BY <3>1, <3>4 DEF q
  <2>3. top = n \div b
    BY DEF n
  <2> HIDE DEF top, p, b
  <2> QED
    BY <1>1, <2>1, <2>2, <2>3
<1>4. ASSUME mac_len >= b - 1
      PROVE  \E n \in 0 .. top : first = CounterAfter(iv, n)
  <2>1. iv = first
    BY <1>4, PayloadCounterIs
  <2>2. CounterAfter(iv, 0) = iv
    BY <1>2, CountersFollow
  <2>3. 0 \in 0 .. top
    BY <1>3
  <2> HIDE DEF top, iv, first
  <2> QED
    BY <2>1, <2>2, <2>3
<1>5. ASSUME mac_len < b - 1, NEW n \in 0 .. top
      PROVE  first # CounterAfter(iv, n)
  <2>1. iv = IncrementIv(first, b)
    BY <1>5, PayloadCounterIs
  <2>2. Number(first) \in Nat /\ Number(first) < p /\ Number(iv) = NextOf(Number(first), p)
    BY <1>2, <2>1, IncrementCounts
  <2>3. n \in Nat /\ n + 1 < p
    <3> HIDE DEF top, p
    <3> QED
      BY <1>1, <1>3
  <2>4. Number(CounterAfter(iv, n)) = (Number(iv) + n) % p
    BY <1>2, <2>3, CountersCountUp
  <2> HIDE DEF p
  <2>5. (NextOf(Number(first), p) + n) % p # Number(first)
    BY <1>1, <2>2, <2>3, CountersDiffer
  <2> QED
    BY <2>2, <2>4, <2>5
<1>6. mac_len >= b - 1 \/ mac_len < b - 1
  BY <1>1
<1> HIDE DEF top, first, iv
<1>7. first \in {CounterAfter(iv, n) : n \in 0 .. top} <=> mac_len >= b - 1
  BY <1>4, <1>5, <1>6
<1> QED
  BY <1>7 DEF top, first, iv

-----------------------------------------------------------------------------

PayloadIsGiven == call.mode = "ccm" => call.in \in Payloads

LEMMA PayloadStaysGiven ==
    ASSUME PayloadIsGiven, [ModesNext]_modesVars
    PROVE  PayloadIsGiven'
<1> USE DEF PayloadIsGiven
<1>1. CASE CallCbc \/ CallCtr
  BY <1>1 DEF CallCbc, CallCtr, Call
<1>2. CASE EncryptCcm
  BY <1>2 DEF EncryptCcm
<1>3. CASE Return
  BY <1>3 DEF Return, NoCall
<1>4. CASE call' = call
  BY <1>4
<1>5. CASE CbcEncryptBlock \/ CbcEncrypted \/ CbcDecryptBlock \/ CbcDecrypted
  BY <1>4, <1>5 DEF CbcEncryptBlock, CbcEncrypted, CbcDecryptBlock, CbcDecrypted
<1>6. CASE CtrBlock \/ CtrLastBlock \/ Disturb \/ DecryptCcm
  BY <1>4, <1>6 DEF CtrBlock, CtrLastBlock, Disturb, DecryptCcm
<1>7. CASE RefuseCbc \/ RefuseCcm \/ RefuseDecryptCcm \/ UNCHANGED modesVars
  BY <1>4, <1>7 DEF RefuseCbc, RefuseCcm, RefuseDecryptCcm, modesVars
<1> QED
  BY <1>1, <1>2, <1>3, <1>5, <1>6, <1>7 DEF ModesNext

LEMMA InvBlocksAreSound ==
    ASSUME ModesInv, PayloadIsGiven
    PROVE  BlocksAreSound
<1>1. CountersCount
  <2> SUFFICES ASSUME InCtr
               PROVE  Number(iv_buf) = (Number(call.iv) + (idx \div AES_BLOCK_SIZE))
                                          % NumbersOf[AES_BLOCK_SIZE]
    BY DEF CountersCount
  <2>1. /\ call.mode = "ctr" /\ call.iv \in Block /\ idx \in Nat /\ StartsBlock(idx)
        /\ iv_buf = CounterAfter(call.iv, idx \div AES_BLOCK_SIZE)
    BY DEF InCtr, ModesInv, ModesTypes, CallTypes, CtrInv
  <2>2. idx \div AES_BLOCK_SIZE \in Nat
    BY <2>1, BlockStarts
  <2> QED
    BY <2>1, <2>2, CountersCountUp
<1>2. ASSUME call.mode = "ccm"
      PROVE  /\ call.in \in Payloads /\ call.in \in Seq(Byte) /\ call.assoc \in Seq(Byte)
             /\ call.nonce \in Seq(Byte) /\ call.mac_len \in Nat
             /\ ValidCcm(call.nonce, call.mac_len)
             /\ Len(call.nonce) <= AES_BLOCK_SIZE - 3
  <2>1. /\ call.in \in Payloads /\ call.in \in Seq(Byte) /\ call.assoc \in Seq(Byte)
        /\ call.nonce \in Seq(Byte) /\ call.mac_len \in Nat
        /\ ValidCcm(call.nonce, call.mac_len)
    BY <1>2 DEF ModesInv, CallTypes, PayloadIsGiven
  <2>2. Len(call.nonce) \in MinNonce .. MaxNonce
    BY <2>1 DEF ValidCcm
  <2>3. /\ MinNonce \in Nat /\ MaxNonce \in 0 .. AES_BLOCK_SIZE - 3
        /\ AES_BLOCK_SIZE \in Nat
    BY AesModesAssumption
  <2>4. Len(call.nonce) <= AES_BLOCK_SIZE - 3
    BY <2>2, <2>3
  <2> QED
    BY <2>1, <2>4
<1>3. CountersAreFresh
  <2> DEFINE used == {CounterAfter(PayloadCounter(call.nonce, call.mac_len), n) :
                         n \in 0 .. (Len(call.in) - 1) \div AES_BLOCK_SIZE}
  <2> SUFFICES ASSUME call.mode = "ccm", call.in # <<>>, call.mac_len < AES_BLOCK_SIZE - 1
               PROVE  FirstCtrBlk(call.nonce) \notin used
    BY DEF CountersAreFresh
  <2>1. FirstCtrBlk(call.nonce) \in used <=> call.mac_len >= AES_BLOCK_SIZE - 1
    BY <1>2, CcmCounters
  <2> HIDE DEF used
  <2>2. call.mac_len \in Nat /\ AES_BLOCK_SIZE \in Nat
    BY <1>2, AesModesAssumption
  <2> QED
    BY <2>1, <2>2
<1>4. FormatFits
  <2> SUFFICES ASSUME call.mode = "ccm"
               PROVE  /\ FormatSize % AES_BLOCK_SIZE = 0
                      /\ ~(AssocAddsBlock /\ OneByteOver) => FormatSize <= FormatRoom
    BY DEF FormatFits
  <2>1. /\ FormatSize % AES_BLOCK_SIZE = 0
        /\ \/ FormatSize <= FormatRoom
           \/ FormatSize = FormatRoom + 1 /\ AssocAddsBlock /\ OneByteOver
    BY <1>2, FormattedFits DEF FormatSize, FormatRoom, AssocAddsBlock, OneByteOver
  <2> QED
    BY <2>1
<1> QED
  BY <1>1, <1>3, <1>4 DEF BlocksAreSound

(* Theorem: for blocks and bytes of any size and messages of any length: the *)
(* counters of CTR count; no block of a CCM payload has the counter of the   *)
(* MAC, unless the MAC is nearly a block; what the MAC is computed of is     *)
(* whole blocks inside its buffer, unless associated data that needs no      *)
(* padding meets a payload of one byte more than whole blocks:               *)
(* AesModes!BlocksAreSound.                                                  *)
THEOREM BlocksStaySound == ModesSpec => []BlocksAreSound
<1>1. ModesInit => PayloadIsGiven
  BY DEF ModesInit, NoCall, PayloadIsGiven
<1>2. PayloadIsGiven /\ [ModesNext]_modesVars => PayloadIsGiven'
  BY PayloadStaysGiven
<1>3. ModesInv /\ PayloadIsGiven => BlocksAreSound
  BY InvBlocksAreSound
<1> QED
  BY <1>1, <1>2, <1>3, ModesInvInit, ModesInvStep, PTL DEF ModesSpec

-----------------------------------------------------------------------------
(* The functions side by side: the invariants *)

(* Theorem: in the specification the runs check decryption undoes            *)
(* encryption, for every key and block of the cipher and for every message   *)
(* of the modes: NetworkFunctions!AesIsUndone.                               *)
THEOREM AesStaysUndone == FunctionsSpec => []AesIsUndone
<1>1. RoundsAreUndone /\ ModesAreUndone => AesIsUndone
  BY DEF AesIsUndone
<1> QED
  BY <1>1, EachKeepsToItself, RoundsStayUndone, ModesStayUndone, PTL

(* Theorem: the specification the runs check has all the invariants that are *)
(* proved of the functions, whichever is compiled in; the flows of the       *)
(* classifier differ in their hashes, and the clients of the NAT function do *)
(* not talk to each other.                                                   *)
THEOREM FunctionsStaySound ==
    ASSUME FlowsAreApart, HashesAreBuckets, ServersAreNoClients
    PROVE  FunctionsSpec =>
             /\ [](/\ FunctionsTypeOK
                   /\ FlowsGetTheirTenant /\ FlowsAreToldApart
                   /\ RulesDecide /\ FilterIsExact /\ MatcherIsSound
                   /\ AesIsUndone /\ BlocksAreSound /\ BatchesAreAnswered)
             /\ TranslationIsStable
<1>1. FunctionsSpec => []FunctionsTypeOK
  BY FunctionsTypeCorrect
<1>2. ClassifierSpec => []FlowsGetTheirTenant
  BY FlowsReachTheirTenants
<1>3. NatSpec => []FlowsAreToldApart
  BY FlowsStayApart
<1>4. NatSpec => TranslationIsStable
  BY TranslationsStayStable
<1> QED
  BY <1>1, <1>2, <1>3, <1>4, EachKeepsToItself, RulesAlwaysDecide, FilterStaysExact,
     MatcherStaysSound, AesStaysUndone, BlocksStaySound, BatchesStayAnswered, PTL

=============================================================================
