----------------------------- MODULE ReasmProofs -----------------------------
(* Proofs about Reasm for any number of tenants, flows, buckets, segments    *)
(* and packet buffers, any length of the plan and of a swap, and any hash.   *)
EXTENDS Reasm, FiniteSetTheorems, FunctionTheorems, WellFoundedInduction, TLAPS

-----------------------------------------------------------------------------
(* The inductive invariant *)

DataEntries ==
    [next_expected_seq : Nat, next_generated_seq : Nat,
     planned_seqs : [Plan -> Nat],
     buffered_segs : [Segs -> [seq : Nat, pktbuf_key : Nat]]]

History == [Tenants -> [Entries -> SUBSET Nat]]

ReasmTypes ==
    /\ TypeOK
    /\ DOMAIN pend = Tenants
    /\ issued \in History
    /\ lost \in History

\* The entry belongs to one of the keys counted by bucket_cnt.
Used(t, e) == e[2] < Len(flowkey_map[t][e[1]])

\* What is planned and what is out are the numbers generated so far.
PlanIsSound(entry, out) ==
    LET planned == {entry.planned_seqs[i] : i \in Plan}
    IN  /\ planned \cup out = 1 .. entry.next_generated_seq - 1
        /\ planned \cap out = {}
        /\ \A i, j \in Plan :
             entry.planned_seqs[i] = entry.planned_seqs[j] => i = j

\* A flow that has kept these numbers has advanced over the first run of them.
FlowIsSound(entry, kept) ==
    /\ entry.next_expected_seq > 0
    /\ 1 .. entry.next_expected_seq - 1 \subseteq kept
    /\ entry.next_expected_seq \notin kept
    /\ BufferedSeqs(entry) = {s \in kept : s > entry.next_expected_seq}

\* An entry no key belongs to is as mtnf_reasm_init zeroed it.
EntriesAreSound ==
    \A t \in Tenants : \A e \in Entries :
        IF Used(t, e)
        THEN /\ PlanIsSound(dataentry_map[t][e], issued[t][e])
             /\ lost[t][e] \subseteq issued[t][e]
             /\ FlowIsSound(dataentry_map[t][e], Kept(t, e))
        ELSE /\ dataentry_map[t][e] = Zeroed
             /\ issued[t][e] = {} /\ lost[t][e] = {}

\* What a handler has found out about its own tenant stays true until it saves.
PendingIsSound ==
    \A t \in Tenants : pend[t].busy =>
        LET p == pend[t]
            entry == dataentry_map[t][p.entry]
        IN  /\ Used(t, p.entry)
            /\ p.seq \in issued[t][p.entry] \ lost[t][p.entry]
            /\ p.seq # entry.next_expected_seq
            /\ p.seg_index < BUFFERED_SEGS_SIZE
                 => entry.buffered_segs[p.seg_index].seq = 0

\* The segment i of the entry e of t has packet buffer k.
Holds(t, e, i, k) ==
    /\ dataentry_map[t][e].buffered_segs[i].seq # 0
    /\ dataentry_map[t][e].buffered_segs[i].pktbuf_key = k

MarkedAreHeld ==
    \A k \in Pktbufs : flag_pkt_buf[k] =>
        \E t \in Tenants, e \in Entries, i \in Segs : Holds(t, e, i, k)

HeldAreMarked ==
    \A k \in Pktbufs, t \in Tenants, e \in Entries, i \in Segs :
        Holds(t, e, i, k) => flag_pkt_buf[k]

HeldByOne ==
    \A k \in Pktbufs, t, u \in Tenants, d, e \in Entries, i, j \in Segs :
        Holds(t, d, i, k) /\ Holds(u, e, j, k) => t = u /\ d = e /\ i = j

\* Without a race, what the one handler that is about to save has found out
\* about the packet buffers stays true, too.
FoundIsFree ==
    /\ \A t, u \in Tenants : pend[t].busy /\ pend[u].busy => t = u
    /\ \A t \in Tenants :
         pend[t].busy /\ pend[t].pktbuf_index \in Pktbufs
           => ~flag_pkt_buf[pend[t].pktbuf_index]

PktbufsAreSound ==
    /\ MarkedAreHeld
    /\ ~raced => HeldAreMarked /\ HeldByOne /\ FoundIsFree

ReasmInvariant ==
    /\ ReasmTypes
    /\ FlowsHaveOneEntry
    /\ EntriesAreSound
    /\ PendingIsSound
    /\ PktbufsAreSound

-----------------------------------------------------------------------------
(* Searches *)

(* A non-empty set of numbers has a least one.                               *)
LEMMA MinIsLeast ==
    ASSUME NEW T, T \subseteq Nat, T # {}
    PROVE  Min(T) \in T /\ \A y \in T : Min(T) <= y
<1> DEFINE R == OpToRel(<, Nat)
<1>1. IsWellFoundedOn(R, Nat)
  BY NatLessThanWellFounded
<1> HIDE DEF R
<1>2. PICK x \in T : \A y \in T : ~ (<<y, x>> \in R)
  BY <1>1, WFMin
<1>3. ASSUME NEW y \in T
      PROVE  x <= y
  <2>1. y < x => <<y, x>> \in R
    BY DEF R, OpToRel
  <2> QED
    BY <1>2, <2>1
<1> QED
  BY <1>3 DEF Min

(* The place for a segment is an empty one, or none.                         *)
LEMMA FreeSegIsFree ==
    ASSUME NEW entry \in DataEntries
    PROVE  /\ FreeSeg(entry) \in 0 .. BUFFERED_SEGS_SIZE
           /\ FreeSeg(entry) < BUFFERED_SEGS_SIZE
                => entry.buffered_segs[FreeSeg(entry)].seq = 0
<1> DEFINE T == {i \in Segs : entry.buffered_segs[i].seq = 0}
                  \cup {BUFFERED_SEGS_SIZE}
<1>1. T \subseteq 0 .. BUFFERED_SEGS_SIZE /\ T # {}
  BY ReasmAssumption DEF Segs
<1>2. FreeSeg(entry) \in T
  BY <1>1, MinIsLeast DEF FreeSeg
<1> QED
  BY <1>1, <1>2

(* The packet buffer found is one that is not taken, or none.                *)
LEMMA FreePktbufIsFree ==
    /\ FreePktbuf \in Pktbufs \cup {-1}
    /\ FreePktbuf \in Pktbufs => ~flag_pkt_buf[FreePktbuf]
<1> DEFINE free == {k \in Pktbufs : ~flag_pkt_buf[k]}
<1>1. free \subseteq Nat
  BY DEF Pktbufs
<1>2. CASE free = {}
  BY <1>2, ReasmAssumption DEF FreePktbuf, Pktbufs
<1>3. CASE free # {}
  <2>1. Min(free) \in free
    BY <1>1, <1>3, MinIsLeast
  <2>2. FreePktbuf = Min(free)
    BY <1>3 DEF FreePktbuf
  <2> QED
    BY <2>1, <2>2
<1> QED
  BY <1>2, <1>3

(* The segments cannot hold so many numbers that the pull loop would not     *)
(* stop: there is a first missing number, and all before it are buffered.    *)
LEMMA FirstMissingIsFirst ==
    ASSUME NEW entry \in DataEntries
    PROVE  /\ FirstMissing(entry) \in Nat
           /\ FirstMissing(entry) > entry.next_expected_seq
           /\ FirstMissing(entry) \notin BufferedSeqs(entry)
           /\ entry.next_expected_seq + 1 .. FirstMissing(entry) - 1
                \subseteq BufferedSeqs(entry)
<1> DEFINE next == entry.next_expected_seq + 1
           window == next .. next + BUFFERED_SEGS_SIZE
           seqs == BufferedSeqs(entry)
           first == FirstMissing(entry)
           seq == [i \in Segs |-> entry.buffered_segs[i].seq]
<1>1. next \in Nat /\ BUFFERED_SEGS_SIZE \in Nat
  BY ReasmAssumption DEF DataEntries
<1>2. IsFiniteSet(seqs) /\ Cardinality(seqs) <= BUFFERED_SEGS_SIZE
  <2> DEFINE image == {entry.buffered_segs[i].seq : i \in Segs}
  <2>1. seq \in Surjection(Segs, image)
    BY DEF Surjection
  <2>2. IsFiniteSet(Segs) /\ Cardinality(Segs) = BUFFERED_SEGS_SIZE
    BY ReasmAssumption, FS_Interval DEF Segs
  <2>3. IsFiniteSet(image) /\ Cardinality(image) <= BUFFERED_SEGS_SIZE
    BY <2>1, <2>2, FS_Surjection
  <2>4. seqs = image \ {0}
    BY DEF BufferedSeqs
  <2> HIDE DEF image, seqs
  <2>5. IsFiniteSet(seqs) /\ Cardinality(seqs) <= Cardinality(image)
    BY <2>3, <2>4, FS_Subset
  <2>6. Cardinality(seqs) \in Nat /\ Cardinality(image) \in Nat
    BY <2>3, <2>5, FS_CardinalityType
  <2> QED
    BY <1>1, <2>3, <2>5, <2>6
<1> HIDE DEF next
<1>3. IsFiniteSet(window) /\ Cardinality(window) = BUFFERED_SEGS_SIZE + 1
  BY <1>1, FS_Interval
<1>4. window \ seqs # {}
  <2> SUFFICES ASSUME window \subseteq seqs
               PROVE  FALSE
    OBVIOUS
  <2>1. Cardinality(window) <= Cardinality(seqs)
    BY <1>2, FS_Subset
  <2>2. Cardinality(seqs) \in Nat
    BY <1>2, FS_CardinalityType
  <2> QED
    BY <1>1, <1>2, <1>3, <2>1, <2>2
<1>5. first = Min(window \ seqs)
  BY DEF FirstMissing, next
<1>6. window \ seqs \subseteq Nat
  BY <1>1
<1>7. first \in window \ seqs /\ \A y \in window \ seqs : first <= y
  BY <1>4, <1>5, <1>6, MinIsLeast
<1> HIDE DEF seqs, first
<1>8. next .. first - 1 \subseteq seqs
  <2> SUFFICES ASSUME NEW y \in next .. first - 1, y \notin seqs
               PROVE  FALSE
    OBVIOUS
  <2>1. y \in window
    BY <1>1, <1>7
  <2> QED
    BY <1>1, <1>7, <2>1
<1>9. first \in Nat /\ first >= next
  BY <1>1, <1>7
<1>10. entry.next_expected_seq \in Nat /\ next = entry.next_expected_seq + 1
  BY DEF DataEntries, next
<1>11. first > entry.next_expected_seq
  BY <1>9, <1>10
<1> QED
  BY <1>7, <1>8, <1>9, <1>10, <1>11 DEF first, seqs

-----------------------------------------------------------------------------
(* Plans *)

(* Wherever two numbers change places, the plan loses its first number,      *)
(* which goes out, and gains the next one generated.                         *)
LEMMA ReplannedIsSound ==
    ASSUME NEW entry \in DataEntries, NEW out, PlanIsSound(entry, out),
           NEW diff \in 0 .. MaxSwap, NEW i \in 0 .. PLANNED_SEQ_SIZE - 1 - diff
    PROVE  /\ Replanned(entry, i, diff) \in DataEntries
           /\ Replanned(entry, i, diff).next_expected_seq
                = entry.next_expected_seq
           /\ Replanned(entry, i, diff).buffered_segs = entry.buffered_segs
           /\ PlanIsSound(Replanned(entry, i, diff),
                          out \cup {entry.planned_seqs[0]})
<1> DEFINE new == Replanned(entry, i, diff)
           plan == entry.planned_seqs
           shift == Shifted(entry)
           swap == Swapped(shift, i, diff)
           last == entry.next_generated_seq
           size == PLANNED_SEQ_SIZE
<1>1. /\ Plan = 0 .. size - 1 /\ size \in Nat \ {0}
      /\ i \in Plan /\ i + diff \in Plan /\ 0 \in Plan
  BY ReasmAssumption DEF Plan
<1>2. /\ plan \in [Plan -> Nat] /\ last \in Nat
      /\ entry.next_expected_seq \in Nat
      /\ entry.buffered_segs \in [Segs -> [seq : Nat, pktbuf_key : Nat]]
  BY DEF DataEntries
<1>3. /\ {plan[j] : j \in Plan} \cup out = 1 .. last - 1
      /\ {plan[j] : j \in Plan} \cap out = {}
      /\ \A j, k \in Plan : plan[j] = plan[k] => j = k
  BY DEF PlanIsSound
<1>4. /\ shift \in [Plan -> Nat]
      /\ \A j \in Plan : shift[j] = IF j < size - 1 THEN plan[j + 1] ELSE last
  <2>1. \A j \in Plan : j < size - 1 => j + 1 \in Plan
    BY <1>1
  <2> QED
    BY <1>2, <2>1 DEF Shifted
<1>5. new = [next_expected_seq |-> entry.next_expected_seq,
             next_generated_seq |-> last + 1, planned_seqs |-> swap,
             buffered_segs |-> entry.buffered_segs]
  <2>1. new = [entry EXCEPT !.planned_seqs = swap,
                            !.next_generated_seq = last + 1]
    BY DEF Replanned
  <2> HIDE DEF new, swap, last
  <2> QED
    BY <2>1 DEF DataEntries
<1> HIDE DEF shift, size
<1>6. /\ swap \in [Plan -> Nat]
      /\ \A j \in Plan : swap[j] = IF j = i + diff THEN shift[i]
                                   ELSE IF j = i THEN shift[i + diff]
                                   ELSE shift[j]
  BY <1>1, <1>4 DEF Swapped
<1> HIDE DEF new, swap, plan, last
<1>7. new \in DataEntries
  BY <1>2, <1>5, <1>6 DEF DataEntries
<1>8. \A j, k \in Plan : shift[j] = shift[k] => j = k
  <2> SUFFICES ASSUME NEW j \in Plan, NEW k \in Plan, shift[j] = shift[k]
               PROVE  j = k
    OBVIOUS
  <2>1. \A l \in Plan : plan[l] < last
    BY <1>2, <1>3
  <2>2. CASE j < size - 1 /\ k < size - 1
    <3>1. j + 1 \in Plan /\ k + 1 \in Plan /\ plan[j + 1] = plan[k + 1]
      BY <1>1, <1>4, <2>2
    <3>2. j + 1 = k + 1
      BY <1>3, <3>1
    <3> QED
      BY <1>1, <3>2
  <2>3. CASE ~(j < size - 1) /\ ~(k < size - 1)
    BY <1>1, <2>3
  <2>4. CASE j < size - 1 /\ ~(k < size - 1)
    <3>1. j + 1 \in Plan /\ plan[j + 1] = last
      BY <1>1, <1>4, <2>4
    <3> QED
      BY <1>2, <2>1, <3>1
  <2>5. CASE ~(j < size - 1) /\ k < size - 1
    <3>1. k + 1 \in Plan /\ plan[k + 1] = last
      BY <1>1, <1>4, <2>5
    <3> QED
      BY <1>2, <2>1, <3>1
  <2> QED
    BY <2>2, <2>3, <2>4, <2>5
<1>9. \A j, k \in Plan : swap[j] = swap[k] => j = k
  <2> DEFINE from(j) == IF j = i + diff THEN i
                        ELSE IF j = i THEN i + diff ELSE j
  <2>1. \A j \in Plan : from(j) \in Plan /\ swap[j] = shift[from(j)]
    BY <1>1, <1>6
  <2>2. \A j, k \in Plan : from(j) = from(k) => j = k
    BY <1>1
  <2> HIDE DEF from
  <2> QED
    BY <1>8, <2>1, <2>2
<1>10. {swap[j] : j \in Plan} = {shift[j] : j \in Plan}
  <2>1. ASSUME NEW j \in Plan
        PROVE  \E k \in Plan : swap[k] = shift[j]
    <3>1. CASE j = i
      BY <1>1, <1>6, <3>1
    <3>2. CASE j = i + diff
      <4>1. CASE i = i + diff
        BY <1>1, <1>6, <3>2, <4>1
      <4>2. CASE i # i + diff
        BY <1>1, <1>6, <3>2, <4>2
      <4> QED
        BY <4>1, <4>2
    <3>3. CASE j # i /\ j # i + diff
      BY <1>1, <1>6, <3>3
    <3> QED
      BY <3>1, <3>2, <3>3
  <2>2. \A j \in Plan : \E k \in Plan : swap[j] = shift[k]
    BY <1>1, <1>6
  <2> QED
    BY <2>1, <2>2
<1>11. {shift[j] : j \in Plan}
         = ({plan[j] : j \in Plan} \ {plan[0]}) \cup {last}
  <2>1. ASSUME NEW j \in Plan
        PROVE  shift[j] \in ({plan[k] : k \in Plan} \ {plan[0]}) \cup {last}
    <3>1. CASE j < size - 1
      <4>1. j + 1 \in Plan /\ shift[j] = plan[j + 1] /\ j + 1 # 0
        BY <1>1, <1>4, <3>1
      <4> QED
        BY <1>1, <1>3, <4>1
    <3>2. CASE ~(j < size - 1)
      BY <1>4, <3>2
    <3> QED
      BY <3>1, <3>2
  <2>2. ASSUME NEW j \in Plan, plan[j] # plan[0]
        PROVE  \E k \in Plan : shift[k] = plan[j]
    <3>1. j # 0
      BY <2>2
    <3>2. j - 1 \in Plan /\ j - 1 < size - 1 /\ (j - 1) + 1 = j
      BY <1>1, <3>1
    <3> QED
      BY <1>4, <3>2
  <2>3. size - 1 \in Plan /\ shift[size - 1] = last
    BY <1>1, <1>4
  <2> QED
    BY <2>1, <2>2, <2>3
<1> DEFINE planned == {plan[j] : j \in Plan}
           planned1 == {swap[j] : j \in Plan}
           first == plan[0]
<1>12. planned1 = (planned \ {first}) \cup {last}
  BY <1>10, <1>11
<1>13. first \in planned /\ planned \cup out = 1 .. last - 1
       /\ planned \cap out = {} /\ last > 0
  <2>1. first \in planned
    BY <1>1
  <2>2. first \in 1 .. last - 1
    BY <1>3, <2>1
  <2> QED
    BY <1>2, <1>3, <2>1, <2>2
<1>14. /\ new.next_generated_seq = last + 1 /\ new.planned_seqs = swap
       /\ new.next_expected_seq = entry.next_expected_seq
       /\ new.buffered_segs = entry.buffered_segs
  BY <1>5
<1>15. PlanIsSound(new, out \cup {first})
  <2> HIDE DEF planned, planned1, first
  <2>1. planned1 \cup (out \cup {first}) = 1 .. (last + 1) - 1
    BY <1>2, <1>12, <1>13
  <2>2. planned1 \cap (out \cup {first}) = {}
    BY <1>2, <1>12, <1>13
  <2> QED
    BY <1>9, <1>14, <2>1, <2>2 DEF PlanIsSound, planned1
<1> QED
  BY <1>7, <1>14, <1>15 DEF new, plan

(* The pull loop leaves alone all but the expected number and the segments.  *)
LEMMA AdvancedKeepsPlan ==
    ASSUME NEW entry \in DataEntries
    PROVE  /\ Advanced(entry) \in DataEntries
           /\ Advanced(entry).planned_seqs = entry.planned_seqs
           /\ Advanced(entry).next_generated_seq = entry.next_generated_seq
           /\ Advanced(entry).next_expected_seq = FirstMissing(entry)
           /\ \A i \in Segs :
                /\ Advanced(entry).buffered_segs[i].pktbuf_key
                     = entry.buffered_segs[i].pktbuf_key
                /\ Advanced(entry).buffered_segs[i].seq
                     = IF i \in Pulled(entry) THEN 0
                                             ELSE entry.buffered_segs[i].seq
<1> DEFINE segs == [i \in Segs |->
                      IF i \in Pulled(entry)
                      THEN [entry.buffered_segs[i] EXCEPT !.seq = 0]
                      ELSE entry.buffered_segs[i]]
<1>1. Advanced(entry)
        = [next_expected_seq |-> FirstMissing(entry),
           next_generated_seq |-> entry.next_generated_seq,
           planned_seqs |-> entry.planned_seqs, buffered_segs |-> segs]
  <2> DEFINE first == FirstMissing(entry)
  <2>1. Advanced(entry) = [entry EXCEPT !.next_expected_seq = first,
                                        !.buffered_segs = segs]
    BY DEF Advanced
  <2> HIDE DEF segs, first
  <2>2. Advanced(entry)
          = [next_expected_seq |-> first,
             next_generated_seq |-> entry.next_generated_seq,
             planned_seqs |-> entry.planned_seqs, buffered_segs |-> segs]
    BY <2>1 DEF DataEntries
  <2> QED
    BY <2>2 DEF first
<1>2. /\ entry.next_generated_seq \in Nat
      /\ entry.planned_seqs \in [Plan -> Nat]
      /\ entry.buffered_segs \in [Segs -> [seq : Nat, pktbuf_key : Nat]]
  BY DEF DataEntries
<1>3. segs \in [Segs -> [seq : Nat, pktbuf_key : Nat]]
  BY <1>2
<1>4. FirstMissing(entry) \in Nat
  BY FirstMissingIsFirst
<1>5. \A i \in Segs :
        /\ segs[i].pktbuf_key = entry.buffered_segs[i].pktbuf_key
        /\ segs[i].seq = IF i \in Pulled(entry) THEN 0
                                               ELSE entry.buffered_segs[i].seq
  BY <1>2
<1> HIDE DEF segs
<1> QED
  BY <1>1, <1>2, <1>3, <1>4, <1>5 DEF DataEntries

(* A flow that gets the number it expects advances to the first number it    *)
(* has not kept.                                                             *)
LEMMA AdvancedIsSound ==
    ASSUME NEW entry \in DataEntries, NEW kept \in SUBSET Nat,
           FlowIsSound(entry, kept)
    PROVE  FlowIsSound(Advanced(entry), kept \cup {entry.next_expected_seq})
<1> DEFINE next == entry.next_expected_seq
           first == FirstMissing(entry)
           seqs == BufferedSeqs(entry)
           seqs1 == BufferedSeqs(Advanced(entry))
           all == kept \cup {next}
<1>1. /\ first \in Nat /\ first > next /\ first \notin seqs
      /\ next + 1 .. first - 1 \subseteq seqs /\ next \in Nat
  BY FirstMissingIsFirst DEF DataEntries
<1>2. /\ 1 .. next - 1 \subseteq kept /\ next \notin kept /\ next > 0
      /\ seqs = {s \in kept : s > next}
  BY DEF FlowIsSound
<1>3. seqs1 = seqs \ (next + 1 .. first - 1)
  <2>1. \A i \in Segs :
          Advanced(entry).buffered_segs[i].seq
            = IF entry.buffered_segs[i].seq \in next + 1 .. first - 1
              THEN 0 ELSE entry.buffered_segs[i].seq
    BY AdvancedKeepsPlan DEF Pulled
  <2>2. 0 \notin next + 1 .. first - 1
    BY <1>1
  <2> HIDE DEF next, first
  <2> QED
    BY <2>1, <2>2 DEF BufferedSeqs
<1>4. Advanced(entry).next_expected_seq = first
  BY AdvancedKeepsPlan
<1> HIDE DEF next, first, seqs, seqs1
<1>5. 1 .. first - 1 \subseteq all
  <2> SUFFICES ASSUME NEW s \in 1 .. first - 1
               PROVE  s \in all
    OBVIOUS
  <2>1. CASE s < next
    BY <1>1, <1>2, <2>1
  <2>2. CASE s = next
    BY <2>2
  <2>3. CASE s > next
    <3>1. s \in next + 1 .. first - 1
      BY <1>1, <2>3
    <3> QED
      BY <1>1, <1>2, <3>1
  <2> QED
    BY <1>1, <2>1, <2>2, <2>3
<1>6. first \notin all
  BY <1>1, <1>2
<1>7. seqs1 = {s \in all : s > first}
  <2>1. ASSUME NEW s \in seqs1
        PROVE  s \in all /\ s > first
    <3>1. s \in kept /\ s \in Nat /\ s > next /\ s # first
          /\ s \notin next + 1 .. first - 1
      BY <1>1, <1>2, <1>3
    <3> QED
      BY <1>1, <3>1
  <2>2. ASSUME NEW s \in all, s > first
        PROVE  s \in seqs1
    <3>1. s \in kept /\ s \in Nat /\ s > next
          /\ s \notin next + 1 .. first - 1
      BY <1>1, <2>2
    <3> QED
      BY <1>2, <1>3, <3>1
  <2> QED
    BY <2>1, <2>2
<1>8. first > 0
  BY <1>1
<1> QED
  BY <1>4, <1>5, <1>6, <1>7, <1>8 DEF FlowIsSound, seqs1, next

-----------------------------------------------------------------------------
(* Entries *)

(* The search of a bucket finds the key of the flow, or where it would go.   *)
LEMMA EntryIsFound ==
    ASSUME ReasmTypes, NEW t \in Tenants, NEW f \in Flows
    PROVE  /\ HashFlowkey[f] \in Buckets
           /\ flowkey_map[t][HashFlowkey[f]] \in Seq(Flows)
           /\ Len(flowkey_map[t][HashFlowkey[f]]) \in Nat
           /\ BucketIndex(t, f) \in Nat
           /\ IF InUse(t, f)
              THEN /\ BucketIndex(t, f) + 1
                        \in 1 .. Len(flowkey_map[t][HashFlowkey[f]])
                   /\ flowkey_map[t][HashFlowkey[f]][BucketIndex(t, f) + 1] = f
              ELSE BucketIndex(t, f) = Len(flowkey_map[t][HashFlowkey[f]])
<1> DEFINE keys == flowkey_map[t][HashFlowkey[f]]
           found == {i \in 1 .. Len(keys) : keys[i] = f}
<1>1. HashFlowkey[f] \in Buckets
  BY ReasmAssumption
<1>2. keys \in Seq(Flows)
  BY <1>1 DEF ReasmTypes, TypeOK
<1>3. Len(keys) \in Nat /\ DOMAIN keys = 1 .. Len(keys)
  BY <1>2
<1>4. InUse(t, f) <=> found # {}
  BY <1>3 DEF InUse
<1>5. BucketIndex(t, f) = IF found = {} THEN Len(keys) ELSE Min(found) - 1
  BY DEF BucketIndex
<1> HIDE DEF keys
<1>6. CASE found = {}
  BY <1>1, <1>2, <1>3, <1>4, <1>5, <1>6 DEF keys
<1>7. CASE found # {}
  <2>1. found \subseteq Nat
    OBVIOUS
  <2>2. Min(found) \in found
    BY <1>7, <2>1, MinIsLeast
  <2>3. Min(found) \in 1 .. Len(keys) /\ keys[Min(found)] = f
    BY <2>2
  <2>4. BucketIndex(t, f) = Min(found) - 1
    BY <1>5, <1>7
  <2> HIDE DEF found
  <2>5. BucketIndex(t, f) \in Nat /\ BucketIndex(t, f) + 1 = Min(found)
    BY <1>3, <2>3, <2>4
  <2> QED
    BY <1>1, <1>2, <1>3, <1>4, <1>7, <2>3, <2>5 DEF keys
<1> QED
  BY <1>6, <1>7

(* A flow whose bucket is not full has an entry: its own, or an unused one.  *)
LEMMA EntryIsInTable ==
    ASSUME ReasmTypes, NEW t \in Tenants, NEW f \in Flows, ~BucketIsFull(t, f)
    PROVE  /\ EntryOf(t, f) \in Entries
           /\ IsNew(t, f) <=> ~InUse(t, f)
           /\ InUse(t, f) <=> Used(t, EntryOf(t, f))
           /\ IsNew(t, f)
                => /\ EntryOf(t, f)[2] = Len(flowkey_map[t][HashFlowkey[f]])
                   /\ Len(flowkey_map[t][HashFlowkey[f]]) < RE_BUCKET_SIZE
<1> DEFINE len == Len(flowkey_map[t][HashFlowkey[f]])
           index == BucketIndex(t, f)
<1>1. /\ HashFlowkey[f] \in Buckets /\ len \in Nat /\ index \in Nat
      /\ InUse(t, f) => index + 1 \in 1 .. len
      /\ ~InUse(t, f) => index = len
  BY EntryIsFound
<1>2. len <= RE_BUCKET_SIZE /\ index # RE_BUCKET_SIZE
  BY <1>1 DEF ReasmTypes, TypeOK, BucketIsFull
<1>3. RE_BUCKET_SIZE \in Nat
  BY ReasmAssumption
<1>4. EntryOf(t, f) = <<HashFlowkey[f], index>> /\ (IsNew(t, f) <=> index = len)
  BY DEF EntryOf, IsNew
<1>5. Used(t, EntryOf(t, f)) <=> index < len
  BY <1>4 DEF Used
<1> HIDE DEF len, index
<1>6. index \in 0 .. RE_BUCKET_SIZE - 1 /\ (InUse(t, f) <=> index < len)
  BY <1>1, <1>2, <1>3
<1>7. InUse(t, f) <=> index # len
  BY <1>1
<1>8. IsNew(t, f) => EntryOf(t, f)[2] = len /\ len < RE_BUCKET_SIZE
  BY <1>1, <1>2, <1>3, <1>4
<1> QED
  BY <1>1, <1>4, <1>5, <1>6, <1>7, <1>8 DEF Entries, len

\* What holds of the entry e of a tenant before a packet is looked at.
IsSoundBefore(t, e, entry) ==
    /\ entry \in DataEntries
    /\ entry.buffered_segs = dataentry_map[t][e].buffered_segs
    /\ PlanIsSound(entry, issued[t][e])
    /\ lost[t][e] \subseteq issued[t][e]
    /\ Kept(t, e) = issued[t][e] \ lost[t][e]
    /\ FlowIsSound(entry, issued[t][e] \ lost[t][e])

(* Before its packet is looked at, the entry of a flow is sound, also when   *)
(* it has just been opened, and has the segments it had.                     *)
LEMMA EntryBeforeIsSound ==
    ASSUME ReasmTypes, EntriesAreSound, NEW t \in Tenants, NEW f \in Flows,
           ~BucketIsFull(t, f), ~pend[t].busy
    PROVE  IsSoundBefore(t, EntryOf(t, f), EntryBefore(t, f))
<1> DEFINE e == EntryOf(t, f)
           entry == EntryBefore(t, f)
           old == dataentry_map[t][e]
<1> SUFFICES IsSoundBefore(t, e, entry)
  OBVIOUS
<1> USE DEF IsSoundBefore
<1>1. e \in Entries /\ (IsNew(t, f) <=> ~Used(t, e))
  BY EntryIsInTable
<1>2. old \in DataEntries
  BY <1>1 DEF ReasmTypes, TypeOK, DataEntries
<1>3. Kept(t, e) = issued[t][e] \ lost[t][e]
  BY DEF Kept, Pending
<1>4. entry = IF Used(t, e) THEN old ELSE Opened(old)
  BY <1>1 DEF EntryBefore
<1>5. CASE Used(t, e)
  <2>1. /\ PlanIsSound(old, issued[t][e]) /\ lost[t][e] \subseteq issued[t][e]
        /\ FlowIsSound(old, issued[t][e] \ lost[t][e])
    BY <1>1, <1>3, <1>5 DEF EntriesAreSound
  <2> QED
    BY <1>2, <1>3, <1>4, <1>5, <2>1
<1>6. CASE ~Used(t, e)
  <2> DEFINE size == PLANNED_SEQ_SIZE
             plan == [i \in Plan |-> i + 1]
             segs == [i \in Segs |-> [seq |-> 0, pktbuf_key |-> 0]]
  <2>1. old = Zeroed /\ issued[t][e] = {} /\ lost[t][e] = {}
    BY <1>1, <1>6 DEF EntriesAreSound
  <2>2. entry = [next_expected_seq |-> 1, next_generated_seq |-> size + 1,
                 planned_seqs |-> plan, buffered_segs |-> segs]
    <3>1. entry = [old EXCEPT !.next_expected_seq = 1,
                              !.next_generated_seq = size + 1,
                              !.planned_seqs = plan]
      BY <1>4, <1>6 DEF Opened
    <3>2. old.buffered_segs = segs
      BY <2>1 DEF Zeroed
    <3> HIDE DEF plan, segs, size
    <3> QED
      BY <1>2, <3>1, <3>2 DEF DataEntries
  <2>3. old.buffered_segs = segs
    BY <2>1 DEF Zeroed
  <2>4. size \in Nat \ {0} /\ Plan = 0 .. size - 1
    BY ReasmAssumption DEF Plan
  <2>5. /\ plan \in [Plan -> Nat]
        /\ segs \in [Segs -> [seq : Nat, pktbuf_key : Nat]]
    BY <2>4
  <2>6. entry \in DataEntries
    BY <2>2, <2>4, <2>5 DEF DataEntries
  <2>7. {plan[i] : i \in Plan} = 1 .. (size + 1) - 1
    <3>1. ASSUME NEW n \in 1 .. size
          PROVE  \E i \in Plan : plan[i] = n
      <4>1. n - 1 \in Plan /\ (n - 1) + 1 = n
        BY <2>4
      <4> QED
        BY <4>1
    <3>2. \A i \in Plan : plan[i] \in 1 .. size
      BY <2>4
    <3>3. 1 .. (size + 1) - 1 = 1 .. size
      BY <2>4
    <3> HIDE DEF plan, size
    <3> QED
      BY <3>1, <3>2, <3>3
  <2>8. \A i, j \in Plan : plan[i] = plan[j] => i = j
    BY <2>4
  <2>9. PlanIsSound(entry, {})
    BY <2>2, <2>7, <2>8 DEF PlanIsSound
  <2>10. BufferedSeqs(entry) = {}
    BY <2>2 DEF BufferedSeqs
  <2>11. FlowIsSound(entry, {} \ {})
    BY <2>2, <2>10 DEF FlowIsSound
  <2> QED
    BY <1>3, <2>1, <2>2, <2>3, <2>6, <2>9, <2>11
<1> QED
  BY <1>5, <1>6

-----------------------------------------------------------------------------
(* A packet takes its number *)

(* The entry of the packet's flow is used from then on, and no other is; no  *)
(* bucket gets more keys than it has room for, and none twice.               *)
LEMMA TakeNumberUses ==
    ASSUME ReasmTypes, FlowsHaveOneEntry, NEW t \in Tenants, NEW f \in Flows,
           NEW entry, TakeNumber(t, f, entry)
    PROVE  /\ flowkey_map' \in [Tenants -> [Buckets -> Seq(Flows)]]
           /\ \A u \in Tenants, b \in Buckets :
                 Len(flowkey_map'[u][b]) <= RE_BUCKET_SIZE
           /\ FlowsHaveOneEntry'
           /\ \A u \in Tenants, e \in Entries :
                 Used(u, e)' <=> Used(u, e) \/ (u = t /\ e = EntryOf(t, f))
<1> DEFINE h == HashFlowkey[f]
           keys == flowkey_map[t][h]
           longer == Append(keys, f)
           len == Len(keys)
<1>1. ~BucketIsFull(t, f)
  BY DEF TakeNumber
<1>2. /\ h \in Buckets /\ keys \in Seq(Flows) /\ len \in Nat
      /\ EntryOf(t, f) \in Entries
      /\ IsNew(t, f) <=> ~InUse(t, f)
      /\ InUse(t, f) <=> Used(t, EntryOf(t, f))
      /\ IsNew(t, f) => EntryOf(t, f)[2] = len /\ len < RE_BUCKET_SIZE
      /\ EntryOf(t, f)[1] = h
  BY <1>1, EntryIsFound, EntryIsInTable DEF EntryOf
<1>3. /\ flowkey_map \in [Tenants -> [Buckets -> Seq(Flows)]]
      /\ \A u \in Tenants, b \in Buckets :
            Len(flowkey_map[u][b]) \in Nat
              /\ Len(flowkey_map[u][b]) <= RE_BUCKET_SIZE
  BY DEF ReasmTypes, TypeOK
<1>4. CASE ~IsNew(t, f)
  <2>1. flowkey_map' = flowkey_map
    BY <1>4 DEF TakeNumber
  <2> QED
    BY <1>2, <1>3, <1>4, <2>1 DEF FlowsHaveOneEntry, Used
<1>5. CASE IsNew(t, f)
  <2>1. flowkey_map' = [flowkey_map EXCEPT ![t][h] = longer]
    BY <1>5 DEF TakeNumber
  <2>2. /\ longer \in Seq(Flows) /\ Len(longer) = len + 1
        /\ \A i \in 1 .. len : longer[i] = keys[i]
        /\ longer[len + 1] = f /\ DOMAIN longer = 1 .. len + 1
    BY <1>2
  <2>3. \A i \in 1 .. len : keys[i] # f
    BY <1>2, <1>5 DEF InUse
  <2>4. \A i, j \in 1 .. len : keys[i] = keys[j] => i = j
    BY <1>2 DEF FlowsHaveOneEntry
  <2> HIDE DEF longer, keys, len, h
  <2>5. /\ flowkey_map' \in [Tenants -> [Buckets -> Seq(Flows)]]
        /\ \A u \in Tenants, b \in Buckets :
              flowkey_map'[u][b] = IF u = t /\ b = h THEN longer
                                                     ELSE flowkey_map[u][b]
    BY <1>2, <1>3, <2>1, <2>2
  <2>6. Len(longer) <= RE_BUCKET_SIZE
    BY <1>2, <1>5, <2>2, ReasmAssumption
  <2>7. \A i, j \in 1 .. len + 1 : longer[i] = longer[j] => i = j
    BY <1>2, <2>2, <2>3, <2>4
  <2>8. FlowsHaveOneEntry'
    <3> SUFFICES ASSUME NEW u \in Tenants, NEW b \in Buckets,
                        NEW i \in DOMAIN flowkey_map'[u][b],
                        NEW j \in DOMAIN flowkey_map'[u][b],
                        flowkey_map'[u][b][i] = flowkey_map'[u][b][j]
                 PROVE  i = j
      BY DEF FlowsHaveOneEntry
    <3>1. CASE u = t /\ b = h
      <4>1. flowkey_map'[u][b] = longer
        BY <2>5, <3>1
      <4>2. i \in 1 .. len + 1 /\ j \in 1 .. len + 1 /\ longer[i] = longer[j]
        BY <2>2, <4>1
      <4> QED
        BY <2>7, <4>2
    <3>2. CASE ~(u = t /\ b = h)
      <4>1. flowkey_map'[u][b] = flowkey_map[u][b]
        BY <2>5, <3>2
      <4> QED
        BY <4>1 DEF FlowsHaveOneEntry
    <3> QED
      BY <3>1, <3>2
  <2>9. ASSUME NEW u \in Tenants, NEW e \in Entries
        PROVE  Used(u, e)' <=> Used(u, e) \/ (u = t /\ e = EntryOf(t, f))
    <3>1. PICK b \in Buckets, n \in 0 .. RE_BUCKET_SIZE - 1 : e = <<b, n>>
      BY DEF Entries
    <3>2. e[1] = b /\ e[2] = n
      BY <3>1
    <3>3. CASE u = t /\ b = h
      <4>1. (Used(u, e)' <=> n < len + 1) /\ (Used(u, e) <=> n < len)
        BY <2>2, <2>5, <3>2, <3>3 DEF Used, keys, len, h
      <4>2. e = EntryOf(t, f) <=> n = len
        <5>1. PICK c \in Buckets, k \in 0 .. RE_BUCKET_SIZE - 1 :
                EntryOf(t, f) = <<c, k>>
          BY <1>2 DEF Entries
        <5>2. c = h /\ k = len
          BY <1>2, <1>5, <5>1
        <5> QED
          BY <3>1, <3>3, <5>1, <5>2
      <4> QED
        BY <1>2, <3>3, <4>1, <4>2
    <3>4. CASE ~(u = t /\ b = h)
      <4>1. Used(u, e)' <=> Used(u, e)
        BY <2>5, <3>2, <3>4 DEF Used
      <4>2. ~(u = t /\ e = EntryOf(t, f))
        BY <1>2, <3>2, <3>4
      <4> QED
        BY <4>1, <4>2
    <3> QED
      BY <3>3, <3>4
  <2>10. \A u \in Tenants, b \in Buckets :
            Len(flowkey_map'[u][b]) <= RE_BUCKET_SIZE
    BY <1>3, <2>5, <2>6
  <2> QED
    BY <2>5, <2>8, <2>9, <2>10
<1> QED
  BY <1>4, <1>5

(* Two entries that agree on the segments and on the expected number pull    *)
(* the same.                                                                 *)
LEMMA PullsTheSame ==
    ASSUME NEW a, NEW b, a.next_expected_seq = b.next_expected_seq,
           a.buffered_segs = b.buffered_segs
    PROVE  /\ FirstMissing(a) = FirstMissing(b)
           /\ Pulled(a) = Pulled(b)
           /\ BufferedSeqs(a) = BufferedSeqs(b)
BY DEF FirstMissing, Pulled, BufferedSeqs

\* The packet of flow f gets number first, and its entry becomes new.
Takes(t, f, new, first) ==
    LET e == EntryOf(t, f)
    IN  /\ e \in Entries /\ new \in DataEntries
        /\ dataentry_map' = [dataentry_map EXCEPT ![t][e] = new]
        /\ issued' = [issued EXCEPT ![t][e] = @ \cup {first}]
        /\ lost' = lost
        /\ first \in Nat \ {0} /\ first \notin issued[t][e]
        /\ lost[t][e] \subseteq issued[t][e]
        /\ PlanIsSound(new, issued[t][e] \cup {first})
        /\ \A i \in Segs : new.buffered_segs[i].pktbuf_key
                             = dataentry_map[t][e].buffered_segs[i].pktbuf_key

\* It was the expected number, and the pull loop has run.
Advances(t, f, new) ==
    LET e == EntryOf(t, f)
        entry == EntryBefore(t, f)
        first == entry.planned_seqs[0]
    IN  /\ Takes(t, f, new, first)
        /\ FlowIsSound(new, (issued[t][e] \ lost[t][e]) \cup {first})
        /\ \A i \in Segs :
              new.buffered_segs[i].seq
                = IF i \in Pulled(entry)
                  THEN 0 ELSE dataentry_map[t][e].buffered_segs[i].seq

\* It was another one.
Waits(t, f, new) ==
    LET e == EntryOf(t, f)
        entry == EntryBefore(t, f)
        first == entry.planned_seqs[0]
    IN  /\ Takes(t, f, new, first)
        /\ FlowIsSound(new, issued[t][e] \ lost[t][e])
        /\ first # new.next_expected_seq
        /\ new.buffered_segs = dataentry_map[t][e].buffered_segs
        /\ FreeSeg(entry) = FreeSeg(new)

(* A number in sequence: the flow advances and segments become empty.        *)
LEMMA InSequenceTakes ==
    ASSUME ReasmTypes, EntriesAreSound, NEW t \in Tenants, NEW f \in Flows,
           InSequence(t, f)
    PROVE  \E new \in DataEntries : Advances(t, f, new)
<1> DEFINE entry == EntryBefore(t, f)
           e == EntryOf(t, f)
<1>1. ~BucketIsFull(t, f) /\ ~pend[t].busy /\ TakeNumber(t, f, entry)
  BY DEF InSequence, TakeNumber
<1>2. e \in Entries
  BY <1>1, EntryIsInTable
<1>3. /\ entry \in DataEntries
      /\ entry.buffered_segs = dataentry_map[t][e].buffered_segs
      /\ PlanIsSound(entry, issued[t][e]) /\ lost[t][e] \subseteq issued[t][e]
      /\ FlowIsSound(entry, issued[t][e] \ lost[t][e])
  BY <1>1, EntryBeforeIsSound DEF IsSoundBefore
<1>4. PICK diff \in 0 .. MaxSwap : \E i \in 0 .. PLANNED_SEQ_SIZE - 1 - diff :
        dataentry_map' =
          [dataentry_map EXCEPT ![t][e] = Advanced(Replanned(entry, i, diff))]
  BY DEF InSequence
<1>5. PICK i \in 0 .. PLANNED_SEQ_SIZE - 1 - diff :
        dataentry_map' =
          [dataentry_map EXCEPT ![t][e] = Advanced(Replanned(entry, i, diff))]
  BY <1>4
<1> DEFINE mid == Replanned(entry, i, diff)
           new == Advanced(mid)
           first == entry.planned_seqs[0]
           kept == issued[t][e] \ lost[t][e]
<1>6. /\ mid \in DataEntries /\ PlanIsSound(mid, issued[t][e] \cup {first})
      /\ mid.next_expected_seq = entry.next_expected_seq
      /\ mid.buffered_segs = entry.buffered_segs
  BY <1>3, ReplannedIsSound
<1>7. /\ FirstMissing(mid) = FirstMissing(entry) /\ Pulled(mid) = Pulled(entry)
      /\ BufferedSeqs(mid) = BufferedSeqs(entry)
  BY <1>6, PullsTheSame
<1>8. first = entry.next_expected_seq
  BY DEF InSequence
<1>9. 0 \in Plan
  BY ReasmAssumption DEF Plan
<1>10. first \in Nat \ {0} /\ first \notin issued[t][e]
  <2>1. first \in {entry.planned_seqs[j] : j \in Plan}
    BY <1>9
  <2>2. first \in 1 .. entry.next_generated_seq - 1
    BY <1>3, <2>1 DEF PlanIsSound
  <2> QED
    BY <1>3, <2>1, <2>2 DEF PlanIsSound
<1>11. kept \in SUBSET Nat
  BY <1>2 DEF ReasmTypes, History
<1> HIDE DEF mid, first
<1>12. FlowIsSound(mid, kept)
  BY <1>3, <1>6, <1>7 DEF FlowIsSound
<1>13. FlowIsSound(new, kept \cup {first})
  BY <1>6, <1>8, <1>11, <1>12, AdvancedIsSound
<1>14. /\ new \in DataEntries /\ new.planned_seqs = mid.planned_seqs
       /\ new.next_generated_seq = mid.next_generated_seq
       /\ \A j \in Segs :
            /\ new.buffered_segs[j].pktbuf_key = mid.buffered_segs[j].pktbuf_key
            /\ new.buffered_segs[j].seq
                 = IF j \in Pulled(mid) THEN 0 ELSE mid.buffered_segs[j].seq
  BY <1>6, AdvancedKeepsPlan
<1> HIDE DEF new
<1>15. PlanIsSound(new, issued[t][e] \cup {first})
  <2> DEFINE out == issued[t][e] \cup {first}
  <2>1. PlanIsSound(mid, out)
    BY <1>6
  <2> HIDE DEF out
  <2>2. PlanIsSound(new, out)
    BY <1>14, <2>1 DEF PlanIsSound
  <2> QED
    BY <2>2 DEF out
<1>16. /\ issued' = [issued EXCEPT ![t][e] = @ \cup {first}] /\ lost' = lost
       /\ dataentry_map' = [dataentry_map EXCEPT ![t][e] = new]
  BY <1>1, <1>5 DEF TakeNumber, first, new, mid
<1>17. Takes(t, f, new, first)
  BY <1>2, <1>3, <1>6, <1>10, <1>14, <1>15, <1>16 DEF Takes
<1> QED
  BY <1>3, <1>6, <1>7, <1>13, <1>14, <1>17 DEF Advances, first

(* Any other number: the flow stays where it is.                             *)
LEMMA OutOfSequenceTakes ==
    ASSUME ReasmTypes, EntriesAreSound, NEW t \in Tenants, NEW f \in Flows,
           OutOfSequence(t, f)
    PROVE  \E new \in DataEntries : Waits(t, f, new)
<1> DEFINE entry == EntryBefore(t, f)
           e == EntryOf(t, f)
<1>1. ~BucketIsFull(t, f) /\ ~pend[t].busy /\ TakeNumber(t, f, entry)
  BY DEF OutOfSequence, TakeNumber
<1>2. e \in Entries
  BY <1>1, EntryIsInTable
<1>3. /\ entry \in DataEntries
      /\ entry.buffered_segs = dataentry_map[t][e].buffered_segs
      /\ PlanIsSound(entry, issued[t][e]) /\ lost[t][e] \subseteq issued[t][e]
      /\ FlowIsSound(entry, issued[t][e] \ lost[t][e])
  BY <1>1, EntryBeforeIsSound DEF IsSoundBefore
<1>4. PICK diff \in 0 .. MaxSwap : \E i \in 0 .. PLANNED_SEQ_SIZE - 1 - diff :
        dataentry_map' =
          [dataentry_map EXCEPT ![t][e] = Replanned(entry, i, diff)]
  BY DEF OutOfSequence
<1>5. PICK i \in 0 .. PLANNED_SEQ_SIZE - 1 - diff :
        dataentry_map' =
          [dataentry_map EXCEPT ![t][e] = Replanned(entry, i, diff)]
  BY <1>4
<1> DEFINE new == Replanned(entry, i, diff)
           first == entry.planned_seqs[0]
           kept == issued[t][e] \ lost[t][e]
<1>6. /\ new \in DataEntries /\ PlanIsSound(new, issued[t][e] \cup {first})
      /\ new.next_expected_seq = entry.next_expected_seq
      /\ new.buffered_segs = entry.buffered_segs
  BY <1>3, ReplannedIsSound
<1>7. BufferedSeqs(new) = BufferedSeqs(entry) /\ FreeSeg(entry) = FreeSeg(new)
  BY <1>6, PullsTheSame DEF FreeSeg
<1>8. first # entry.next_expected_seq
  BY DEF OutOfSequence
<1>9. 0 \in Plan
  BY ReasmAssumption DEF Plan
<1>10. first \in Nat \ {0} /\ first \notin issued[t][e]
  <2>1. first \in {entry.planned_seqs[j] : j \in Plan}
    BY <1>9
  <2>2. first \in 1 .. entry.next_generated_seq - 1
    BY <1>3, <2>1 DEF PlanIsSound
  <2> QED
    BY <1>3, <2>1, <2>2 DEF PlanIsSound
<1> HIDE DEF new, first
<1>11. FlowIsSound(new, kept)
  BY <1>3, <1>6, <1>7 DEF FlowIsSound
<1>12. /\ issued' = [issued EXCEPT ![t][e] = @ \cup {first}] /\ lost' = lost
       /\ dataentry_map' = [dataentry_map EXCEPT ![t][e] = new]
  BY <1>1, <1>5 DEF TakeNumber, first, new
<1>13. Takes(t, f, new, first)
  BY <1>2, <1>3, <1>6, <1>10, <1>12 DEF Takes
<1> QED
  BY <1>3, <1>6, <1>7, <1>8, <1>11, <1>13 DEF Waits, first

-----------------------------------------------------------------------------
(* The steps keep the types *)

PendTypes ==
    \A t \in Tenants :
        \/ pend[t] = Idle
        \/ pend[t] \in [busy : {TRUE}, entry : Entries, seq : Nat \ {0},
                        seg_index : 0 .. BUFFERED_SEGS_SIZE,
                        pktbuf_index : Pktbufs \cup {-1}, fits : BOOLEAN]

(* Numbers are put down in the histories of the entry.                       *)
LEMMA TakesKeepsTypes ==
    ASSUME ReasmTypes, NEW t \in Tenants, NEW f \in Flows, NEW new, NEW first,
           Takes(t, f, new, first)
    PROVE  /\ dataentry_map' \in [Tenants -> [Entries -> DataEntries]]
           /\ issued' \in History /\ lost' \in History
           /\ EntryOf(t, f) \in Entries
           /\ \A u \in Tenants, d \in Entries :
                dataentry_map'[u][d] = IF u = t /\ d = EntryOf(t, f)
                                       THEN new ELSE dataentry_map[u][d]
           /\ \A u \in Tenants, d \in Entries :
                issued'[u][d] = IF u = t /\ d = EntryOf(t, f)
                                THEN issued[u][d] \cup {first}
                                ELSE issued[u][d]
<1> DEFINE e == EntryOf(t, f)
           out == issued[t][e] \cup {first}
<1>1. /\ dataentry_map \in [Tenants -> [Entries -> DataEntries]]
      /\ issued \in [Tenants -> [Entries -> SUBSET Nat]]
      /\ lost \in History
  BY DEF ReasmTypes, TypeOK, DataEntries, History
<1>2. /\ e \in Entries /\ new \in DataEntries /\ lost' = lost /\ first \in Nat
      /\ dataentry_map' = [dataentry_map EXCEPT ![t][e] = new]
      /\ issued' = [issued EXCEPT ![t][e] = out]
  BY DEF Takes
<1>3. out \in SUBSET Nat
  BY <1>1, <1>2
<1> HIDE DEF e, out
<1>4. /\ dataentry_map' \in [Tenants -> [Entries -> DataEntries]]
      /\ \A u \in Tenants, d \in Entries :
           dataentry_map'[u][d] = IF u = t /\ d = e THEN new
                                                    ELSE dataentry_map[u][d]
  BY <1>1, <1>2
<1>5. /\ issued' \in [Tenants -> [Entries -> SUBSET Nat]]
      /\ \A u \in Tenants, d \in Entries :
           issued'[u][d] = IF u = t /\ d = e THEN out ELSE issued[u][d]
  BY <1>1, <1>2, <1>3
<1> QED
  BY <1>1, <1>2, <1>4, <1>5 DEF History, e, out

(* Advancing keeps the types, and the bucket its room.                       *)
LEMMA InSequenceKeepsTypes ==
    ASSUME ReasmInvariant, NEW t \in Tenants, NEW f \in Flows, InSequence(t, f)
    PROVE  ReasmTypes' /\ FlowsHaveOneEntry'
<1>1. PICK new \in DataEntries : Advances(t, f, new)
  BY InSequenceTakes DEF ReasmInvariant
<1>2. PICK first : Takes(t, f, new, first)
  BY <1>1 DEF Advances
<1>3. TakeNumber(t, f, EntryBefore(t, f))
  BY DEF InSequence
<1>4. /\ dataentry_map' \in [Tenants -> [Entries -> DataEntries]]
      /\ issued' \in History /\ lost' \in History
  BY <1>2, TakesKeepsTypes DEF ReasmInvariant
<1>5. /\ flowkey_map' \in [Tenants -> [Buckets -> Seq(Flows)]]
      /\ \A u \in Tenants, b \in Buckets :
            Len(flowkey_map'[u][b]) <= RE_BUCKET_SIZE
      /\ FlowsHaveOneEntry'
  BY <1>3, TakeNumberUses DEF ReasmInvariant
<1>6. flag_pkt_buf' \in [Pktbufs -> BOOLEAN]
  BY DEF InSequence, Released, ReasmInvariant, ReasmTypes, TypeOK
<1>7. fault' = fault /\ traffic' = traffic /\ raced' \in BOOLEAN /\ pend' = pend
  BY <1>3 DEF TakeNumber, InSequence
<1> QED
  BY <1>4, <1>5, <1>6, <1>7
     DEF ReasmInvariant, ReasmTypes, TypeOK, DataEntries

(* So does looking for a place: what is found is a segment and a packet      *)
(* buffer, or none.                                                          *)
LEMMA OutOfSequenceKeepsTypes ==
    ASSUME ReasmInvariant, NEW t \in Tenants, NEW f \in Flows,
           OutOfSequence(t, f)
    PROVE  ReasmTypes' /\ FlowsHaveOneEntry'
<1> DEFINE entry == EntryBefore(t, f)
           first == entry.planned_seqs[0]
<1>1. PICK new \in DataEntries : Waits(t, f, new)
  BY OutOfSequenceTakes DEF ReasmInvariant
<1>2. Takes(t, f, new, first) /\ FreeSeg(entry) = FreeSeg(new)
  BY <1>1 DEF Waits
<1>3. TakeNumber(t, f, entry)
  BY DEF OutOfSequence
<1>4. /\ dataentry_map' \in [Tenants -> [Entries -> DataEntries]]
      /\ issued' \in History /\ lost' \in History
      /\ EntryOf(t, f) \in Entries
  BY <1>2, TakesKeepsTypes DEF ReasmInvariant
<1>5. /\ flowkey_map' \in [Tenants -> [Buckets -> Seq(Flows)]]
      /\ \A u \in Tenants, b \in Buckets :
            Len(flowkey_map'[u][b]) <= RE_BUCKET_SIZE
      /\ FlowsHaveOneEntry'
  BY <1>3, TakeNumberUses DEF ReasmInvariant
<1>6. fault' = fault /\ traffic' = traffic /\ raced' \in BOOLEAN
      /\ flag_pkt_buf' = flag_pkt_buf
  BY <1>3 DEF TakeNumber, OutOfSequence
<1>7. first \in Nat \ {0}
  BY <1>2 DEF Takes
<1>8. FreeSeg(entry) \in 0 .. BUFFERED_SEGS_SIZE
  BY <1>2, FreeSegIsFree
<1>9. FreePktbuf \in Pktbufs \cup {-1}
  BY FreePktbufIsFree
<1>10. PICK fits \in BOOLEAN :
         pend' = [pend EXCEPT ![t] =
                    [busy |-> TRUE, entry |-> EntryOf(t, f), seq |-> first,
                     seg_index |-> FreeSeg(entry),
                     pktbuf_index |-> FreePktbuf, fits |-> fits]]
  BY DEF OutOfSequence
<1>11. PendTypes' /\ DOMAIN pend' = Tenants
  <2> DEFINE found == [busy |-> TRUE, entry |-> EntryOf(t, f), seq |-> first,
                       seg_index |-> FreeSeg(entry),
                       pktbuf_index |-> FreePktbuf, fits |-> fits]
             Found == [busy : {TRUE}, entry : Entries, seq : Nat \ {0},
                       seg_index : 0 .. BUFFERED_SEGS_SIZE,
                       pktbuf_index : Pktbufs \cup {-1}, fits : BOOLEAN]
  <2>1. found \in Found
    BY <1>4, <1>7, <1>8, <1>9
  <2>2. pend' = [pend EXCEPT ![t] = found]
    BY <1>10
  <2>3. \A u \in Tenants : pend[u] = Idle \/ pend[u] \in Found
    BY DEF ReasmInvariant, ReasmTypes, TypeOK
  <2>4. \A u \in Tenants : pend'[u] = pend[u] \/ pend'[u] = found
    <3> HIDE DEF found
    <3> QED
      BY <2>2
  <2> HIDE DEF found, Found
  <2>5. \A u \in Tenants : pend'[u] = Idle \/ pend'[u] \in Found
    BY <2>1, <2>3, <2>4
  <2>6. DOMAIN pend' = Tenants
    BY <2>2 DEF ReasmInvariant, ReasmTypes
  <2> QED
    BY <2>5, <2>6 DEF PendTypes, Found
<1> QED
  BY <1>4, <1>5, <1>6, <1>11
     DEF ReasmInvariant, ReasmTypes, TypeOK, PendTypes, DataEntries

(* What a handler has found out has its types.                               *)
LEMMA FoundIsTyped ==
    ASSUME ReasmTypes, NEW t \in Tenants, pend[t].busy
    PROVE  /\ pend[t].entry \in Entries /\ pend[t].seq \in Nat \ {0}
           /\ pend[t].seg_index \in 0 .. BUFFERED_SEGS_SIZE
           /\ pend[t].pktbuf_index \in Pktbufs \cup {-1}
<1>1. pend[t] # Idle
  BY DEF Idle
<1>2. pend[t] \in [busy : {TRUE}, entry : Entries, seq : Nat \ {0},
                  seg_index : 0 .. BUFFERED_SEGS_SIZE,
                  pktbuf_index : Pktbufs \cup {-1}, fits : BOOLEAN]
  BY <1>1 DEF ReasmTypes, TypeOK
<1> QED
  BY <1>2

\* The entry a handler has found, with the packet saved.
Saved(t) ==
    LET p == pend[t]
        entry == dataentry_map[t][p.entry]
        seg == [seq |-> p.seq, pktbuf_key |-> p.pktbuf_index]
    IN  [entry EXCEPT !.buffered_segs = [@ EXCEPT ![p.seg_index] = seg]]

(* A save fills the segment found in the entry found, and nothing else.      *)
LEMMA SaveFills ==
    ASSUME ReasmTypes, NEW t \in Tenants, Save(t)
    PROVE  /\ pend[t].entry \in Entries /\ pend[t].seg_index \in Segs
           /\ pend[t].seq \in Nat \ {0} /\ pend[t].pktbuf_index \in Pktbufs
           /\ Saved(t) \in DataEntries
           /\ dataentry_map' \in [Tenants -> [Entries -> DataEntries]]
           /\ \A u \in Tenants, d \in Entries :
                dataentry_map'[u][d] = IF u = t /\ d = pend[t].entry
                                       THEN Saved(t) ELSE dataentry_map[u][d]
           /\ Saved(t).next_expected_seq
                = dataentry_map[t][pend[t].entry].next_expected_seq
           /\ Saved(t).next_generated_seq
                = dataentry_map[t][pend[t].entry].next_generated_seq
           /\ Saved(t).planned_seqs
                = dataentry_map[t][pend[t].entry].planned_seqs
           /\ \A i \in Segs :
                Saved(t).buffered_segs[i]
                  = IF i = pend[t].seg_index
                    THEN [seq |-> pend[t].seq,
                          pktbuf_key |-> pend[t].pktbuf_index]
                    ELSE dataentry_map[t][pend[t].entry].buffered_segs[i]
<1> DEFINE e == pend[t].entry
           n == pend[t].seg_index
           seg == [seq |-> pend[t].seq, pktbuf_key |-> pend[t].pktbuf_index]
           old == dataentry_map[t][e]
           segs == [old.buffered_segs EXCEPT ![n] = seg]
           new == Saved(t)
<1>1. /\ e \in Entries /\ n \in 0 .. BUFFERED_SEGS_SIZE
      /\ pend[t].seq \in Nat \ {0}
      /\ pend[t].pktbuf_index \in Pktbufs \cup {-1}
  BY FoundIsTyped DEF Save
<1>2. n \in Segs /\ pend[t].pktbuf_index \in Pktbufs
  BY <1>1, ReasmAssumption DEF Save, HasPlace, Segs, Pktbufs
<1>3. seg \in [seq : Nat, pktbuf_key : Nat]
  BY <1>1, <1>2 DEF Pktbufs
<1>4. dataentry_map \in [Tenants -> [Entries -> DataEntries]]
  BY DEF ReasmTypes, TypeOK, DataEntries
<1>5. old \in DataEntries
  BY <1>1, <1>4
<1>6. dataentry_map' = [dataentry_map EXCEPT ![t][e] = new]
  <2>1. dataentry_map' = [dataentry_map EXCEPT ![t][e].buffered_segs[n] = seg]
    BY DEF Save
  <2> QED
    BY <1>1, <1>4, <2>1 DEF Saved
<1>7. new = [old EXCEPT !.buffered_segs = segs]
  BY DEF Saved
<1>8. /\ segs \in [Segs -> [seq : Nat, pktbuf_key : Nat]]
      /\ \A i \in Segs : segs[i] = IF i = n THEN seg ELSE old.buffered_segs[i]
  <2>1. old.buffered_segs \in [Segs -> [seq : Nat, pktbuf_key : Nat]]
    BY <1>5 DEF DataEntries
  <2> HIDE DEF seg, old
  <2> QED
    BY <1>2, <1>3, <2>1
<1>9. /\ new \in DataEntries /\ new.buffered_segs = segs
      /\ new.next_expected_seq = old.next_expected_seq
      /\ new.next_generated_seq = old.next_generated_seq
      /\ new.planned_seqs = old.planned_seqs
  <2> HIDE DEF new, old, segs
  <2> QED
    BY <1>5, <1>7, <1>8 DEF DataEntries
<1>10. /\ dataentry_map' \in [Tenants -> [Entries -> DataEntries]]
       /\ \A u \in Tenants, d \in Entries :
            dataentry_map'[u][d] = IF u = t /\ d = e THEN new
                                                     ELSE dataentry_map[u][d]
  <2> HIDE DEF new, e
  <2> QED
    BY <1>1, <1>4, <1>6, <1>9
<1> QED
  BY <1>1, <1>2, <1>8, <1>9, <1>10

(* Afterwards the handler is done.                                           *)
LEMMA IdleIsTyped ==
    ASSUME ReasmTypes, NEW t \in Tenants, pend' = [pend EXCEPT ![t] = Idle]
    PROVE  /\ PendTypes' /\ DOMAIN pend' = Tenants
           /\ pend'[t] = Idle /\ ~pend'[t].busy
           /\ \A u \in Tenants \ {t} : pend'[u] = pend[u]
<1> DEFINE Found == [busy : {TRUE}, entry : Entries, seq : Nat \ {0},
                     seg_index : 0 .. BUFFERED_SEGS_SIZE,
                     pktbuf_index : Pktbufs \cup {-1}, fits : BOOLEAN]
<1>1. \A u \in Tenants : pend[u] = Idle \/ pend[u] \in Found
  BY DEF ReasmTypes, TypeOK
<1> HIDE DEF Found
<1>2. /\ DOMAIN pend' = Tenants /\ pend'[t] = Idle
      /\ \A u \in Tenants \ {t} : pend'[u] = pend[u]
  BY DEF ReasmTypes
<1>3. \A u \in Tenants : pend'[u] = Idle \/ pend'[u] \in Found
  BY <1>1, <1>2
<1>4. ~Idle.busy
  BY DEF Idle
<1> QED
  BY <1>2, <1>3, <1>4 DEF PendTypes, Found

(* Saving keeps the types.                                                   *)
LEMMA SaveKeepsTypes ==
    ASSUME ReasmTypes, FlowsHaveOneEntry, NEW t \in Tenants, Save(t)
    PROVE  ReasmTypes' /\ FlowsHaveOneEntry'
<1>1. /\ flag_pkt_buf' = [flag_pkt_buf EXCEPT ![pend[t].pktbuf_index] = TRUE]
      /\ pend' = [pend EXCEPT ![t] = Idle]
      /\ UNCHANGED <<flowkey_map, fault, issued, lost, raced, traffic>>
  BY DEF Save
<1>2. dataentry_map' \in [Tenants -> [Entries -> DataEntries]]
  BY SaveFills
<1>3. PendTypes' /\ DOMAIN pend' = Tenants
  BY <1>1, IdleIsTyped
<1>4. flag_pkt_buf' \in [Pktbufs -> BOOLEAN]
  BY <1>1 DEF ReasmTypes, TypeOK
<1>5. TypeOK'
  BY <1>1, <1>2, <1>3, <1>4 DEF ReasmTypes, TypeOK, PendTypes, DataEntries
<1>6. FlowsHaveOneEntry'
  BY <1>1 DEF FlowsHaveOneEntry
<1> QED
  BY <1>1, <1>3, <1>5, <1>6 DEF ReasmTypes, History

(* Losing a packet puts its number down as lost.                             *)
LEMMA LoseKeepsTypes ==
    ASSUME ReasmTypes, FlowsHaveOneEntry, NEW t \in Tenants, Lose(t)
    PROVE  /\ ReasmTypes' /\ FlowsHaveOneEntry'
           /\ pend[t].entry \in Entries
           /\ \A u \in Tenants, d \in Entries :
                lost'[u][d] = IF u = t /\ d = pend[t].entry
                              THEN lost[u][d] \cup {pend[t].seq}
                              ELSE lost[u][d]
<1> DEFINE e == pend[t].entry
           more == lost[t][e] \cup {pend[t].seq}
<1>1. /\ lost' = [lost EXCEPT ![t][e] = more]
      /\ pend' = [pend EXCEPT ![t] = Idle]
      /\ UNCHANGED <<flowkey_map, dataentry_map, flag_pkt_buf, fault, issued,
                     raced, traffic>>
  BY DEF Lose
<1>2. e \in Entries /\ pend[t].seq \in Nat
  BY FoundIsTyped DEF Lose
<1>3. lost \in [Tenants -> [Entries -> SUBSET Nat]]
  BY DEF ReasmTypes, History
<1>4. more \in SUBSET Nat
  BY <1>2, <1>3
<1> HIDE DEF e, more
<1>5. /\ lost' \in [Tenants -> [Entries -> SUBSET Nat]]
      /\ \A u \in Tenants, d \in Entries :
           lost'[u][d] = IF u = t /\ d = e THEN more ELSE lost[u][d]
  BY <1>1, <1>2, <1>3, <1>4
<1>6. PendTypes' /\ DOMAIN pend' = Tenants
  BY <1>1, IdleIsTyped
<1>7. TypeOK'
  BY <1>1, <1>6 DEF ReasmTypes, TypeOK, PendTypes
<1>8. FlowsHaveOneEntry'
  BY <1>1 DEF FlowsHaveOneEntry
<1>9. ReasmTypes'
  BY <1>1, <1>5, <1>6, <1>7 DEF ReasmTypes, History
<1> QED
  BY <1>2, <1>5, <1>8, <1>9 DEF e, more

-----------------------------------------------------------------------------
(* The steps keep the entries sound, and what handlers have found            *)

EntryIsSound(t, e) ==
    /\ PlanIsSound(dataentry_map[t][e], issued[t][e])
    /\ lost[t][e] \subseteq issued[t][e]
    /\ FlowIsSound(dataentry_map[t][e], Kept(t, e))

PendIsSound(t) ==
    LET p == pend[t]
        entry == dataentry_map[t][p.entry]
    IN  /\ Used(t, p.entry)
        /\ p.seq \in issued[t][p.entry] \ lost[t][p.entry]
        /\ p.seq # entry.next_expected_seq
        /\ p.seg_index < BUFFERED_SEGS_SIZE
             => entry.buffered_segs[p.seg_index].seq = 0

\* At most the entry e of t is another one after the step.
OnlyEntry(t, e) ==
    /\ \A u \in Tenants, d \in Entries :
          Used(u, d)' <=> Used(u, d) \/ (u = t /\ d = e)
    /\ \A u \in Tenants, d \in Entries :
          (u # t \/ d # e) => /\ dataentry_map'[u][d] = dataentry_map[u][d]
                              /\ issued'[u][d] = issued[u][d]
                              /\ lost'[u][d] = lost[u][d]
    /\ \A u \in Tenants \ {t} : pend'[u] = pend[u]
    /\ pend[t].busy => pend[t].entry = e
    /\ pend'[t].busy => pend'[t].entry = e

(* A step of a handler of t concerns one entry of t, so all is sound after   *)
(* it if that entry is, and if what the handler has found is.                *)
LEMMA StaysSound ==
    ASSUME ReasmTypes, EntriesAreSound, PendingIsSound,
           NEW t \in Tenants, NEW e \in Entries, OnlyEntry(t, e),
           EntryIsSound(t, e)', pend'[t].busy => PendIsSound(t)'
    PROVE  EntriesAreSound' /\ PendingIsSound'
<1> USE DEF OnlyEntry
<1>1. ASSUME NEW u \in Tenants, NEW d \in Entries, u # t \/ d # e
      PROVE  Kept(u, d)' = Kept(u, d)
  <2>1. Pending(u, d)' = Pending(u, d)
    <3>1. CASE u # t
      BY <3>1 DEF Pending
    <3>2. CASE u = t
      BY <1>1, <3>2 DEF Pending
    <3> QED
      BY <3>1, <3>2
  <2> QED
    BY <1>1, <2>1 DEF Kept
<1>2. ASSUME NEW u \in Tenants, NEW d \in Entries
      PROVE  (IF Used(u, d)
              THEN /\ PlanIsSound(dataentry_map[u][d], issued[u][d])
                   /\ lost[u][d] \subseteq issued[u][d]
                   /\ FlowIsSound(dataentry_map[u][d], Kept(u, d))
              ELSE /\ dataentry_map[u][d] = Zeroed
                   /\ issued[u][d] = {} /\ lost[u][d] = {})'
  <2>1. CASE u = t /\ d = e
    BY <2>1 DEF EntryIsSound
  <2>2. CASE u # t \/ d # e
    <3>1. Kept(u, d)' = Kept(u, d)
      BY <1>1, <2>2
    <3>2. /\ dataentry_map'[u][d] = dataentry_map[u][d]
          /\ issued'[u][d] = issued[u][d] /\ lost'[u][d] = lost[u][d]
          /\ Used(u, d)' <=> Used(u, d)
      BY <2>2
    <3> QED
      BY <3>1, <3>2 DEF EntriesAreSound
  <2> QED
    BY <2>1, <2>2
<1>3. EntriesAreSound'
  BY <1>2 DEF EntriesAreSound
<1>4. ASSUME NEW u \in Tenants, pend'[u].busy
      PROVE  PendIsSound(u)'
  <2>1. CASE u = t
    BY <1>4, <2>1
  <2>2. CASE u # t
    <3>1. pend'[u] = pend[u] /\ pend[u].busy
      BY <1>4, <2>2
    <3>2. PICK d \in Entries : d = pend[u].entry
      BY <3>1, FoundIsTyped
    <3>3. PendIsSound(u)
      BY <3>1 DEF PendingIsSound, PendIsSound
    <3>4. /\ dataentry_map'[u][d] = dataentry_map[u][d]
          /\ issued'[u][d] = issued[u][d] /\ lost'[u][d] = lost[u][d]
          /\ Used(u, d)' <=> Used(u, d)
      BY <2>2, <3>2
    <3>5. Used(u, d)'
      BY <3>2, <3>3, <3>4 DEF PendIsSound
    <3>6. Used(u, pend[u].entry)'
      BY <3>1, <3>2, <3>5 DEF Used
    <3>7. pend'[u].entry = d
      BY <3>1, <3>2
    <3>8. /\ pend[u].seq \in issued[u][d] \ lost[u][d]
          /\ pend[u].seq # dataentry_map[u][d].next_expected_seq
          /\ pend[u].seg_index < BUFFERED_SEGS_SIZE
               => dataentry_map[u][d].buffered_segs[pend[u].seg_index].seq = 0
      BY <3>2, <3>3 DEF PendIsSound
    <3> QED
      BY <3>1, <3>4, <3>6, <3>7, <3>8 DEF PendIsSound
  <2> QED
    BY <2>1, <2>2
<1>5. PendingIsSound'
  BY <1>4 DEF PendingIsSound, PendIsSound
<1> QED
  BY <1>3, <1>5

(* After a number is taken, only the entry of the flow is another one.       *)
LEMMA TakesOneEntry ==
    ASSUME ReasmInvariant, NEW t \in Tenants, NEW f \in Flows,
           NEW new, NEW first,
           Takes(t, f, new, first), TakeNumber(t, f, EntryBefore(t, f)),
           \A u \in Tenants \ {t} : pend'[u] = pend[u],
           pend'[t].busy => pend'[t].entry = EntryOf(t, f)
    PROVE  OnlyEntry(t, EntryOf(t, f))
<1> DEFINE e == EntryOf(t, f)
<1>1. ~pend[t].busy /\ lost' = lost
  BY DEF TakeNumber
<1>2. \A u \in Tenants, d \in Entries :
         Used(u, d)' <=> Used(u, d) \/ (u = t /\ d = e)
  BY TakeNumberUses DEF ReasmInvariant
<1>3. \A u \in Tenants, d \in Entries :
         (u # t \/ d # e) => /\ dataentry_map'[u][d] = dataentry_map[u][d]
                             /\ issued'[u][d] = issued[u][d]
  <2>1. /\ e \in Entries
        /\ dataentry_map \in [Tenants -> [Entries -> DataEntries]]
        /\ issued \in [Tenants -> [Entries -> SUBSET Nat]]
    BY DEF Takes, ReasmInvariant, ReasmTypes, TypeOK, DataEntries, History
  <2> DEFINE out == issued[t][e] \cup {first}
  <2>2. /\ dataentry_map' = [dataentry_map EXCEPT ![t][e] = new]
        /\ issued' = [issued EXCEPT ![t][e] = out]
    BY DEF Takes
  <2> HIDE DEF e, out
  <2> QED
    BY <2>1, <2>2
<1> HIDE DEF e
<1>4. OnlyEntry(t, e)
  BY <1>1, <1>2, <1>3 DEF OnlyEntry, e
<1> QED
  BY <1>4 DEF e

(* The expected number joins those kept, and the flow advances over them.    *)
LEMMA InSequenceKeepsEntries ==
    ASSUME ReasmInvariant, NEW t \in Tenants, NEW f \in Flows, InSequence(t, f)
    PROVE  EntriesAreSound' /\ PendingIsSound'
<1> DEFINE first == EntryBefore(t, f).planned_seqs[0]
<1>1. PICK new \in DataEntries : Advances(t, f, new)
  BY InSequenceTakes DEF ReasmInvariant
<1>2. PICK e \in Entries : e = EntryOf(t, f)
  BY <1>1 DEF Advances, Takes
<1>3. /\ Takes(t, f, new, first)
      /\ FlowIsSound(new, (issued[t][e] \ lost[t][e]) \cup {first})
  BY <1>1, <1>2 DEF Advances
<1>4. TakeNumber(t, f, EntryBefore(t, f)) /\ pend' = pend
  BY DEF InSequence
<1>5. ~pend[t].busy /\ ~pend'[t].busy
  BY <1>4 DEF TakeNumber
<1>6. OnlyEntry(t, e)
  BY <1>2, <1>3, <1>4, <1>5, TakesOneEntry
<1> HIDE DEF first
<1>7. /\ dataentry_map'[t][e] = new
      /\ issued'[t][e] = issued[t][e] \cup {first} /\ lost' = lost
  <2> DEFINE out == issued[t][e] \cup {first}
  <2>1. /\ dataentry_map' = [dataentry_map EXCEPT ![t][e] = new]
        /\ issued' = [issued EXCEPT ![t][e] = out] /\ lost' = lost
    BY <1>2, <1>3 DEF Takes
  <2>2. /\ dataentry_map \in [Tenants -> [Entries -> DataEntries]]
        /\ issued \in [Tenants -> [Entries -> SUBSET Nat]]
    BY DEF ReasmInvariant, ReasmTypes, TypeOK, DataEntries, History
  <2> HIDE DEF out
  <2>3. dataentry_map'[t][e] = new /\ issued'[t][e] = out
    BY <2>1, <2>2
  <2> QED
    BY <2>1, <2>3 DEF out
<1>8. /\ first \notin issued[t][e] /\ lost[t][e] \subseteq issued[t][e]
      /\ PlanIsSound(new, issued[t][e] \cup {first})
  BY <1>2, <1>3 DEF Takes
<1>9. Kept(t, e)' = (issued[t][e] \ lost[t][e]) \cup {first}
  BY <1>5, <1>7, <1>8 DEF Kept, Pending
<1>10. EntryIsSound(t, e)'
  BY <1>3, <1>7, <1>8, <1>9 DEF EntryIsSound
<1> QED
  BY <1>5, <1>6, <1>10, StaysSound DEF ReasmInvariant

(* A number that is not expected is out but not kept until it is saved.      *)
LEMMA OutOfSequenceKeepsEntries ==
    ASSUME ReasmInvariant, NEW t \in Tenants, NEW f \in Flows,
           OutOfSequence(t, f)
    PROVE  EntriesAreSound' /\ PendingIsSound'
<1> DEFINE entry == EntryBefore(t, f)
           first == entry.planned_seqs[0]
<1>1. PICK new \in DataEntries : Waits(t, f, new)
  BY OutOfSequenceTakes DEF ReasmInvariant
<1>0. PICK e \in Entries : e = EntryOf(t, f)
  BY <1>1 DEF Waits, Takes
<1>2. /\ Takes(t, f, new, first) /\ FlowIsSound(new, issued[t][e] \ lost[t][e])
      /\ first # new.next_expected_seq /\ FreeSeg(entry) = FreeSeg(new)
  BY <1>0, <1>1 DEF Waits
<1>3. TakeNumber(t, f, entry)
  BY DEF OutOfSequence
<1>4. PICK fits \in BOOLEAN :
         pend' = [pend EXCEPT ![t] =
                    [busy |-> TRUE, entry |-> e, seq |-> first,
                     seg_index |-> FreeSeg(entry),
                     pktbuf_index |-> FreePktbuf, fits |-> fits]]
  BY <1>0 DEF OutOfSequence
<1>5. /\ pend'[t].busy /\ pend'[t].entry = e /\ pend'[t].seq = first
      /\ pend'[t].seg_index = FreeSeg(new)
      /\ \A u \in Tenants \ {t} : pend'[u] = pend[u]
  BY <1>2, <1>4 DEF ReasmInvariant, ReasmTypes
<1>6. OnlyEntry(t, e)
  BY <1>0, <1>2, <1>3, <1>5, TakesOneEntry
<1> HIDE DEF first, entry
<1>7. /\ dataentry_map'[t][e] = new
      /\ issued'[t][e] = issued[t][e] \cup {first} /\ lost' = lost
  <2> DEFINE out == issued[t][e] \cup {first}
  <2>1. /\ dataentry_map' = [dataentry_map EXCEPT ![t][e] = new]
        /\ issued' = [issued EXCEPT ![t][e] = out] /\ lost' = lost
    BY <1>0, <1>2 DEF Takes
  <2>2. /\ dataentry_map \in [Tenants -> [Entries -> DataEntries]]
        /\ issued \in [Tenants -> [Entries -> SUBSET Nat]]
    BY DEF ReasmInvariant, ReasmTypes, TypeOK, DataEntries, History
  <2> HIDE DEF out
  <2>3. dataentry_map'[t][e] = new /\ issued'[t][e] = out
    BY <2>1, <2>2
  <2> QED
    BY <2>1, <2>3 DEF out
<1>8. /\ first \notin issued[t][e] /\ lost[t][e] \subseteq issued[t][e]
      /\ PlanIsSound(new, issued[t][e] \cup {first})
  BY <1>0, <1>2 DEF Takes
<1>9. Kept(t, e)' = issued[t][e] \ lost[t][e]
  <2>1. Pending(t, e)' = {first}
    BY <1>5 DEF Pending
  <2> QED
    BY <1>7, <1>8, <2>1 DEF Kept
<1>10. EntryIsSound(t, e)'
  BY <1>2, <1>7, <1>8, <1>9 DEF EntryIsSound
<1>11. PendIsSound(t)'
  <2>1. Used(t, e)'
    BY <1>6, <1>7 DEF OnlyEntry
  <2>2. FreeSeg(new) < BUFFERED_SEGS_SIZE
          => new.buffered_segs[FreeSeg(new)].seq = 0
    BY FreeSegIsFree
  <2>3. Used(t, pend[t].entry)'
    BY <1>5, <2>1 DEF Used
  <2>4. first \in issued'[t][e] \ lost'[t][e]
    BY <1>7, <1>8
  <2> QED
    BY <1>2, <1>5, <1>7, <2>2, <2>3, <2>4 DEF PendIsSound
<1> QED
  BY <1>6, <1>7, <1>10, <1>11, StaysSound DEF ReasmInvariant

(* A save concerns only the entry the handler has found.                     *)
LEMMA SaveKeepsEntries ==
    ASSUME ReasmInvariant, NEW t \in Tenants, Save(t)
    PROVE  EntriesAreSound' /\ PendingIsSound'
<1> DEFINE n == pend[t].seg_index
           s == pend[t].seq
           new == Saved(t)
<1>1. PICK e \in Entries : e = pend[t].entry
  BY SaveFills DEF ReasmInvariant
<1> DEFINE old == dataentry_map[t][e]
           kept == Kept(t, e)
<1>2. /\ pend' = [pend EXCEPT ![t] = Idle] /\ pend[t].busy
      /\ flowkey_map' = flowkey_map /\ issued' = issued /\ lost' = lost
      /\ HasPlace(pend[t])
  BY DEF Save
<1>3. ~pend'[t].busy /\ \A u \in Tenants \ {t} : pend'[u] = pend[u]
  BY <1>2, IdleIsTyped DEF ReasmInvariant
<1>4. /\ Used(t, e) /\ s \in issued[t][e] \ lost[t][e]
      /\ s # old.next_expected_seq
      /\ n < BUFFERED_SEGS_SIZE => old.buffered_segs[n].seq = 0
  BY <1>1, <1>2 DEF ReasmInvariant, PendingIsSound
<1>5. /\ PlanIsSound(old, issued[t][e]) /\ lost[t][e] \subseteq issued[t][e]
      /\ FlowIsSound(old, kept)
  BY <1>4 DEF ReasmInvariant, EntriesAreSound
<1>6. kept = issued[t][e] \ (lost[t][e] \cup {s})
  BY <1>1, <1>2 DEF Kept, Pending
<1>7. Kept(t, e)' = kept \cup {s}
  <2>1. Kept(t, e)' = issued[t][e] \ lost[t][e]
    BY <1>2, <1>3 DEF Kept, Pending
  <2> QED
    BY <1>4, <1>6, <2>1
<1>8. /\ n \in Segs /\ new \in DataEntries /\ s \in Nat \ {0}
      /\ \A u \in Tenants, d \in Entries :
           dataentry_map'[u][d] = IF u = t /\ d = e THEN new
                                                    ELSE dataentry_map[u][d]
      /\ new.next_expected_seq = old.next_expected_seq
      /\ new.next_generated_seq = old.next_generated_seq
      /\ new.planned_seqs = old.planned_seqs
      /\ \A i \in Segs : new.buffered_segs[i].seq
                           = IF i = n THEN s ELSE old.buffered_segs[i].seq
  <2>1. ReasmTypes
    BY DEF ReasmInvariant
  <2>2. /\ n \in Segs /\ new \in DataEntries /\ s \in Nat \ {0}
        /\ new.next_expected_seq = old.next_expected_seq
        /\ new.next_generated_seq = old.next_generated_seq
        /\ new.planned_seqs = old.planned_seqs
    BY <1>1, <2>1, SaveFills
  <2>3. \A i \in Segs :
          new.buffered_segs[i]
            = IF i = n THEN [seq |-> s, pktbuf_key |-> pend[t].pktbuf_index]
                       ELSE old.buffered_segs[i]
    BY <1>1, <2>1, SaveFills
  <2>4. \A u \in Tenants, d \in Entries :
           dataentry_map'[u][d] = IF u = t /\ d = pend[t].entry
                                  THEN Saved(t) ELSE dataentry_map[u][d]
    BY <2>1, SaveFills
  <2> HIDE DEF n, s, old
  <2>5. \A i \in Segs : new.buffered_segs[i].seq
                           = IF i = n THEN s ELSE old.buffered_segs[i].seq
    <3> HIDE DEF new
    <3> QED
      BY <2>3
  <2>6. \A u \in Tenants, d \in Entries :
           dataentry_map'[u][d] = IF u = t /\ d = e THEN new
                                                    ELSE dataentry_map[u][d]
    BY <1>1, <2>4
  <2> QED
    BY <2>2, <2>5, <2>6
<1>9. old.buffered_segs[n].seq = 0
  BY <1>2, <1>4 DEF HasPlace
<1> HIDE DEF new, n, s, old, kept
<1>10. BufferedSeqs(new) = BufferedSeqs(old) \cup {s}
  BY <1>8, <1>9 DEF BufferedSeqs
<1>11. FlowIsSound(new, kept \cup {s})
  <2>1. /\ old.next_expected_seq \in Nat /\ old.next_expected_seq > 0
        /\ 1 .. old.next_expected_seq - 1 \subseteq kept
        /\ old.next_expected_seq \notin kept
        /\ BufferedSeqs(old) = {x \in kept : x > old.next_expected_seq}
    BY <1>1, <1>5 DEF FlowIsSound, old, ReasmInvariant, ReasmTypes, TypeOK
  <2>2. s \notin kept
    BY <1>6
  <2>3. s > old.next_expected_seq
    <3>1. ~(s < old.next_expected_seq)
      BY <1>8, <2>1, <2>2
    <3> QED
      BY <1>4, <1>8, <2>1, <3>1
  <2> QED
    BY <1>4, <1>8, <1>10, <2>1, <2>3 DEF FlowIsSound
<1>12. PlanIsSound(new, issued[t][e])
  BY <1>5, <1>8 DEF PlanIsSound
<1>13. dataentry_map'[t][e] = new
  BY <1>8
<1>14. EntryIsSound(t, e)'
  BY <1>2, <1>5, <1>7, <1>11, <1>12, <1>13 DEF EntryIsSound
<1>15. OnlyEntry(t, e)
  <2>1. \A u \in Tenants, d \in Entries : Used(u, d)' <=> Used(u, d)
    BY <1>2 DEF Used
  <2> QED
    BY <1>1, <1>2, <1>3, <1>4, <1>8, <2>1 DEF OnlyEntry
<1> QED
  BY <1>3, <1>14, <1>15, StaysSound DEF ReasmInvariant

(* A number that is lost is no longer out, and was never kept.               *)
LEMMA LoseKeepsEntries ==
    ASSUME ReasmInvariant, NEW t \in Tenants, Lose(t)
    PROVE  EntriesAreSound' /\ PendingIsSound'
<1> DEFINE s == pend[t].seq
<1>1. PICK e \in Entries : e = pend[t].entry
  BY LoseKeepsTypes DEF ReasmInvariant
<1>2. /\ pend' = [pend EXCEPT ![t] = Idle] /\ pend[t].busy
      /\ flowkey_map' = flowkey_map /\ issued' = issued
      /\ dataentry_map' = dataentry_map
  BY DEF Lose
<1>3. ~pend'[t].busy /\ \A u \in Tenants \ {t} : pend'[u] = pend[u]
  BY <1>2, IdleIsTyped DEF ReasmInvariant
<1>4. Used(t, e) /\ s \in issued[t][e]
  BY <1>1, <1>2 DEF ReasmInvariant, PendingIsSound
<1>5. EntryIsSound(t, e)
  BY <1>4 DEF ReasmInvariant, EntriesAreSound, EntryIsSound
<1>6. \A u \in Tenants, d \in Entries :
         lost'[u][d] = IF u = t /\ d = e THEN lost[u][d] \cup {s}
                                         ELSE lost[u][d]
  BY <1>1, LoseKeepsTypes DEF ReasmInvariant
<1>7. Kept(t, e)' = Kept(t, e)
  BY <1>1, <1>2, <1>3, <1>6 DEF Kept, Pending
<1> HIDE DEF s
<1>8. lost'[t][e] = lost[t][e] \cup {s}
  BY <1>6
<1>9. EntryIsSound(t, e)'
  BY <1>2, <1>4, <1>5, <1>7, <1>8 DEF EntryIsSound
<1>10. OnlyEntry(t, e)
  <2>1. \A u \in Tenants, d \in Entries : Used(u, d)' <=> Used(u, d)
    BY <1>2 DEF Used
  <2>2. \A u \in Tenants, d \in Entries :
          (u # t \/ d # e) => lost'[u][d] = lost[u][d]
    BY <1>6
  <2>3. (pend[t].busy => pend[t].entry = e) /\ ~pend'[t].busy
    BY <1>1, <1>3
  <2> QED
    BY <1>2, <1>3, <1>4, <2>1, <2>2, <2>3 DEF OnlyEntry
<1> QED
  BY <1>3, <1>9, <1>10, StaysSound DEF ReasmInvariant

-----------------------------------------------------------------------------
(* The steps keep the packet buffers sound *)

(* Advancing releases the packet buffers of the segments it empties.         *)
LEMMA InSequenceKeepsPktbufs ==
    ASSUME ReasmInvariant, NEW t \in Tenants, NEW f \in Flows, InSequence(t, f)
    PROVE  PktbufsAreSound'
<1> DEFINE entry == EntryBefore(t, f)
           first == entry.planned_seqs[0]
<1>1. PICK new \in DataEntries : Advances(t, f, new)
  BY InSequenceTakes DEF ReasmInvariant
<1>2. PICK e \in Entries : e = EntryOf(t, f)
  BY <1>1 DEF Advances, Takes
<1>3. /\ ~BucketIsFull(t, f) /\ ~pend[t].busy
      /\ raced' = (raced \/ \E u \in Tenants : pend[u].busy)
      /\ pend' = pend /\ flag_pkt_buf' = Released(entry)
  BY DEF InSequence, TakeNumber
<1>4. /\ entry \in DataEntries
      /\ entry.buffered_segs = dataentry_map[t][e].buffered_segs
  BY <1>2, <1>3, EntryBeforeIsSound DEF IsSoundBefore, ReasmInvariant
<1> DEFINE old == dataentry_map[t][e].buffered_segs
           pulled == Pulled(entry)
<1>5. \A u \in Tenants, d \in Entries :
         dataentry_map'[u][d] = IF u = t /\ d = e THEN new
                                                  ELSE dataentry_map[u][d]
  <2>1. dataentry_map' = [dataentry_map EXCEPT ![t][e] = new]
    BY <1>1, <1>2 DEF Advances, Takes
  <2>2. dataentry_map \in [Tenants -> [Entries -> DataEntries]]
    BY DEF ReasmInvariant, ReasmTypes, TypeOK, DataEntries
  <2> QED
    BY <2>1, <2>2
<1>6. \A i \in Segs :
        /\ new.buffered_segs[i].pktbuf_key = old[i].pktbuf_key
        /\ new.buffered_segs[i].seq = IF i \in pulled THEN 0 ELSE old[i].seq
  BY <1>1, <1>2 DEF Advances, Takes
<1>7. \A i \in pulled : i \in Segs /\ old[i].seq # 0
  <2>1. entry.next_expected_seq \in Nat
    BY <1>4 DEF DataEntries
  <2> QED
    BY <1>4, <2>1 DEF Pulled
<1>8. \A k \in Pktbufs :
        flag_pkt_buf'[k]
          <=> flag_pkt_buf[k] /\ \A i \in pulled : old[i].pktbuf_key # k
  BY <1>3, <1>4 DEF Released
<1> HIDE DEF pulled, entry, old
<1>9. ASSUME NEW u \in Tenants, NEW d \in Entries, NEW i \in Segs,
             NEW k \in Pktbufs
      PROVE  Holds(u, d, i, k)'
               <=> Holds(u, d, i, k) /\ ~(u = t /\ d = e /\ i \in pulled)
  <2>1. CASE u = t /\ d = e
    BY <1>5, <1>6, <2>1 DEF Holds, old
  <2>2. CASE ~(u = t /\ d = e)
    BY <1>5, <2>2 DEF Holds
  <2> QED
    BY <2>1, <2>2
<1>10. \A i \in pulled : Holds(t, e, i, old[i].pktbuf_key)
  BY <1>7 DEF Holds, old
<1>11. MarkedAreHeld'
  <2> SUFFICES ASSUME NEW k \in Pktbufs, flag_pkt_buf'[k]
               PROVE  \E u \in Tenants, d \in Entries, i \in Segs :
                         Holds(u, d, i, k)'
    BY DEF MarkedAreHeld
  <2>1. PICK u \in Tenants, d \in Entries, i \in Segs : Holds(u, d, i, k)
    BY <1>8 DEF ReasmInvariant, PktbufsAreSound, MarkedAreHeld
  <2>2. ~(u = t /\ d = e /\ i \in pulled)
    BY <1>8, <2>1 DEF Holds, old
  <2>3. Holds(u, d, i, k)'
    BY <1>9, <2>1, <2>2
  <2> QED
    BY <2>3
<1>12. ASSUME ~raced'
       PROVE  HeldAreMarked' /\ HeldByOne' /\ FoundIsFree'
  <2>1. HeldAreMarked /\ HeldByOne /\ FoundIsFree
    BY <1>3, <1>12 DEF ReasmInvariant, PktbufsAreSound
  <2>2. HeldAreMarked'
    <3> SUFFICES ASSUME NEW k \in Pktbufs, NEW u \in Tenants, NEW d \in Entries,
                        NEW i \in Segs, Holds(u, d, i, k)'
                 PROVE  flag_pkt_buf'[k]
      BY DEF HeldAreMarked
    <3>1. Holds(u, d, i, k) /\ ~(u = t /\ d = e /\ i \in pulled)
      BY <1>9
    <3>2. ASSUME NEW j \in pulled, old[j].pktbuf_key = k
          PROVE  FALSE
      <4>1. Holds(t, e, j, k) /\ j \in Segs
        BY <1>7, <1>10, <3>2
      <4> QED
        BY <2>1, <3>1, <4>1 DEF HeldByOne
    <3>3. flag_pkt_buf[k]
      BY <2>1, <3>1 DEF HeldAreMarked
    <3> QED
      BY <1>8, <3>2, <3>3
  <2>3. HeldByOne'
    BY <1>9, <2>1 DEF HeldByOne
  <2>4. FoundIsFree'
    BY <1>3, <1>8, <2>1 DEF FoundIsFree
  <2> QED
    BY <2>2, <2>3, <2>4
<1> QED
  BY <1>11, <1>12 DEF PktbufsAreSound

(* A step that leaves the segments and the marks alone.                      *)
LEMMA SegmentsAreKept ==
    ASSUME ReasmInvariant,
           \A u \in Tenants, d \in Entries, i \in Segs, k \in Pktbufs :
              Holds(u, d, i, k)' <=> Holds(u, d, i, k),
           flag_pkt_buf' = flag_pkt_buf,
           ~raced' => ~raced /\ FoundIsFree'
    PROVE  PktbufsAreSound'
<1>1. MarkedAreHeld'
  BY DEF ReasmInvariant, PktbufsAreSound, MarkedAreHeld
<1>2. ASSUME ~raced'
      PROVE  HeldAreMarked' /\ HeldByOne'
  <2>1. HeldAreMarked /\ HeldByOne
    BY <1>2 DEF ReasmInvariant, PktbufsAreSound
  <2> QED
    BY <2>1 DEF HeldAreMarked, HeldByOne
<1> QED
  BY <1>1, <1>2 DEF PktbufsAreSound

(* A handler that is alone looks for a packet buffer.                        *)
LEMMA OutOfSequenceKeepsPktbufs ==
    ASSUME ReasmInvariant, NEW t \in Tenants, NEW f \in Flows,
           OutOfSequence(t, f)
    PROVE  PktbufsAreSound'
<1>1. PICK new \in DataEntries : Waits(t, f, new)
  BY OutOfSequenceTakes DEF ReasmInvariant
<1>2. PICK e \in Entries : e = EntryOf(t, f)
  BY <1>1 DEF Waits, Takes
<1>3. /\ raced' = (raced \/ \E u \in Tenants : pend[u].busy)
      /\ flag_pkt_buf' = flag_pkt_buf
  BY DEF OutOfSequence, TakeNumber
<1>4. /\ pend'[t].pktbuf_index = FreePktbuf
      /\ \A u \in Tenants \ {t} : pend'[u] = pend[u]
  <2> DEFINE entry == EntryBefore(t, f)
  <2>1. PICK fits \in BOOLEAN :
          pend' = [pend EXCEPT ![t] =
                     [busy |-> TRUE, entry |-> e, seq |-> entry.planned_seqs[0],
                      seg_index |-> FreeSeg(entry),
                      pktbuf_index |-> FreePktbuf, fits |-> fits]]
    BY <1>2 DEF OutOfSequence
  <2> HIDE DEF entry
  <2> QED
    BY <2>1 DEF ReasmInvariant, ReasmTypes
<1>5. dataentry_map' = [dataentry_map EXCEPT ![t][e] = new]
      /\ new.buffered_segs = dataentry_map[t][e].buffered_segs
  BY <1>1, <1>2 DEF Waits, Takes
<1>6. \A u \in Tenants, d \in Entries, i \in Segs, k \in Pktbufs :
         Holds(u, d, i, k)' <=> Holds(u, d, i, k)
  <2>1. dataentry_map \in [Tenants -> [Entries -> DataEntries]]
    BY DEF ReasmInvariant, ReasmTypes, TypeOK, DataEntries
  <2>2. \A u \in Tenants, d \in Entries :
          dataentry_map'[u][d].buffered_segs = dataentry_map[u][d].buffered_segs
    BY <1>5, <2>1
  <2> QED
    BY <2>2 DEF Holds
<1>7. ASSUME ~raced'
      PROVE  FoundIsFree'
  <2>1. \A u \in Tenants \ {t} : ~pend'[u].busy
    BY <1>3, <1>4, <1>7
  <2>2. FreePktbuf \in Pktbufs => ~flag_pkt_buf'[FreePktbuf]
    BY <1>3, FreePktbufIsFree
  <2> QED
    BY <1>4, <2>1, <2>2 DEF FoundIsFree
<1> QED
  BY <1>3, <1>6, <1>7, SegmentsAreKept

(* Losing a packet leaves all segments alone.                                *)
LEMMA LoseKeepsPktbufs ==
    ASSUME ReasmInvariant, NEW t \in Tenants, Lose(t)
    PROVE  PktbufsAreSound'
<1>1. /\ pend' = [pend EXCEPT ![t] = Idle] /\ raced' = raced
      /\ dataentry_map' = dataentry_map /\ flag_pkt_buf' = flag_pkt_buf
  BY DEF Lose
<1>2. ~pend'[t].busy /\ \A u \in Tenants \ {t} : pend'[u] = pend[u]
  BY <1>1, IdleIsTyped DEF ReasmInvariant
<1>3. \A u \in Tenants, d \in Entries, i \in Segs, k \in Pktbufs :
         Holds(u, d, i, k)' <=> Holds(u, d, i, k)
  BY <1>1 DEF Holds
<1>4. FoundIsFree => FoundIsFree'
  BY <1>1, <1>2 DEF FoundIsFree
<1>5. ~raced => FoundIsFree
  BY DEF ReasmInvariant, PktbufsAreSound
<1> QED
  BY <1>1, <1>3, <1>4, <1>5, SegmentsAreKept

(* A save fills an empty segment; without a race, from a free packet buffer. *)
LEMMA SaveKeepsPktbufs ==
    ASSUME ReasmInvariant, NEW t \in Tenants, Save(t)
    PROVE  PktbufsAreSound'
<1> DEFINE n == pend[t].seg_index
           b == pend[t].pktbuf_index
           s == pend[t].seq
           new == Saved(t)
<1>1. PICK e \in Entries : e = pend[t].entry
  BY SaveFills DEF ReasmInvariant
<1>2. /\ pend' = [pend EXCEPT ![t] = Idle] /\ pend[t].busy /\ raced' = raced
      /\ flag_pkt_buf' = [flag_pkt_buf EXCEPT ![b] = TRUE]
      /\ n < BUFFERED_SEGS_SIZE
  BY DEF Save, HasPlace
<1>3. ~pend'[t].busy /\ \A u \in Tenants \ {t} : pend'[u] = pend[u]
  BY <1>2, IdleIsTyped DEF ReasmInvariant
<1>4. dataentry_map[t][e].buffered_segs[n].seq = 0
  BY <1>1, <1>2 DEF ReasmInvariant, PendingIsSound
<1>5. n \in Segs /\ b \in Pktbufs /\ s # 0
  BY SaveFills DEF ReasmInvariant
<1>6. /\ dataentry_map'[t][e] = new
      /\ \A u \in Tenants, d \in Entries :
           ~(u = t /\ d = e) => dataentry_map'[u][d] = dataentry_map[u][d]
  <2>1. \A u \in Tenants, d \in Entries :
           dataentry_map'[u][d] = IF u = t /\ d = pend[t].entry
                                  THEN Saved(t) ELSE dataentry_map[u][d]
    BY SaveFills DEF ReasmInvariant
  <2> QED
    BY <1>1, <2>1
<1>7. \A i \in Segs :
         new.buffered_segs[i] = IF i = n THEN [seq |-> s, pktbuf_key |-> b]
                                ELSE dataentry_map[t][e].buffered_segs[i]
  BY <1>1, SaveFills DEF ReasmInvariant
<1>8. /\ flag_pkt_buf'[b] = TRUE
      /\ \A k \in Pktbufs \ {b} : flag_pkt_buf'[k] = flag_pkt_buf[k]
  BY <1>2, <1>5 DEF ReasmInvariant, ReasmTypes, TypeOK
<1> HIDE DEF new, n, b, s
<1>9. ASSUME NEW u \in Tenants, NEW d \in Entries, NEW i \in Segs,
             NEW k \in Pktbufs
      PROVE  Holds(u, d, i, k)'
               <=> Holds(u, d, i, k) \/ (u = t /\ d = e /\ i = n /\ k = b)
  <2>1. CASE u = t /\ d = e /\ i = n
    BY <1>4, <1>5, <1>6, <1>7, <2>1 DEF Holds
  <2>2. CASE u = t /\ d = e /\ i # n
    <3>1. new.buffered_segs[i] = dataentry_map[t][e].buffered_segs[i]
      BY <1>7, <2>2
    <3> QED
      BY <1>6, <2>2, <3>1 DEF Holds
  <2>3. CASE ~(u = t /\ d = e)
    BY <1>6, <2>3 DEF Holds
  <2> QED
    BY <2>1, <2>2, <2>3
<1>10. MarkedAreHeld'
  <2> SUFFICES ASSUME NEW k \in Pktbufs, flag_pkt_buf'[k]
               PROVE  \E u \in Tenants, d \in Entries, i \in Segs :
                         Holds(u, d, i, k)'
    BY DEF MarkedAreHeld
  <2>1. CASE k = b
    BY <1>5, <1>9, <2>1
  <2>2. CASE k # b
    <3>1. PICK u \in Tenants, d \in Entries, i \in Segs : Holds(u, d, i, k)
      BY <1>8, <2>2 DEF ReasmInvariant, PktbufsAreSound, MarkedAreHeld
    <3>2. Holds(u, d, i, k)'
      BY <1>9, <3>1
    <3> QED
      BY <3>2
  <2> QED
    BY <2>1, <2>2
<1>11. ASSUME ~raced'
       PROVE  HeldAreMarked' /\ HeldByOne' /\ FoundIsFree'
  <2>1. HeldAreMarked /\ HeldByOne /\ FoundIsFree
    BY <1>2, <1>11 DEF ReasmInvariant, PktbufsAreSound
  <2>2. HeldAreMarked'
    BY <1>8, <1>9, <2>1 DEF HeldAreMarked
  <2>3. ~flag_pkt_buf[b]
    BY <1>2, <1>5, <2>1 DEF FoundIsFree, b
  <2>4. \A u \in Tenants, d \in Entries, i \in Segs : ~Holds(u, d, i, b)
    BY <1>5, <2>1, <2>3 DEF HeldAreMarked
  <2>5. HeldByOne'
    BY <1>9, <2>1, <2>4 DEF HeldByOne
  <2>6. FoundIsFree'
    <3>1. \A u \in Tenants : ~pend'[u].busy
      BY <1>2, <1>3, <2>1 DEF FoundIsFree
    <3> QED
      BY <3>1 DEF FoundIsFree
  <2> QED
    BY <2>2, <2>5, <2>6
<1> QED
  BY <1>10, <1>11 DEF PktbufsAreSound

-----------------------------------------------------------------------------
(* The invariant is inductive *)

(* The zeroed tables are sound.                                              *)
LEMMA InitIsSound ==
    Init => ReasmInvariant
<1> SUFFICES ASSUME Init
             PROVE  ReasmInvariant
  OBVIOUS
<1> USE DEF Init
<1>1. Zeroed \in DataEntries /\ \A i \in Segs : Zeroed.buffered_segs[i].seq = 0
  BY DEF Zeroed, DataEntries
<1>2. \A t \in Tenants, b \in Buckets :
        flowkey_map[t][b] = << >> /\ Len(flowkey_map[t][b]) = 0
  OBVIOUS
<1>3. \A t \in Tenants, e \in Entries :
        /\ dataentry_map[t][e] = Zeroed
        /\ issued[t][e] = {} /\ lost[t][e] = {}
  OBVIOUS
<1>4. \A t \in Tenants : pend[t] = Idle /\ ~pend[t].busy
  BY DEF Idle
<1>5. ReasmTypes
  <2>1. /\ flowkey_map \in [Tenants -> [Buckets -> Seq(Flows)]]
        /\ \A t \in Tenants, b \in Buckets :
              Len(flowkey_map[t][b]) <= RE_BUCKET_SIZE
    BY <1>2, ReasmAssumption
  <2>2. dataentry_map \in [Tenants -> [Entries -> DataEntries]]
    <3> HIDE DEF Zeroed
    <3> QED
      BY <1>1
  <2>3. /\ flag_pkt_buf \in [Pktbufs -> BOOLEAN]
        /\ fault \in BOOLEAN /\ raced \in BOOLEAN /\ traffic \in Traffics
        /\ DOMAIN pend = Tenants /\ issued \in History /\ lost \in History
    BY DEF History
  <2> QED
    BY <1>4, <2>1, <2>2, <2>3 DEF ReasmTypes, TypeOK, DataEntries
<1>6. FlowsHaveOneEntry
  BY <1>2 DEF FlowsHaveOneEntry
<1>7. EntriesAreSound
  <2>1. \A t \in Tenants, e \in Entries : ~Used(t, e)
    BY <1>2, ReasmAssumption DEF Used, Entries
  <2> QED
    BY <1>3, <2>1 DEF EntriesAreSound
<1>8. PendingIsSound
  BY <1>4 DEF PendingIsSound
<1>9. PktbufsAreSound
  <2>1. \A t \in Tenants, e \in Entries, i \in Segs, k \in Pktbufs :
           ~Holds(t, e, i, k)
    BY <1>1, <1>3 DEF Holds
  <2>2. \A k \in Pktbufs : ~flag_pkt_buf[k]
    OBVIOUS
  <2> QED
    BY <1>4, <2>1, <2>2
       DEF PktbufsAreSound, MarkedAreHeld, HeldAreMarked, HeldByOne, FoundIsFree
<1> QED
  BY <1>5, <1>6, <1>7, <1>8, <1>9 DEF ReasmInvariant

(* A fault leaves the state alone as far as it is followed.                  *)
LEMMA NothingChanges ==
    ASSUME ReasmInvariant, fault' \in BOOLEAN,
           UNCHANGED <<flowkey_map, dataentry_map, flag_pkt_buf, pend, issued,
                       lost, raced, traffic>>
    PROVE  ReasmInvariant'
<1>1. ReasmTypes'
  BY DEF ReasmInvariant, ReasmTypes, TypeOK, History
<1>2. FlowsHaveOneEntry'
  BY DEF ReasmInvariant, FlowsHaveOneEntry
<1>3. EntriesAreSound'
  <2>1. \A t \in Tenants, e \in Entries :
          (Used(t, e)' <=> Used(t, e)) /\ Kept(t, e)' = Kept(t, e)
    BY DEF Used, Kept, Pending
  <2> QED
    BY <2>1 DEF ReasmInvariant, EntriesAreSound
<1>4. PendingIsSound'
  BY DEF ReasmInvariant, PendingIsSound, Used
<1>5. PktbufsAreSound'
  BY DEF ReasmInvariant, PktbufsAreSound, MarkedAreHeld, HeldAreMarked,
         HeldByOne, FoundIsFree, Holds
<1> QED
  BY <1>1, <1>2, <1>3, <1>4, <1>5 DEF ReasmInvariant

(* Every step of every handler keeps the invariant.                          *)
LEMMA NextIsSound ==
    ReasmInvariant /\ [Next]_vars => ReasmInvariant'
<1> SUFFICES ASSUME ReasmInvariant, [Next]_vars
             PROVE  ReasmInvariant'
  OBVIOUS
<1>1. CASE UNCHANGED vars
  BY <1>1, NothingChanges DEF vars, ReasmInvariant, ReasmTypes, TypeOK
<1>2. ASSUME NEW t \in Tenants, NEW f \in Flows, InSequence(t, f)
      PROVE  ReasmInvariant'
  BY <1>2, InSequenceKeepsTypes, InSequenceKeepsEntries,
     InSequenceKeepsPktbufs DEF ReasmInvariant
<1>3. ASSUME NEW t \in Tenants, NEW f \in Flows, OutOfSequence(t, f)
      PROVE  ReasmInvariant'
  BY <1>3, OutOfSequenceKeepsTypes, OutOfSequenceKeepsEntries,
     OutOfSequenceKeepsPktbufs DEF ReasmInvariant
<1>4. ASSUME NEW t \in Tenants, NEW f \in Flows, OutsideTable(t, f)
      PROVE  ReasmInvariant'
  BY <1>4, NothingChanges DEF OutsideTable
<1>5. ASSUME NEW t \in Tenants, Save(t)
      PROVE  ReasmInvariant'
  BY <1>5, SaveKeepsTypes, SaveKeepsEntries, SaveKeepsPktbufs
     DEF ReasmInvariant
<1>6. ASSUME NEW t \in Tenants, Lose(t)
      PROVE  ReasmInvariant'
  BY <1>6, LoseKeepsTypes, LoseKeepsEntries, LoseKeepsPktbufs
     DEF ReasmInvariant
<1> QED
  BY <1>1, <1>2, <1>3, <1>4, <1>5, <1>6 DEF Next, Handle, Stopped

(* So it holds at all times.                                                 *)
LEMMA ReasmStaysSound ==
    Spec => []ReasmInvariant
BY InitIsSound, NextIsSound, PTL DEF Spec

-----------------------------------------------------------------------------
(* What the invariant says about flows, plans and packet buffers *)

(* A flow whose key is in the table has an entry of its own, which is used.  *)
LEMMA FlowsInUseHaveEntries ==
    ASSUME ReasmTypes, NEW t \in Tenants, NEW f \in Flows, InUse(t, f)
    PROVE  EntryOf(t, f) \in Entries /\ Used(t, EntryOf(t, f))
<1> DEFINE len == Len(flowkey_map[t][HashFlowkey[f]])
<1>1. /\ HashFlowkey[f] \in Buckets /\ len \in Nat /\ BucketIndex(t, f) \in Nat
      /\ BucketIndex(t, f) + 1 \in 1 .. len
  BY EntryIsFound
<1>2. len <= RE_BUCKET_SIZE /\ RE_BUCKET_SIZE \in Nat
  BY <1>1, ReasmAssumption DEF ReasmTypes, TypeOK
<1> HIDE DEF len
<1>3. ~BucketIsFull(t, f)
  BY <1>1, <1>2 DEF BucketIsFull
<1> QED
  BY <1>3, EntryIsInTable

(* A plan without repetitions has PLANNED_SEQ_SIZE numbers.                  *)
LEMMA InvariantHasPlans ==
    ReasmInvariant => PlanIsComplete
<1> SUFFICES ASSUME ReasmInvariant, NEW t \in Tenants, NEW f \in Flows,
                    InUse(t, f)
             PROVE  LET entry == dataentry_map[t][EntryOf(t, f)]
                        planned == {entry.planned_seqs[i] : i \in Plan}
                    IN  /\ planned \cup issued[t][EntryOf(t, f)]
                             = 1 .. entry.next_generated_seq - 1
                        /\ planned \cap issued[t][EntryOf(t, f)] = {}
                        /\ Cardinality(planned) = PLANNED_SEQ_SIZE
  BY DEF PlanIsComplete
<1> DEFINE entry == dataentry_map[t][EntryOf(t, f)]
           planned == {entry.planned_seqs[i] : i \in Plan}
           plan == [i \in Plan |-> entry.planned_seqs[i]]
<1>1. PlanIsSound(entry, issued[t][EntryOf(t, f)])
  BY FlowsInUseHaveEntries DEF ReasmInvariant, EntriesAreSound
<1>2. \A i, j \in Plan : entry.planned_seqs[i] = entry.planned_seqs[j] => i = j
  BY <1>1 DEF PlanIsSound
<1>3. plan \in Surjection(Plan, planned) /\ plan \in Injection(Plan, planned)
  <2>1. plan \in [Plan -> planned]
    OBVIOUS
  <2>2. \A i, j \in Plan : plan[i] = plan[j] => i = j
    BY <1>2
  <2>3. \A x \in planned : \E i \in Plan : plan[i] = x
    OBVIOUS
  <2> HIDE DEF plan, planned
  <2> QED
    BY <2>1, <2>2, <2>3 DEF Injection, Surjection, IsInjective
<1>4. IsFiniteSet(Plan) /\ Cardinality(Plan) = PLANNED_SEQ_SIZE
  BY ReasmAssumption, FS_Interval DEF Plan
<1>5. Cardinality(planned) = PLANNED_SEQ_SIZE
  BY <1>3, <1>4, FS_Surjection
<1> QED
  BY <1>1, <1>5 DEF PlanIsSound

(* A flow whose key is in the table is sound.                                *)
LEMMA InvariantHasOrder ==
    ReasmInvariant => FlowsAdvanceInOrder
<1> SUFFICES ASSUME ReasmInvariant, NEW t \in Tenants, NEW f \in Flows,
                    InUse(t, f)
             PROVE  FlowIsSound(dataentry_map[t][EntryOf(t, f)],
                                Kept(t, EntryOf(t, f)))
  BY DEF FlowsAdvanceInOrder, FlowIsSound
<1> QED
  BY FlowsInUseHaveEntries DEF ReasmInvariant, EntriesAreSound

(* A packet buffer with one holder at most has a set of holders of that size.*)
LEMMA InvariantHasPktbufs ==
    ReasmInvariant => PktbufsAreAccountedFor
<1> SUFFICES ASSUME ReasmInvariant
             PROVE  PktbufsAreAccountedFor
  OBVIOUS
<1>1. ASSUME NEW k \in Pktbufs
      PROVE  /\ \A h \in Holders(k) : /\ h \in Tenants \X Entries \X Segs
                                      /\ Holds(h[1], h[2], h[3], k)
             /\ \A t \in Tenants, e \in Entries, i \in Segs :
                  Holds(t, e, i, k) => <<t, e, i>> \in Holders(k)
  BY DEF Holders, Holds
<1>2. NoPktbufLeaks
  <2> SUFFICES ASSUME NEW k \in Pktbufs, flag_pkt_buf[k]
               PROVE  Holders(k) # {}
    BY DEF NoPktbufLeaks
  <2> QED
    BY <1>1 DEF ReasmInvariant, PktbufsAreSound, MarkedAreHeld
<1>3. ASSUME ~raced, NEW k \in Pktbufs
      PROVE  /\ Cardinality(Holders(k)) <= 1
             /\ Holders(k) # {} => flag_pkt_buf[k]
  <2>1. HeldAreMarked /\ HeldByOne
    BY <1>3 DEF ReasmInvariant, PktbufsAreSound
  <2>2. ASSUME NEW g \in Holders(k), NEW h \in Holders(k)
        PROVE  g = h
    <3>1. /\ g \in Tenants \X Entries \X Segs /\ Holds(g[1], g[2], g[3], k)
          /\ h \in Tenants \X Entries \X Segs /\ Holds(h[1], h[2], h[3], k)
      BY <1>1
    <3>2. g[1] = h[1] /\ g[2] = h[2] /\ g[3] = h[3]
      BY <2>1, <3>1 DEF HeldByOne
    <3> QED
      BY <3>1, <3>2
  <2>3. Cardinality(Holders(k)) <= 1
    <3>1. CASE Holders(k) = {}
      BY <3>1, FS_EmptySet
    <3>2. CASE Holders(k) # {}
      <4>1. PICK h \in Holders(k) : Holders(k) = {h}
        BY <2>2, <3>2
      <4>2. Cardinality({h}) = 1
        BY FS_Singleton
      <4> QED
        BY <4>1, <4>2
    <3> QED
      BY <3>1, <3>2
  <2>4. Holders(k) # {} => flag_pkt_buf[k]
    BY <1>1, <2>1 DEF HeldAreMarked
  <2> QED
    BY <2>3, <2>4
<1>4. PktbufsAreExclusive
  BY <1>3 DEF PktbufsAreExclusive
<1> QED
  BY <1>2, <1>4 DEF PktbufsAreAccountedFor

(* Every table stays typed, with one entry for a flow; shuffling loses no    *)
(* number and duplicates none, however far the swaps reach.                  *)
THEOREM PlansStayComplete ==
    Spec => []TablesAreConsistent
<1>1. ReasmInvariant => TablesAreConsistent
  BY InvariantHasPlans DEF TablesAreConsistent, ReasmInvariant, ReasmTypes
<1> QED
  BY <1>1, ReasmStaysSound, PTL

(* In whatever order the numbers come and whichever are lost, a flow has     *)
(* advanced over exactly the unbroken run of the numbers it has kept.        *)
THEOREM FlowsStayInOrder ==
    Spec => []FlowsAdvanceInOrder
BY ReasmStaysSound, InvariantHasOrder, PTL

(* Handlers of any number of tenants leak no packet buffer, and as long as   *)
(* they have not raced share none.                                           *)
THEOREM PktbufsStayAccountedFor ==
    Spec => []PktbufsAreAccountedFor
BY ReasmStaysSound, InvariantHasPktbufs, PTL

=============================================================================
