---------------------------- MODULE CustodyProofs ----------------------------
(* What batching, cutting, filtering and moving sequences do to the number   *)
(* of copies in them, for any sequences and any finite family of them.       *)
EXTENDS Custody, FiniteSetTheorems, FunctionTheorems, SequenceTheorems,
        WellFoundedInduction, TLAPS

-----------------------------------------------------------------------------
(* One sequence *)

(* Cardinalities of disjoint sets add up.                                    *)
LEMMA DisjointUnion ==
    ASSUME NEW A, NEW B, IsFiniteSet(A), IsFiniteSet(B), A \cap B = {}
    PROVE  Cardinality(A \cup B) = Cardinality(A) + Cardinality(B)
<1>1. Cardinality(A \cup B)
        = Cardinality(A) + Cardinality(B) - Cardinality(A \cap B)
  BY FS_Union
<1>2. Cardinality(A \cap B) = 0
  BY FS_EmptySet
<1>3. Cardinality(A) \in Nat /\ Cardinality(B) \in Nat
  BY FS_CardinalityType
<1> QED
  BY <1>1, <1>2, <1>3

(* The places are positions of s, and finitely many.                         *)
LEMMA PlacesAreFinite ==
    ASSUME NEW m, NEW S, NEW s \in Seq(S)
    PROVE  /\ Places(m, s) \subseteq 1 .. Len(s)
           /\ IsFiniteSet(Places(m, s))
           /\ Occurrences(m, s) = Cardinality(Places(m, s))
           /\ Occurrences(m, s) \in Nat
<1>1. IsFiniteSet(1 .. Len(s))
  BY FS_Interval
<1>2. Places(m, s) \subseteq 1 .. Len(s)
  BY DEF Places
<1>3. IsFiniteSet(Places(m, s))
  BY <1>1, <1>2, FS_Subset
<1>4. Occurrences(m, s) = Cardinality(Places(m, s))
  BY DEF Occurrences
<1> QED
  BY <1>2, <1>3, <1>4, FS_CardinalityType

(* A packet is in a sequence when it occurs in it at least once.             *)
LEMMA OccursSomewhere ==
    ASSUME NEW m, NEW S, NEW s \in Seq(S)
    PROVE  Occurrences(m, s) = 0 <=> \A i \in DOMAIN s : s[i] # m
<1>1. Occurrences(m, s) = 0 <=> Places(m, s) = {}
  BY PlacesAreFinite, FS_EmptySet
<1> QED
  BY <1>1 DEF Places

(* Putting the mbufs of a sequence in a bag leaves a bag.                    *)
LEMMA PutIsBag ==
    ASSUME NEW T, NEW b \in [T -> Nat], NEW S, NEW s \in Seq(S)
    PROVE  /\ Put(b, s) \in [T -> Nat]
           /\ \A m \in T : Put(b, s)[m] = b[m] + Occurrences(m, s)
<1>1. DOMAIN b = T
  OBVIOUS
<1>2. Put(b, s) = [m \in T |-> b[m] + Occurrences(m, s)]
  BY <1>1 DEF Put
<1>3. ASSUME NEW m \in T
      PROVE  b[m] + Occurrences(m, s) \in Nat
  <2>1. Occurrences(m, s) \in Nat
    BY PlacesAreFinite
  <2>2. b[m] \in Nat
    OBVIOUS
  <2> QED
    BY <2>1, <2>2
<1> QED
  BY <1>2, <1>3

(* Two sequences put one after the other have the copies of both.            *)
LEMMA OccurrencesOfConcat ==
    ASSUME NEW m, NEW S, NEW s \in Seq(S), NEW r \in Seq(S)
    PROVE  Occurrences(m, s \o r) = Occurrences(m, s) + Occurrences(m, r)
<1> DEFINE front == Places(m, s)
           shifted == {i \in Len(s) + 1 .. Len(s) + Len(r) : r[i - Len(s)] = m}
           shift == [i \in Places(m, r) |-> i + Len(s)]
<1>1. Len(s) \in Nat /\ Len(r) \in Nat
  OBVIOUS
<1>2. Places(m, s \o r) = front \cup shifted
  <2>1. /\ DOMAIN (s \o r) = 1 .. Len(s) + Len(r)
        /\ \A i \in 1 .. Len(s) + Len(r) :
              (s \o r)[i] = IF i <= Len(s) THEN s[i] ELSE r[i - Len(s)]
    BY ConcatProperties
  <2>2. DOMAIN s = 1 .. Len(s)
    OBVIOUS
  <2>3. ASSUME NEW i \in Places(m, s \o r)
        PROVE  i \in front \cup shifted
    BY <1>1, <2>1, <2>2, <2>3 DEF Places
  <2>4. ASSUME NEW i \in front \cup shifted
        PROVE  i \in Places(m, s \o r)
    BY <1>1, <2>1, <2>2, <2>4 DEF Places
  <2> QED
    BY <2>3, <2>4
<1>3. shift \in Bijection(Places(m, r), shifted)
  <2>1. shift \in [Places(m, r) -> shifted]
    BY <1>1, PlacesAreFinite DEF Places
  <2>2. \A i, j \in Places(m, r) : shift[i] = shift[j] => i = j
    BY <1>1, PlacesAreFinite
  <2>3. ASSUME NEW j \in shifted
        PROVE  \E i \in Places(m, r) : shift[i] = j
    <3>1. j - Len(s) \in Places(m, r)
      BY <1>1 DEF Places
    <3>2. shift[j - Len(s)] = j
      BY <1>1, <3>1
    <3> QED
      BY <3>1, <3>2
  <2> QED
    BY <2>1, <2>2, <2>3, Fun_IsBij
<1>4. IsFiniteSet(shifted) /\ Cardinality(shifted) = Occurrences(m, r)
  BY <1>3, PlacesAreFinite, FS_Bijection DEF ExistsBijection
<1>5. front \cap shifted = {}
  BY <1>1, PlacesAreFinite
<1>6. IsFiniteSet(front) /\ Cardinality(front) = Occurrences(m, s)
  BY PlacesAreFinite
<1> HIDE DEF front, shifted, shift
<1>7. Cardinality(front \cup shifted)
        = Cardinality(front) + Cardinality(shifted)
  BY <1>4, <1>5, <1>6, DisjointUnion
<1>8. s \o r \in Seq(S)
  BY ConcatProperties
<1> QED
  BY <1>2, <1>4, <1>6, <1>7, <1>8, PlacesAreFinite

LEMMA OccurrencesOfEmpty ==
    ASSUME NEW m
    PROVE  Occurrences(m, <<>>) = 0
<1>1. Places(m, <<>>) = {}
  BY DEF Places
<1> QED
  BY <1>1, FS_EmptySet DEF Occurrences

(* One more packet is one more copy of it and of no other.                   *)
LEMMA OccurrencesOfAppend ==
    ASSUME NEW m, NEW S, NEW s \in Seq(S), NEW x \in S
    PROVE  Occurrences(m, Append(s, x))
             = Occurrences(m, s) + (IF x = m THEN 1 ELSE 0)
<1>1. Append(s, x) = s \o <<x>> /\ <<x>> \in Seq(S)
  BY AppendIsConcat
<1>2. Places(m, <<x>>) = IF x = m THEN {1} ELSE {}
  BY DEF Places
<1>3. Occurrences(m, <<x>>) = IF x = m THEN 1 ELSE 0
  <2>1. Cardinality({1}) = 1 /\ Cardinality({}) = 0
    BY FS_Singleton, FS_EmptySet
  <2>2. Occurrences(m, <<x>>) = Cardinality(Places(m, <<x>>))
    BY <1>1, PlacesAreFinite
  <2> QED
    BY <1>2, <2>1, <2>2
<1>4. Occurrences(m, s \o <<x>>) = Occurrences(m, s) + Occurrences(m, <<x>>)
  BY <1>1, OccurrencesOfConcat
<1> QED
  BY <1>1, <1>3, <1>4

(* A sequence cut in two keeps its copies.                                   *)
LEMMA OccurrencesOfCut ==
    ASSUME NEW m, NEW S, NEW s \in Seq(S), NEW n \in 0 .. Len(s)
    PROVE  /\ SubSeq(s, 1, n) \in Seq(S)
           /\ SubSeq(s, n + 1, Len(s)) \in Seq(S)
           /\ Len(SubSeq(s, 1, n)) = n
           /\ Len(SubSeq(s, n + 1, Len(s))) = Len(s) - n
           /\ Occurrences(m, s) = Occurrences(m, SubSeq(s, 1, n))
                                    + Occurrences(m, SubSeq(s, n + 1, Len(s)))
<1>1. /\ SubSeq(s, 1, n) \in Seq(S) /\ SubSeq(s, n + 1, Len(s)) \in Seq(S)
      /\ Len(SubSeq(s, 1, n)) = n
      /\ Len(SubSeq(s, n + 1, Len(s))) = Len(s) - n
  BY SubSeqProperties
<1>2. SubSeq(s, 1, n) \o SubSeq(s, n + 1, Len(s)) = SubSeq(s, 1, Len(s))
  <2>1. /\ 1 \in 1 .. Len(s) + 1
        /\ n \in 1 - 1 .. Len(s)
        /\ Len(s) \in n .. Len(s)
    OBVIOUS
  <2> QED
    BY <2>1, ConcatAdjacentSubSeq
<1> DEFINE front == SubSeq(s, 1, n)
           rest == SubSeq(s, n + 1, Len(s))
<1>3. front \in Seq(S) /\ rest \in Seq(S) /\ s = front \o rest
  BY <1>1, <1>2, SubSeqFull
<1> HIDE DEF front, rest
<1>4. Occurrences(m, front \o rest)
        = Occurrences(m, front) + Occurrences(m, rest)
  BY <1>3, OccurrencesOfConcat
<1> QED
  BY <1>1, <1>3, <1>4 DEF front, rest

(* The parts of a sequence have nothing that is not in it.                   *)
LEMMA PartsOfCut ==
    ASSUME NEW S, NEW s \in Seq(S), NEW n \in 0 .. Len(s)
    PROVE  /\ \A i \in DOMAIN SubSeq(s, 1, n) :
                 \E j \in DOMAIN s : SubSeq(s, 1, n)[i] = s[j]
           /\ \A i \in DOMAIN SubSeq(s, n + 1, Len(s)) :
                 \E j \in DOMAIN s : SubSeq(s, n + 1, Len(s))[i] = s[j]
<1>1. Len(s) \in Nat /\ n \in Nat /\ n <= Len(s) /\ DOMAIN s = 1 .. Len(s)
  OBVIOUS
<1>2. ASSUME NEW i \in DOMAIN SubSeq(s, 1, n)
      PROVE  \E j \in DOMAIN s : SubSeq(s, 1, n)[i] = s[j]
  <2>1. i \in 1 .. n /\ SubSeq(s, 1, n)[i] = s[i]
    BY <1>1
  <2>2. i \in DOMAIN s
    BY <1>1, <2>1
  <2> QED
    BY <2>1, <2>2
<1>3. ASSUME NEW i \in DOMAIN SubSeq(s, n + 1, Len(s))
      PROVE  \E j \in DOMAIN s : SubSeq(s, n + 1, Len(s))[i] = s[j]
  <2>1. i \in 1 .. Len(s) - n /\ SubSeq(s, n + 1, Len(s))[i] = s[n + i]
    BY <1>1
  <2>2. n + i \in DOMAIN s
    BY <1>1, <2>1
  <2> QED
    BY <2>1, <2>2
<1> QED
  BY <1>2, <1>3

LEMMA PartsOfTail ==
    ASSUME NEW S, NEW s \in Seq(S), s # <<>>
    PROVE  \A i \in DOMAIN Tail(s) : \E j \in DOMAIN s : Tail(s)[i] = s[j]
<1>1. Len(s) \in Nat \ {0} /\ DOMAIN s = 1 .. Len(s)
  OBVIOUS
<1> SUFFICES ASSUME NEW i \in DOMAIN Tail(s)
             PROVE  \E j \in DOMAIN s : Tail(s)[i] = s[j]
  OBVIOUS
<1>2. i \in 1 .. Len(s) - 1 /\ Tail(s)[i] = s[i + 1]
  BY <1>1
<1>3. i + 1 \in DOMAIN s
  BY <1>1, <1>2
<1> QED
  BY <1>2, <1>3

(* Taking the first packet takes one copy of it.                             *)
LEMMA OccurrencesOfTail ==
    ASSUME NEW m, NEW S, NEW s \in Seq(S), s # <<>>
    PROVE  /\ Tail(s) \in Seq(S) /\ Head(s) \in S
           /\ Occurrences(m, s)
                = Occurrences(m, Tail(s)) + (IF Head(s) = m THEN 1 ELSE 0)
<1>1. Tail(s) \in Seq(S) /\ Head(s) \in S /\ s = <<Head(s)>> \o Tail(s)
  BY HeadTailProperties
<1>2. <<Head(s)>> = Append(<<>>, Head(s)) /\ <<>> \in Seq(S)
  BY <1>1
<1>3. Occurrences(m, <<Head(s)>>) = IF Head(s) = m THEN 1 ELSE 0
  <2>1. Occurrences(m, Append(<<>>, Head(s)))
          = Occurrences(m, <<>>) + (IF Head(s) = m THEN 1 ELSE 0)
    BY <1>1, <1>2, OccurrencesOfAppend
  <2>2. Occurrences(m, <<>>) = 0
    BY OccurrencesOfEmpty
  <2> QED
    BY <1>2, <2>1, <2>2
<1>4. <<Head(s)>> \in Seq(S)
  BY <1>1
<1>5. Occurrences(m, s) = Occurrences(m, <<Head(s)>>) + Occurrences(m, Tail(s))
  BY <1>1, <1>4, OccurrencesOfConcat
<1>6. Occurrences(m, Tail(s)) \in Nat
  BY <1>1, PlacesAreFinite
<1> QED
  BY <1>1, <1>3, <1>5, <1>6

(* Leaving places out leaves finitely many.                                  *)
LEMMA DroppedIsNatural ==
    ASSUME NEW m, NEW S, NEW s \in Seq(S), NEW kept
    PROVE  Dropped(m, s, kept) \in Nat
<1>1. {i \in DOMAIN s : s[i] = m /\ ~\E j \in DOMAIN kept : kept[j] = i}
        \subseteq Places(m, s)
  BY DEF Places
<1>2. IsFiniteSet(Places(m, s))
  BY PlacesAreFinite
<1>3. IsFiniteSet(
        {i \in DOMAIN s : s[i] = m /\ ~\E j \in DOMAIN kept : kept[j] = i})
  BY <1>1, <1>2, FS_Subset
<1> QED
  BY <1>3, FS_CardinalityType DEF Dropped

\* passed is what s has at the n places kept.
Passes(passed, s, n, kept) ==
    /\ n \in 0 .. Len(s) /\ Len(passed) = n
    /\ kept \in [1 .. n -> 1 .. Len(s)]
    /\ \A i, j \in 1 .. n : kept[i] = kept[j] => i = j
    /\ \A i \in 1 .. n : passed[i] = s[kept[i]]

(* What a filter keeps and what it drops are the copies of the sequence.     *)
LEMMA OccurrencesOfKept ==
    ASSUME NEW m, NEW S, NEW s \in Seq(S), NEW passed \in Seq(S),
           NEW n, NEW kept, Passes(passed, s, n, kept)
    PROVE  /\ Dropped(m, s, kept) \in Nat
           /\ Occurrences(m, s) = Occurrences(m, passed) + Dropped(m, s, kept)
<1> USE DEF Passes
<1> DEFINE among == {i \in Places(m, s) : \E j \in 1 .. n : kept[j] = i}
           out == {i \in DOMAIN s : s[i] = m /\ ~\E j \in DOMAIN kept : kept[j] = i}
           place == [j \in Places(m, passed) |-> kept[j]]
<1>1. Places(m, passed) = {j \in 1 .. n : s[kept[j]] = m}
  <2>1. DOMAIN passed = 1 .. n
    OBVIOUS
  <2> QED
    BY <2>1 DEF Places
<1>2. place \in Bijection(Places(m, passed), among)
  <2>1. DOMAIN s = 1 .. Len(s)
    OBVIOUS
  <2>2. place \in [Places(m, passed) -> among]
    BY <1>1, <2>1 DEF Places
  <2>3. \A i, j \in Places(m, passed) : place[i] = place[j] => i = j
    BY <1>1
  <2>4. ASSUME NEW i \in among
        PROVE  \E j \in Places(m, passed) : place[j] = i
    BY <1>1 DEF Places
  <2> QED
    BY <2>2, <2>3, <2>4, Fun_IsBij
<1>3. IsFiniteSet(among) /\ Cardinality(among) = Occurrences(m, passed)
  BY <1>2, PlacesAreFinite, FS_Bijection DEF ExistsBijection
<1>4. DOMAIN kept = 1 .. n
  OBVIOUS
<1>5. Places(m, s) = among \cup out
  BY <1>4 DEF Places
<1>6. among \cap out = {}
  BY <1>4
<1>7. IsFiniteSet(out)
  <2>1. IsFiniteSet(Places(m, s))
    BY PlacesAreFinite
  <2> QED
    BY <1>5, <2>1, FS_Subset
<1>8. Dropped(m, s, kept) = Cardinality(out)
  BY DEF Dropped
<1>9. Occurrences(m, s) = Cardinality(Places(m, s))
  BY DEF Occurrences
<1> HIDE DEF among, out, place
<1>10. Cardinality(among \cup out) = Cardinality(among) + Cardinality(out)
  BY <1>3, <1>6, <1>7, DisjointUnion
<1>11. Cardinality(out) \in Nat
  BY <1>7, FS_CardinalityType
<1> QED
  BY <1>3, <1>5, <1>8, <1>9, <1>10, <1>11

-----------------------------------------------------------------------------
(* A family of sequences *)

\* A finite family of sequences over S.
Family(queues, S) ==
    /\ IsFiniteSet(DOMAIN queues)
    /\ \A q \in DOMAIN queues : queues[q] \in Seq(S)

\* Where m is but in the queue of w.
Elsewhere(m, queues, w) == {p \in Positions(m, queues) : p[1] # w}

(* There are finitely many.                                                  *)
LEMMA PositionsAreFinite ==
    ASSUME NEW m, NEW S, NEW queues, Family(queues, S)
    PROVE  IsFiniteSet(Positions(m, queues))
<1> DEFINE Part(q) == {q} \X Places(m, queues[q])
           parts == {Part(q) : q \in DOMAIN queues}
           part == [q \in DOMAIN queues |-> Part(q)]
<1>1. part \in Surjection(DOMAIN queues, parts)
  BY DEF Surjection
<1>2. IsFiniteSet(parts)
  BY <1>1, FS_Surjection DEF Family
<1>3. ASSUME NEW q \in DOMAIN queues
      PROVE  IsFiniteSet(Part(q))
  <2>1. IsFiniteSet(Places(m, queues[q])) /\ IsFiniteSet({q})
    BY PlacesAreFinite, FS_Singleton DEF Family
  <2> QED
    BY <2>1, FS_Product
<1>4. \A T \in parts : IsFiniteSet(T)
  BY <1>3
<1> HIDE DEF parts
<1>5. IsFiniteSet(UNION parts)
  BY <1>2, <1>4, FS_UNION
<1> QED
  BY <1>5 DEF parts, Positions

(* The copies in all queues are those of one and those elsewhere.            *)
LEMMA QueuedSplits ==
    ASSUME NEW m, NEW S, NEW queues, Family(queues, S), NEW w \in DOMAIN queues
    PROVE  /\ Cardinality(Elsewhere(m, queues, w)) \in Nat
           /\ IsFiniteSet(Positions(m, queues))
           /\ Queued(m, queues)
                = Cardinality(Elsewhere(m, queues, w))
                    + Occurrences(m, queues[w])
<1> DEFINE there == Elsewhere(m, queues, w)
           here == {w} \X Places(m, queues[w])
           pair == [i \in Places(m, queues[w]) |-> <<w, i>>]
<1>1. queues[w] \in Seq(S)
  BY DEF Family
<1>3. pair \in Bijection(Places(m, queues[w]), here)
  BY Fun_IsBij
<1>4. IsFiniteSet(here) /\ Cardinality(here) = Occurrences(m, queues[w])
  BY <1>1, <1>3, PlacesAreFinite, FS_Bijection DEF ExistsBijection
<1>5. IsFiniteSet(Positions(m, queues))
  BY PositionsAreFinite
<1>6. IsFiniteSet(there)
  BY <1>5, FS_Subset DEF Elsewhere
<1>7. there \cap here = {}
  BY DEF Elsewhere
<1>8. Positions(m, queues) = there \cup here
  BY DEF Elsewhere, Positions
<1> HIDE DEF there, here, pair
<1>9. Cardinality(there \cup here) = Cardinality(there) + Cardinality(here)
  BY <1>4, <1>6, <1>7, DisjointUnion
<1>10. Cardinality(there) \in Nat
  BY <1>6, FS_CardinalityType
<1> QED
  BY <1>4, <1>5, <1>8, <1>9, <1>10 DEF Queued, there

(* The copies in the queues are a number; there are none only if no queue    *)
(* has one.                                                                  *)
LEMMA QueuedIsNatural ==
    ASSUME NEW m, NEW S, NEW queues, Family(queues, S)
    PROVE  /\ Queued(m, queues) \in Nat
           /\ \A w \in DOMAIN queues :
                 Occurrences(m, queues[w]) <= Queued(m, queues)
<1>1. Queued(m, queues) \in Nat
  BY PositionsAreFinite, FS_CardinalityType DEF Queued
<1>2. ASSUME NEW w \in DOMAIN queues
      PROVE  Occurrences(m, queues[w]) <= Queued(m, queues)
  <2> DEFINE here == Occurrences(m, queues[w])
             there == Cardinality(Elsewhere(m, queues, w))
             all == Queued(m, queues)
  <2>1. queues[w] \in Seq(S)
    BY DEF Family
  <2>2. here \in Nat
    BY <2>1, PlacesAreFinite
  <2>3. there \in Nat /\ all = there + here
    BY QueuedSplits
  <2> HIDE DEF here, there, all
  <2>4. here <= all
    BY <2>2, <2>3
  <2> QED
    BY <2>4 DEF here, all
<1> QED
  BY <1>1, <1>2

\* The queues when the one of w has become new.
Updated(queues, w, new) == [queues EXCEPT ![w] = new]

(* Replacing one queue changes the copies of m by what the new one has of it *)
(* more than the old.                                                        *)
LEMMA QueuedUpdate ==
    ASSUME NEW m, NEW S, NEW queues, Family(queues, S), NEW w \in DOMAIN queues,
           NEW new \in Seq(S)
    PROVE  /\ Family(Updated(queues, w, new), S)
           /\ Queued(m, queues) \in Nat
           /\ Queued(m, Updated(queues, w, new)) \in Nat
           /\ Queued(m, Updated(queues, w, new)) + Occurrences(m, queues[w])
                = Queued(m, queues) + Occurrences(m, new)
<1> DEFINE after == Updated(queues, w, new)
<1>1. /\ DOMAIN after = DOMAIN queues /\ after[w] = new
      /\ \A v \in DOMAIN queues \ {w} : after[v] = queues[v]
  BY DEF Updated
<1> HIDE DEF after
<1>2. Family(after, S)
  BY <1>1 DEF Family
<1>3. Elsewhere(m, after, w) = Elsewhere(m, queues, w)
  BY <1>1 DEF Elsewhere, Positions
<1>4. Occurrences(m, queues[w]) \in Nat /\ Occurrences(m, new) \in Nat
  <2>1. queues[w] \in Seq(S)
    BY DEF Family
  <2> QED
    BY <2>1, PlacesAreFinite
<1> DEFINE c == Cardinality(Elsewhere(m, queues, w))
<1>5. c \in Nat /\ Queued(m, queues) = c + Occurrences(m, queues[w])
  BY QueuedSplits
<1>6. Queued(m, after) = c + Occurrences(m, new)
  BY <1>1, <1>2, <1>3, QueuedSplits
<1> HIDE DEF c
<1>7. /\ Queued(m, queues) \in Nat /\ Queued(m, after) \in Nat
      /\ Queued(m, after) + Occurrences(m, queues[w])
           = Queued(m, queues) + Occurrences(m, new)
  BY <1>4, <1>5, <1>6
<1> QED
  BY <1>2, <1>7 DEF after

(* Queues that are all empty have no copy.                                   *)
LEMMA QueuedNowhere ==
    ASSUME NEW m, NEW queues, \A q \in DOMAIN queues : queues[q] = <<>>
    PROVE  Queued(m, queues) = 0
<1>1. Positions(m, queues) = {}
  BY DEF Positions, Places
<1> QED
  BY <1>1, FS_EmptySet DEF Queued

-----------------------------------------------------------------------------
(* Selecting from a sequence *)

(* A set of numbers that has 0 and the successor of each of its members has  *)
(* them all.                                                                 *)
LEMMA EveryNatural ==
    ASSUME NEW G, 0 \in G, \A n \in Nat : n \in G => n + 1 \in G
    PROVE  Nat \subseteq G
<1> DEFINE Bad == Nat \ G
           R == OpToRel(<, Nat)
<1> SUFFICES ASSUME Bad # {} PROVE FALSE
  OBVIOUS
<1>1. IsWellFoundedOn(R, Nat)
  BY NatLessThanWellFounded
<1> HIDE DEF R
<1>2. PICK m \in Bad : \A l \in Bad : ~ (<<l, m>> \in R)
  BY <1>1, WFMin
<1>3. \A l \in Bad : ~ (l < m)
  BY <1>2 DEF R, OpToRel
<1>4. m \in Nat /\ m # 0
  BY <1>2
<1>5. m - 1 \in Nat /\ m - 1 < m /\ (m - 1) + 1 = m
  BY <1>4
<1>6. m - 1 \in G
  BY <1>3, <1>5
<1> QED
  BY <1>2, <1>5, <1>6

(* What is selected of the first n, of the first n - 1 and so on.            *)
Selection(f, n, s, P) ==
    f = [i \in 0 .. n |->
           IF i = 0 THEN <<>>
           ELSE IF s[i] \in P THEN Append(f[i - 1], s[i]) ELSE f[i - 1]]

LEMMA SelectionSteps ==
    ASSUME NEW s, NEW n \in Nat, NEW P, NEW f, Selection(f, n, s, P)
    PROVE  /\ DOMAIN f = 0 .. n
           /\ f[0] = <<>>
           /\ \A i \in 1 .. n :
                 f[i] = IF s[i] \in P THEN Append(f[i - 1], s[i]) ELSE f[i - 1]
<1>2. DOMAIN f = 0 .. n
  BY DEF Selection
<1>3. ASSUME NEW i \in 0 .. n
      PROVE  f[i] = IF i = 0 THEN <<>>
                    ELSE IF s[i] \in P THEN Append(f[i - 1], s[i]) ELSE f[i - 1]
  BY DEF Selection
<1>4. 0 \in 0 .. n
  OBVIOUS
<1>5. f[0] = <<>>
  BY <1>3, <1>4
<1>6. ASSUME NEW i \in 1 .. n
      PROVE  f[i] = IF s[i] \in P THEN Append(f[i - 1], s[i]) ELSE f[i - 1]
  <2>1. i \in 0 .. n /\ i # 0
    OBVIOUS
  <2> QED
    BY <1>3, <2>1
<1> QED
  BY <1>2, <1>5, <1>6

(* Sequences that agree so far have the same selections so far.              *)
LEMMA SelectionsAgree ==
    ASSUME NEW s, NEW r, NEW m \in Nat, NEW n \in Nat, NEW P, NEW Q, NEW f, NEW g,
           Selection(f, m, s, P), Selection(g, n, r, Q),
           NEW k \in Nat, k <= m, k <= n,
           \A i \in 1 .. k : s[i] = r[i] /\ (s[i] \in P <=> r[i] \in Q)
    PROVE  \A i \in 0 .. k : f[i] = g[i]
<1> DEFINE G == {i \in Nat : i <= k => f[i] = g[i]}
<1>1. 0 \in G
  <2>1. f[0] = <<>> /\ g[0] = <<>>
    BY SelectionSteps
  <2> QED
    BY <2>1
<1>2. ASSUME NEW j \in Nat, j \in G
      PROVE  j + 1 \in G
  <2> SUFFICES ASSUME j + 1 <= k PROVE f[j + 1] = g[j + 1]
    OBVIOUS
  <2>1. j + 1 \in 1 .. k /\ j + 1 \in 1 .. m /\ j + 1 \in 1 .. n
        /\ (j + 1) - 1 = j
    OBVIOUS
  <2>2. f[j] = g[j]
    BY <1>2
  <2>3. f[j + 1] = IF s[j + 1] \in P THEN Append(f[j], s[j + 1]) ELSE f[j]
    BY <2>1, SelectionSteps
  <2>4. g[j + 1] = IF r[j + 1] \in Q THEN Append(g[j], r[j + 1]) ELSE g[j]
    BY <2>1, SelectionSteps
  <2> QED
    BY <2>1, <2>2, <2>3, <2>4
<1>3. Nat \subseteq G
  <2> HIDE DEF G
  <2> QED
    BY <1>1, <1>2, EveryNatural
<1> QED
  BY <1>3

(* A selection of the first n goes on with the next.                         *)
LEMMA SelectionExtends ==
    ASSUME NEW s, NEW n \in Nat, NEW P, NEW f, Selection(f, n, s, P),
           NEW last, last = IF s[n + 1] \in P THEN Append(f[n], s[n + 1]) ELSE f[n],
           NEW g, g = [i \in 0 .. n + 1 |-> IF i = n + 1 THEN last ELSE f[i]]
    PROVE  Selection(g, n + 1, s, P)
<1>1. /\ f[0] = <<>>
      /\ \A i \in 1 .. n :
            f[i] = IF s[i] \in P THEN Append(f[i - 1], s[i]) ELSE f[i - 1]
  BY SelectionSteps
<1>2. ASSUME NEW i \in 0 .. n
      PROVE  g[i] = f[i]
  OBVIOUS
<1>3. g[n + 1] = last
  OBVIOUS
<1>4. ASSUME NEW i \in 0 .. n + 1
      PROVE  g[i] = IF i = 0 THEN <<>>
                    ELSE IF s[i] \in P THEN Append(g[i - 1], s[i]) ELSE g[i - 1]
  <2>1. CASE i = 0
    <3>1. g[0] = f[0]
      BY <1>2
    <3> QED
      BY <1>1, <2>1, <3>1
  <2>2. CASE i \in 1 .. n
    <3>1. i \in 0 .. n /\ i - 1 \in 0 .. n /\ i # 0
      BY <2>2
    <3>2. g[i] = f[i] /\ g[i - 1] = f[i - 1]
      BY <1>2, <3>1
    <3> QED
      BY <1>1, <2>2, <3>1, <3>2
  <2>3. CASE i = n + 1
    <3>1. n \in 0 .. n /\ i - 1 = n /\ i # 0
      BY <2>3
    <3>2. g[i - 1] = f[n]
      BY <1>2, <3>1
    <3> QED
      BY <1>3, <2>3, <3>1, <3>2
  <2> QED
    BY <2>1, <2>2, <2>3
<1>5. g = [i \in 0 .. n + 1 |-> g[i]]
  OBVIOUS
<1> QED
  BY <1>4, <1>5 DEF Selection

(* Every sequence has its selections.                                        *)
LEMMA SelectionExists ==
    ASSUME NEW s, NEW P
    PROVE  \A n \in Nat : \E f : Selection(f, n, s, P)
<1> DEFINE G == {n \in Nat : \E f : Selection(f, n, s, P)}
<1>1. 0 \in G
  <2>1. Selection([i \in 0 .. 0 |-> <<>>], 0, s, P)
    BY DEF Selection
  <2> QED
    BY <2>1
<1>2. ASSUME NEW n \in Nat, n \in G
      PROVE  n + 1 \in G
  <2>1. PICK f : Selection(f, n, s, P)
    BY <1>2
  <2> DEFINE last == IF s[n + 1] \in P THEN Append(f[n], s[n + 1]) ELSE f[n]
             g == [i \in 0 .. n + 1 |-> IF i = n + 1 THEN last ELSE f[i]]
  <2>2. Selection(g, n + 1, s, P)
    BY <2>1, SelectionExtends
  <2> QED
    BY <2>2
<1>3. Nat \subseteq G
  <2> HIDE DEF G
  <2> QED
    BY <1>1, <1>2, EveryNatural
<1> QED
  BY <1>3

(* Selecting from a sequence is taking the last of its selections.           *)
LEMMA SelectIs ==
    ASSUME NEW s, NEW P, Len(s) \in Nat
    PROVE  \E f : /\ Selection(f, Len(s), s, P)
                  /\ Select(s, P) = f[Len(s)]
<1> DEFINE f == CHOOSE f : Selection(f, Len(s), s, P)
<1>2. Selection(f, Len(s), s, P)
  BY SelectionExists
<1>3. Select(s, P) = f[Len(s)]
  BY DEF Select, Selection
<1> QED
  BY <1>2, <1>3

(* What is selected depends on what is in the sequence only.                 *)
LEMMA SelectSame ==
    ASSUME NEW s, Len(s) \in Nat, NEW P, NEW Q,
           \A i \in 1 .. Len(s) : s[i] \in P <=> s[i] \in Q
    PROVE  Select(s, P) = Select(s, Q)
<1>1. PICK f : Selection(f, Len(s), s, P) /\ Select(s, P) = f[Len(s)]
  BY SelectIs
<1>2. PICK g : Selection(g, Len(s), s, Q) /\ Select(s, Q) = g[Len(s)]
  BY SelectIs
<1>3. \A i \in 0 .. Len(s) : f[i] = g[i]
  BY <1>1, <1>2, SelectionsAgree
<1>4. Len(s) \in 0 .. Len(s)
  OBVIOUS
<1> QED
  BY <1>1, <1>2, <1>3, <1>4

(* Nothing is selected from nothing.                                         *)
LEMMA SelectOfNone ==
    ASSUME NEW P
    PROVE  Select(<<>>, P) = <<>>
<1>1. Len(<<>>) = 0
  OBVIOUS
<1>2. PICK f : Selection(f, 0, <<>>, P) /\ Select(<<>>, P) = f[0]
  BY <1>1, SelectIs
<1> QED
  BY <1>2, SelectionSteps

(* What is selected of the packets of a set is a sequence of that set.       *)
LEMMA SelectType ==
    ASSUME NEW S, NEW s \in Seq(S), NEW P
    PROVE  Select(s, P) \in Seq(S)
<1>1. PICK n \in Nat : n = Len(s)
  OBVIOUS
<1>2. PICK f : Selection(f, n, s, P) /\ Select(s, P) = f[n]
  BY <1>1, SelectIs
<1>3. f[0] = <<>> /\ \A i \in 1 .. n :
         f[i] = IF s[i] \in P THEN Append(f[i - 1], s[i]) ELSE f[i - 1]
  BY <1>2, SelectionSteps
<1>4. \A i \in 1 .. n : s[i] \in S
  BY <1>1
<1> DEFINE Typed(i) == f[i] \in Seq(S)
           G == {i \in Nat : i <= n => Typed(i)}
<1>5. Typed(0)
  BY <1>3
<1>6. ASSUME NEW j \in Nat, j + 1 <= n, Typed(j)
      PROVE  Typed(j + 1)
  <2>1. j + 1 \in 1 .. n /\ (j + 1) - 1 = j
    BY <1>6
  <2>2. f[j] \in Seq(S)
    BY <1>6
  <2>3. f[j + 1] = IF s[j + 1] \in P THEN Append(f[j], s[j + 1]) ELSE f[j]
    BY <1>3, <2>1
  <2>4. s[j + 1] \in S
    BY <1>4, <2>1
  <2> QED
    BY <2>2, <2>3, <2>4
<1>7. Typed(n)
  <2> HIDE DEF Typed
  <2>1. 0 \in G /\ \A j \in Nat : j \in G => j + 1 \in G
    BY <1>5, <1>6
  <2>2. Nat \subseteq G
    <3> HIDE DEF G
    <3> QED
      BY <2>1, EveryNatural
  <2> QED
    BY <2>2
<1> QED
  BY <1>2, <1>7

(* Appending to two sequences put together is appending to the second.       *)
LEMMA AppendToConcat ==
    ASSUME NEW S, NEW a, NEW b, NEW x, a \in Seq(S), b \in Seq(S), x \in S
    PROVE  Append(a \o b, x) = a \o Append(b, x)
<1> DEFINE l == Append(a \o b, x)
           r == a \o Append(b, x)
           k == Len(a)
           n == Len(b)
<1>1. k \in Nat /\ n \in Nat
  OBVIOUS
<1>2. l \in Seq(S) /\ r \in Seq(S) /\ Len(l) = k + n + 1 /\ Len(r) = k + n + 1
  OBVIOUS
<1>3. ASSUME NEW i \in 1 .. k + n + 1
      PROVE  l[i] = r[i]
  <2>1. CASE i <= k
    BY <2>1
  <2>2. CASE i > k /\ i <= k + n
    BY <2>2
  <2>3. CASE i = k + n + 1
    BY <2>3
  <2> QED
    BY <1>1, <2>1, <2>2, <2>3
<1> HIDE DEF l, r, k, n
<1>4. \A i \in 1 .. Len(l) : l[i] = r[i]
  BY <1>2, <1>3
<1>5. l = r
  BY <1>2, <1>4, SeqEqual
<1> QED
  BY <1>5 DEF l, r

(* Selecting from two sequences put together.                                *)
LEMMA SelectOfConcat ==
    ASSUME NEW S, NEW s, NEW r, NEW P
    PROVE  s \in Seq(S) /\ r \in Seq(S)
             => Select(s \o r, P) = Select(s, P) \o Select(r, P)
<1>0. SUFFICES ASSUME s \in Seq(S), r \in Seq(S)
               PROVE  Select(s \o r, P) = Select(s, P) \o Select(r, P)
  OBVIOUS
<1>1. PICK k \in Nat : k = Len(s)
  BY <1>0
<1>2. PICK n \in Nat : n = Len(r)
  BY <1>0
<1>3. PICK q : q = s \o r
  OBVIOUS
<1>4. /\ Len(q) = k + n /\ k + n \in Nat
      /\ \A i \in 1 .. k : q[i] = s[i]
      /\ \A i \in 1 .. n : q[k + i] = r[i]
      /\ \A i \in 1 .. n : r[i] \in S
  BY <1>0, <1>1, <1>2, <1>3
<1>5. PICK f : Selection(f, k, s, P) /\ Select(s, P) = f[k]
  BY <1>1, SelectIs
<1>6. PICK g : Selection(g, n, r, P) /\ Select(r, P) = g[n]
  BY <1>2, SelectIs
<1>7. PICK h : Selection(h, k + n, q, P) /\ Select(q, P) = h[k + n]
  <2>1. Len(q) \in Nat
    BY <1>4
  <2>2. \E h : Selection(h, Len(q), q, P) /\ Select(q, P) = h[Len(q)]
    BY <2>1, SelectIs
  <2> QED
    BY <1>4, <2>2
<1> DEFINE first == f[k]
<1>8. first = h[k]
  <2>1. k <= k + n /\ k <= k /\ k \in 0 .. k
    OBVIOUS
  <2>2. \A i \in 1 .. k : s[i] = q[i] /\ (s[i] \in P <=> q[i] \in P)
    BY <1>4
  <2>3. \A i \in 0 .. k : f[i] = h[i]
    <3>1. Selection(f, k, s, P) /\ Selection(h, k + n, q, P) /\ k + n \in Nat
      BY <1>4, <1>5, <1>7
    <3> QED
      BY <2>1, <2>2, <3>1, SelectionsAgree
  <2> QED
    BY <2>1, <2>3
<1>9. first \in Seq(S)
  BY <1>0, <1>5, SelectType
<1>10. g[0] = <<>> /\ \A i \in 1 .. n :
          g[i] = IF r[i] \in P THEN Append(g[i - 1], r[i]) ELSE g[i - 1]
  <2>1. Selection(g, n, r, P)
    BY <1>6
  <2> QED
    BY <2>1, SelectionSteps, Z3
<1>11. \A i \in 1 .. k + n :
          h[i] = IF q[i] \in P THEN Append(h[i - 1], q[i]) ELSE h[i - 1]
  BY <1>4, <1>7, SelectionSteps
<1> HIDE DEF first
<1> DEFINE Split(i) == g[i] \in Seq(S) /\ h[k + i] = first \o g[i]
           G == {i \in Nat : i <= n => Split(i)}
<1>12. Split(0)
  <2>1. first \o <<>> = first /\ k + 0 = k
    BY <1>9
  <2>2. g[0] = <<>> /\ <<>> \in Seq(S)
    BY <1>10
  <2> QED
    BY <1>8, <2>1, <2>2
<1>13. ASSUME NEW j \in Nat, j + 1 <= n, Split(j)
       PROVE  Split(j + 1)
  <2>1. /\ j + 1 \in 1 .. n /\ (j + 1) - 1 = j
        /\ k + (j + 1) \in 1 .. k + n /\ (k + (j + 1)) - 1 = k + j
    BY <1>13
  <2>2. PICK b : b \in Seq(S) /\ b = g[j] /\ h[k + j] = first \o b
    BY <1>13
  <2>3. PICK x : x \in S /\ x = r[j + 1] /\ q[k + (j + 1)] = x
    BY <1>4, <2>1
  <2>4. g[j + 1] = IF x \in P THEN Append(b, x) ELSE b
    BY <1>10, <2>1, <2>2, <2>3
  <2>5. h[k + (j + 1)] = IF x \in P THEN Append(first \o b, x) ELSE first \o b
    BY <1>11, <2>1, <2>2, <2>3
  <2>6. Append(first \o b, x) = first \o Append(b, x)
    <3>1. b \in Seq(S) /\ x \in S
      BY <2>2, <2>3
    <3> QED
      BY <1>9, <3>1, AppendToConcat, Z3
  <2>7. Append(b, x) \in Seq(S)
    <3>1. b \in Seq(S) /\ x \in S
      BY <2>2, <2>3
    <3> QED
      BY <3>1
  <2>8. CASE x \in P
    BY <2>4, <2>5, <2>6, <2>7, <2>8
  <2>9. CASE x \notin P
    BY <2>2, <2>4, <2>5, <2>9
  <2> QED
    BY <2>8, <2>9
<1>14. Split(n)
  <2> HIDE DEF Split
  <2>1. 0 \in G /\ \A j \in Nat : j \in G => j + 1 \in G
    BY <1>12, <1>13
  <2>2. Nat \subseteq G
    <3> HIDE DEF G
    <3> QED
      BY <2>1, EveryNatural
  <2> QED
    BY <2>2
<1> QED
  BY <1>3, <1>5, <1>6, <1>7, <1>14 DEF first

(* Of one packet, it or nothing is selected.                                 *)
LEMMA SelectOfOne ==
    ASSUME NEW x, NEW P
    PROVE  Select(<<x>>, P) = IF x \in P THEN <<x>> ELSE <<>>
<1>1. Len(<<x>>) = 1 /\ <<x>>[1] = x
  OBVIOUS
<1>2. PICK f : Selection(f, 1, <<x>>, P) /\ Select(<<x>>, P) = f[1]
  BY <1>1, SelectIs
<1>3. f[0] = <<>> /\ f[1] = IF <<x>>[1] \in P THEN Append(f[0], <<x>>[1]) ELSE f[0]
  <2>1. 1 \in 1 .. 1 /\ 1 - 1 = 0
    OBVIOUS
  <2> QED
    BY <1>2, <2>1, SelectionSteps
<1> QED
  BY <1>1, <1>2, <1>3
-----------------------------------------------------------------------------
(* A line in three parts *)

(* A burst goes from the third part to the second, which is empty.           *)
LEMMA BurstInLine ==
    ASSUME NEW S, NEW a \in Seq(S), NEW x \in Seq(S), NEW y \in Seq(S)
    PROVE  (a \o <<>>) \o (x \o y) = (a \o x) \o y
<1>1. a \o <<>> = a
  BY ConcatEmptySeq
<1>2. a \o (x \o y) = (a \o x) \o y
  BY ConcatAssociative
<1> QED
  BY <1>1, <1>2

(* A packet goes from the front of the second part to the end of the first.  *)
LEMMA CountedInLine ==
    ASSUME NEW S, NEW a \in Seq(S), NEW x \in S, NEW y \in Seq(S), NEW c \in Seq(S)
    PROVE  (a \o (<<x>> \o y)) \o c = (Append(a, x) \o y) \o c
<1>1. <<x>> \in Seq(S)
  OBVIOUS
<1>2. (a \o <<x>>) \o y = a \o (<<x>> \o y)
  BY <1>1, ConcatAssociative
<1>3. Append(a, x) = a \o <<x>>
  BY AppendIsConcat
<1> QED
  BY <1>2, <1>3

(* The first part leaves the line.                                           *)
LEMMA ServedInLine ==
    ASSUME NEW S, NEW a \in Seq(S), NEW b \in Seq(S), NEW c \in Seq(S),
           NEW line
    PROVE  line = (a \o b) \o c
             => /\ Len(line) >= Len(a)
                /\ SubSeq(line, Len(a) + 1, Len(line)) = (<<>> \o b) \o c
<1>0. SUFFICES ASSUME line = (a \o b) \o c
               PROVE  /\ Len(line) >= Len(a)
                      /\ SubSeq(line, Len(a) + 1, Len(line)) = (<<>> \o b) \o c
  OBVIOUS
<1> DEFINE bc == b \o c
           cut == SubSeq(line, Len(a) + 1, Len(line))
<1>1. bc \in Seq(S) /\ Len(a) \in Nat
  OBVIOUS
<1>2. line = a \o bc
  BY <1>0, ConcatAssociative
<1>3. <<>> \o b = b
  BY ConcatEmptySeq
<1> HIDE DEF bc
<1>4. /\ line \in Seq(S) /\ Len(line) = Len(a) + Len(bc) /\ Len(bc) \in Nat
      /\ \A i \in 1 .. Len(bc) : line[Len(a) + i] = bc[i]
  BY <1>1, <1>2
<1>5. /\ cut \in Seq(S) /\ Len(cut) = Len(bc)
      /\ \A i \in 1 .. Len(bc) : cut[i] = line[Len(a) + i]
  BY <1>1, <1>4
<1> HIDE DEF cut
<1>6. \A i \in 1 .. Len(bc) : cut[i] = bc[i]
  BY <1>4, <1>5
<1>7. cut = bc
  BY <1>1, <1>5, <1>6, SeqEqual
<1> QED
  BY <1>1, <1>3, <1>4, <1>7 DEF bc, cut

(* What is left of two sequences put together when the first is cut.         *)
LEMMA CutInFirst ==
    ASSUME NEW S, NEW s \in Seq(S), NEW r \in Seq(S), NEW n \in 0 .. Len(s)
    PROVE  /\ SubSeq(s \o r, 1, n) = SubSeq(s, 1, n)
           /\ SubSeq(s \o r, n + 1, Len(s \o r)) = SubSeq(s, n + 1, Len(s)) \o r
<1> DEFINE both == s \o r
           k == Len(s)
           l == Len(r)
<1>1. k \in Nat /\ l \in Nat /\ n \in Nat /\ n <= k
  OBVIOUS
<1>2. /\ both \in Seq(S) /\ Len(both) = k + l
      /\ \A i \in 1 .. k + l : both[i] = IF i <= k THEN s[i] ELSE r[i - k]
      /\ \A i \in 1 .. k + l : both[i] \in S
  BY ConcatProperties
<1> HIDE DEF both
<1>3. SubSeq(both, 1, n) = SubSeq(s, 1, n)
  <2> DEFINE x == SubSeq(both, 1, n)
             y == SubSeq(s, 1, n)
  <2>1. /\ x \in Seq(S) /\ Len(x) = n
        /\ \A i \in 1 .. n : x[i] = both[i]
    BY <1>1, <1>2
  <2>2. /\ y \in Seq(S) /\ Len(y) = n
        /\ \A i \in 1 .. n : y[i] = s[i]
    BY <1>1
  <2>3. \A i \in 1 .. n : both[i] = s[i]
    BY <1>1, <1>2
  <2> HIDE DEF x, y
  <2>4. x = y
    BY <2>1, <2>2, <2>3, SeqEqual
  <2> QED
    BY <2>4 DEF x, y
<1>4. SubSeq(both, n + 1, k + l) = SubSeq(s, n + 1, k) \o r
  <2> DEFINE x == SubSeq(both, n + 1, k + l)
             c == SubSeq(s, n + 1, k)
             y == c \o r
  <2>1. /\ x \in Seq(S) /\ Len(x) = k + l - n
        /\ \A i \in 1 .. k + l - n : x[i] = both[n + i]
    BY <1>1, <1>2
  <2>2. /\ c \in Seq(S) /\ Len(c) = k - n
        /\ \A i \in 1 .. k - n : c[i] = s[n + i]
    BY <1>1
  <2> HIDE DEF x, c
  <2>3. /\ y \in Seq(S) /\ Len(y) = k - n + l
        /\ \A i \in 1 .. k - n + l : y[i] = IF i <= k - n THEN c[i] ELSE r[i - (k - n)]
    <3>1. /\ y \in Seq(S) /\ Len(y) = Len(c) + l
          /\ \A i \in 1 .. Len(c) + l : y[i] = IF i <= Len(c) THEN c[i] ELSE r[i - Len(c)]
      BY <2>2, ConcatProperties
    <3> HIDE DEF y, k, l
    <3> QED
      BY <2>2, <3>1
  <2> HIDE DEF y
  <2>4. ASSUME NEW i \in 1 .. k + l - n
        PROVE  x[i] = y[i]
    <3>1. n + i \in 1 .. k + l /\ i \in 1 .. k - n + l /\ i \in Int
      BY <1>1
    <3>2. CASE i <= k - n
      <4>1. i \in 1 .. k - n /\ n + i <= k
        BY <1>1, <3>1, <3>2
      <4> QED
        BY <1>2, <2>1, <2>2, <2>3, <3>1, <3>2, <4>1
    <3>3. CASE ~ (i <= k - n)
      <4>1. ~ (n + i <= k) /\ (n + i) - k = i - (k - n)
        BY <1>1, <3>1, <3>3
      <4> QED
        BY <1>2, <2>1, <2>3, <3>1, <3>3, <4>1
    <3> QED
      BY <3>2, <3>3
  <2>5. Len(x) = Len(y) /\ Len(x) = k + l - n
    BY <1>1, <2>1, <2>3
  <2>6. \A i \in 1 .. Len(x) : x[i] = y[i]
    BY <2>4, <2>5
  <2>7. x = y
    BY <2>1, <2>3, <2>5, <2>6, SeqEqual
  <2> QED
    BY <2>7 DEF x, y, c
<1> QED
  BY <1>2, <1>3, <1>4 DEF both

(* And when the second is cut.                                               *)
LEMMA CutInSecond ==
    ASSUME NEW S, NEW s \in Seq(S), NEW r \in Seq(S), NEW n \in 0 .. Len(r)
    PROVE  /\ SubSeq(s \o r, 1, Len(s) + n) = s \o SubSeq(r, 1, n)
           /\ SubSeq(s \o r, Len(s) + n + 1, Len(s \o r)) = SubSeq(r, n + 1, Len(r))
<1> DEFINE both == s \o r
           k == Len(s)
           l == Len(r)
<1>1. k \in Nat /\ l \in Nat /\ n \in Nat /\ n <= l
  OBVIOUS
<1>2. /\ both \in Seq(S) /\ Len(both) = k + l
      /\ \A i \in 1 .. k + l : both[i] = IF i <= k THEN s[i] ELSE r[i - k]
      /\ \A i \in 1 .. k + l : both[i] \in S
  BY ConcatProperties
<1> HIDE DEF both
<1>3. SubSeq(both, 1, k + n) = s \o SubSeq(r, 1, n)
  <2> DEFINE x == SubSeq(both, 1, k + n)
             c == SubSeq(r, 1, n)
             y == s \o c
  <2>1. /\ x \in Seq(S) /\ Len(x) = k + n
        /\ \A i \in 1 .. k + n : x[i] = both[i]
    BY <1>1, <1>2
  <2>2. /\ c \in Seq(S) /\ Len(c) = n
        /\ \A i \in 1 .. n : c[i] = r[i]
    BY <1>1
  <2> HIDE DEF x, c
  <2>3. /\ y \in Seq(S) /\ Len(y) = k + n
        /\ \A i \in 1 .. k + n : y[i] = IF i <= k THEN s[i] ELSE c[i - k]
    BY <2>2, ConcatProperties
  <2> HIDE DEF y
  <2>4. ASSUME NEW i \in 1 .. k + n
        PROVE  x[i] = y[i]
    <3>1. i \in 1 .. k + l /\ i \in Int
      BY <1>1
    <3>2. CASE i <= k
      BY <1>1, <1>2, <2>1, <2>3, <3>1, <3>2
    <3>3. CASE ~ (i <= k)
      <4>1. i - k \in 1 .. n
        BY <1>1, <3>3
      <4> QED
        BY <1>2, <2>1, <2>2, <2>3, <3>1, <3>3, <4>1
    <3> QED
      BY <3>2, <3>3
  <2>5. Len(x) = Len(y) /\ \A i \in 1 .. Len(x) : x[i] = y[i]
    BY <1>1, <2>1, <2>3, <2>4
  <2>6. x = y
    BY <2>1, <2>3, <2>5, SeqEqual
  <2> QED
    BY <2>6 DEF x, y, c
<1>4. SubSeq(both, k + n + 1, k + l) = SubSeq(r, n + 1, l)
  <2> DEFINE x == SubSeq(both, k + n + 1, k + l)
             y == SubSeq(r, n + 1, l)
  <2>1. /\ x \in Seq(S) /\ Len(x) = l - n
        /\ \A i \in 1 .. l - n : x[i] = both[k + n + i]
    BY <1>1, <1>2
  <2>2. /\ y \in Seq(S) /\ Len(y) = l - n
        /\ \A i \in 1 .. l - n : y[i] = r[n + i]
    BY <1>1
  <2> HIDE DEF x, y
  <2>3. ASSUME NEW i \in 1 .. l - n
        PROVE  both[k + n + i] = r[n + i]
    <3>1. k + n + i \in 1 .. k + l /\ ~ (k + n + i <= k) /\ (k + n + i) - k = n + i
      BY <1>1
    <3> QED
      BY <1>2, <3>1
  <2>4. Len(x) = Len(y) /\ \A i \in 1 .. Len(x) : x[i] = y[i]
    BY <1>1, <2>1, <2>2, <2>3
  <2>5. x = y
    BY <2>1, <2>2, <2>4, SeqEqual
  <2> QED
    BY <2>5 DEF x, y
<1> QED
  BY <1>2, <1>3, <1>4 DEF both

=============================================================================
