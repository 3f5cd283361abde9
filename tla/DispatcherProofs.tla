-------------------------- MODULE DispatcherProofs --------------------------
(* Proofs about Balancer and Dispatcher for any number of tenants, workers   *)
(* and mbufs, any limits, batch and ring.  The invariant of the tables       *)
(* carries over to the dispatcher, because every step of it is one of the    *)
(* balancer's or leaves the tables alone.                                    *)
EXTENDS Dispatcher, CustodyProofs, WellFoundedInduction

-----------------------------------------------------------------------------
(* The scan for the least loaded worker *)

(* A non-empty set of natural numbers has a least element. *)
LEMMA LeastNatural ==
    ASSUME NEW T, T \subseteq Nat, T # {}
    PROVE  \E x \in T : \A y \in T : x <= y
<1> DEFINE R == OpToRel(<, Nat)
<1>1. IsWellFoundedOn(R, Nat)
  BY NatLessThanWellFounded
<1> HIDE DEF R
<1>2. PICK x \in T : \A y \in T : ~ (<<y, x>> \in R)
  BY <1>1, WFMin
<1>3. ASSUME NEW y \in T
      PROVE  x <= y
  <2>1. y < x => <<y, x>> \in R
    BY DEF R, OpToRel
  <2> QED
    BY <1>2, <2>1
<1> QED
  BY <1>3

(* The scan of main.c:196-201 yields a worker whose last load is minimal,    *)
(* whatever the loads are.                                                   *)
LEMMA LeastLoadedIsMinimal ==
    ASSUME NEW table, \A w \in Workers : table[w].last \in Nat
    PROVE  /\ LeastLoaded(table) \in Workers
           /\ \A v \in Workers : table[LeastLoaded(table)].last <= table[v].last
<1> DEFINE Loads == {table[w].last : w \in Workers}
           Least(w) == \A v \in Workers : \/ table[w].last < table[v].last
                                          \/ table[w].last = table[v].last /\ w <= v
<1>1. Loads \subseteq Nat /\ Loads # {}
  BY SizesAssumption DEF Workers
<1>2. PICK m \in Loads : \A y \in Loads : m <= y
  BY <1>1, LeastNatural
<1> DEFINE Minima == {w \in Workers : table[w].last = m}
<1>3. Minima \subseteq Nat /\ Minima # {}
  BY <1>2 DEF Workers
<1> HIDE DEF Minima
<1>4. PICK w \in Minima : \A v \in Minima : w <= v
  BY <1>3, LeastNatural
<1>5. w \in Workers /\ Least(w)
  <2>1. w \in Workers /\ table[w].last = m
    BY <1>4 DEF Minima
  <2>2. ASSUME NEW v \in Workers
        PROVE  \/ table[w].last < table[v].last
               \/ table[w].last = table[v].last /\ w <= v
    <3>1. m <= table[v].last /\ m \in Nat /\ table[v].last \in Nat
      BY <1>1, <1>2
    <3>2. CASE table[v].last = m
      BY <2>1, <3>2, <1>4 DEF Minima
    <3> QED
      BY <2>1, <3>1, <3>2
  <2> QED
    BY <2>1, <2>2
<1>6. LeastLoaded(table) \in Workers /\ Least(LeastLoaded(table))
  BY <1>5 DEF LeastLoaded
<1> QED
  BY <1>6

-----------------------------------------------------------------------------
(* The inductive invariant *)

(* Types, and the bound on the loads that keeps the arithmetic of a          *)
(* migration within 32 bits: without it TargetLoad may wrap and the          *)
(* subtraction of main.c:208 with it.                                        *)
IInv == BalancerTypeOK /\ LoadsAreReal

(* The row of an existing worker, rolled to the current slot, keeps its type *)
(* and the bounds of LoadsAreReal.                                           *)
LEMMA RolledRow ==
    ASSUME IInv, NEW w \in Workers
    PROVE  /\ Rolled(w) \in [slot : Slots \cup {0}, load : 0 .. U32 - 1,
                              last : 0 .. U32 - 1, times : 0 .. U32 - 1]
           /\ Rolled(w).load <= LineRate
           /\ Rolled(w).last <= LineRate \/ Rolled(w).last < MaxLoad
<1> USE WidthAssumption, SlotsAssumption
<1>1. workers_table[w] \in [slot : Slots \cup {0}, load : 0 .. U32 - 1,
                            last : 0 .. U32 - 1, times : 0 .. U32 - 1]
  BY DEF IInv, BalancerTypeOK
<1>2. timeslot \in Slots
  BY DEF IInv, BalancerTypeOK
<1>3. /\ workers_table[w].load <= LineRate
      /\ workers_table[w].last <= LineRate \/ workers_table[w].last < MaxLoad
  BY DEF IInv, LoadsAreReal
<1>4. CASE workers_table[w].slot = timeslot
  BY <1>1, <1>3, <1>4 DEF Rolled
<1>5. CASE workers_table[w].slot # timeslot
  <2>1. Rolled(w) = [slot |-> timeslot, load |-> 0,
                     last |-> workers_table[w].load,
                     times |-> workers_table[w].times]
    BY <1>1, <1>5 DEF Rolled
  <2>2. 0 \in 0 .. U32 - 1
    OBVIOUS
  <2> QED
    BY <1>1, <1>2, <1>3, <2>1, <2>2
<1> QED
  BY <1>4, <1>5

(* What a packet that may migrate its tenant knows of the target.            *)
LEMMA Target ==
    ASSUME IInv, NEW t \in Tenants, Overloaded(t), TargetLoad(t) < MaxLoad
    PROVE  LET from == Wid(t)
               to == LeastLoaded(RolledTable(from))
           IN  /\ from \in Workers /\ to \in Workers /\ to # from
               /\ TargetLoad(t) = workers_table[to].last + 1
               /\ \A v \in Workers \ {from} :
                      workers_table[to].last <= workers_table[v].last
<1> DEFINE from == Wid(t)
           table == RolledTable(from)
           to == LeastLoaded(table)
<1> USE WidthAssumption
<1>1. from \in Workers
  BY DEF IInv, BalancerTypeOK, Wid
<1>2. /\ table[from] = Rolled(from)
      /\ \A v \in Workers \ {from} : table[v] = workers_table[v]
  BY <1>1 DEF RolledTable, IInv, BalancerTypeOK
<1>3. \A v \in Workers :
         /\ table[v].last \in 0 .. U32 - 1
         /\ table[v].last <= LineRate \/ table[v].last < MaxLoad
  BY <1>1, <1>2, RolledRow DEF IInv, BalancerTypeOK, LoadsAreReal
<1>4. \A v \in Workers : table[v].last \in Nat
  BY <1>3
<1> HIDE DEF table
<1>5. /\ to \in Workers
      /\ \A v \in Workers : table[to].last <= table[v].last
  BY <1>4, LeastLoadedIsMinimal
<1>6. TargetLoad(t) = (table[to].last + 1) % U32
  BY DEF TargetLoad, table
<1>7. TargetLoad(t) = table[to].last + 1
  <2>1. table[to].last + 1 \in 0 .. U32 - 1
    BY <1>3, <1>5
  <2> QED
    BY <1>6, <2>1
<1>8. to # from
  <2>1. SUFFICES ASSUME to = from PROVE FALSE
    OBVIOUS
  <2>2. table[to].last >= MaxLoad
    BY <1>2, <2>1 DEF Overloaded
  <2> QED
    BY <1>3, <1>5, <1>7, <2>2
<1> QED
  BY <1>1, <1>2, <1>5, <1>7, <1>8 DEF table

-----------------------------------------------------------------------------
(* What each of the four paths does to the tables *)

Rows == [slot : Slots \cup {0}, load : 0 .. U32 - 1,
         last : 0 .. U32 - 1, times : 0 .. U32 - 1]

(* Charging a packet to a row below the line rate adds one to its load.      *)
LEMMA ChargedRow ==
    ASSUME NEW row \in Rows, row.load < LineRate
    PROVE  Charged(row) = [slot |-> row.slot, load |-> row.load + 1,
                           last |-> row.last, times |-> row.times]
<1>1. (row.load + 1) % U32 = row.load + 1
  BY WidthAssumption DEF Rows
<1>2. Charged(row) = [row EXCEPT !.load = (row.load + 1) % U32]
  BY DEF Charged
<1> QED
  BY <1>1, <1>2 DEF Rows

(* The worker's row after a packet of t that is not its first in the slot.   *)
LEMMA SameSlotStep ==
    ASSUME IInv, NEW t \in Tenants, BelowLineRate(t), SameSlot(t)
    PROVE  LET w == Wid(t) row == workers_table[w]
           IN  /\ w \in Workers /\ row \in Rows
               /\ workers_table' = [workers_table EXCEPT ![w] =
                      [slot |-> row.slot, load |-> row.load + 1,
                       last |-> row.last, times |-> row.times]]
               /\ row.load + 1 <= LineRate
<1> DEFINE w == Wid(t) row == workers_table[w]
<1>1. w \in Workers /\ row \in Rows
  BY DEF IInv, BalancerTypeOK, Wid, Rows
<1>2. row.load < LineRate
  BY WidthAssumption, <1>1 DEF BelowLineRate, NewSlot, SameSlot, Rows
<1>3. workers_table' = [workers_table EXCEPT ![w] = Charged(row)]
  BY DEF SameSlot
<1>4. Charged(row) = [slot |-> row.slot, load |-> row.load + 1,
                      last |-> row.last, times |-> row.times]
  BY <1>1, <1>2, ChargedRow
<1>5. row.load + 1 <= LineRate
  BY <1>1, <1>2, WidthAssumption DEF Rows
<1> QED
  BY <1>1, <1>3, <1>4, <1>5

(* The first packet of a slot that leaves its tenant where it is: the row is *)
(* rolled and charged, and only the streak differs between Stay and NoRoom.  *)
LEMMA BoundStep ==
    ASSUME IInv, NEW t \in Tenants, BelowLineRate(t), Stay(t) \/ NoRoom(t)
    PROVE  LET w == Wid(t) row == Rolled(w)
           IN  /\ w \in Workers /\ row \in Rows
               /\ row.load + 1 <= LineRate
               /\ tenants_table' = [tenants_table EXCEPT ![t] =
                      [slot |-> timeslot, nb |-> 1, wid |-> w]]
               /\ \E times \in 0 .. U32 - 1 :
                    /\ times > 0 => row.last >= MaxLoad
                    /\ workers_table' = [workers_table EXCEPT ![w] =
                          [slot |-> row.slot, load |-> row.load + 1,
                           last |-> row.last, times |-> times]]
<1> DEFINE w == Wid(t) row == Rolled(w)
<1> USE WidthAssumption
<1>1. w \in Workers
  BY DEF IInv, BalancerTypeOK, Wid
<1>2. row \in Rows
  BY <1>1, RolledRow DEF Rows
<1>3. row.load < LineRate
  BY <1>2 DEF BelowLineRate, Stay, NoRoom, Rows
<1>4. tenants_table' = [tenants_table EXCEPT ![t] =
                          [slot |-> timeslot, nb |-> 1, wid |-> w]]
  BY DEF Stay, NoRoom, FirstPacket
<1> DEFINE streak == IF Overloaded(t) THEN (row.times + 1) % U32 ELSE 0
           new == [slot |-> row.slot, load |-> row.load,
                   last |-> row.last, times |-> streak]
<1>5. streak \in 0 .. U32 - 1 /\ (streak > 0 => row.last >= MaxLoad)
  BY <1>2 DEF Rows, Overloaded
<1>6. workers_table' = [workers_table EXCEPT ![w] = Charged(new)]
  <2>1. CASE Stay(t)
    <3>1. ~Overloaded(t) /\ [row EXCEPT !.times = 0] = new
      BY <1>2, <2>1 DEF Stay, Rows
    <3> QED
      BY <2>1, <3>1 DEF Stay
  <2>2. CASE NoRoom(t)
    <3>1. Overloaded(t) /\ Streak(w) = new
      BY <1>2, <2>2 DEF NoRoom, Streak, Rows
    <3> QED
      BY <2>2, <3>1 DEF NoRoom
  <2> QED
    BY <2>1, <2>2
<1>7. Charged(new) = [slot |-> row.slot, load |-> row.load + 1,
                      last |-> row.last, times |-> streak]
  <2>1. new \in Rows /\ new.load < LineRate
    BY <1>2, <1>3, <1>5 DEF Rows
  <2> HIDE DEF streak
  <2> QED
    BY <2>1, ChargedRow
<1>8. row.load + 1 <= LineRate
  BY <1>2, <1>3 DEF Rows
<1> HIDE DEF streak
<1> QED
  BY <1>1, <1>2, <1>4, <1>5, <1>6, <1>7, <1>8

(* A migration: one unit of last load goes from the row of the old worker,   *)
(* which is rolled and charged, to the row of the target.                    *)
LEMMA MigrateStep ==
    ASSUME IInv, NEW t \in Tenants, BelowLineRate(t), Migrate(t)
    PROVE  LET from == Wid(t)
               to == LeastLoaded(RolledTable(from))
               row == Rolled(from)
           IN  /\ from \in Workers /\ to \in Workers /\ to # from
               /\ row \in Rows
               /\ row.load + 1 <= LineRate
               /\ row.last >= MaxLoad
               /\ workers_table[to].last + 1 < MaxLoad
               /\ tenants_table' = [tenants_table EXCEPT ![t] =
                      [slot |-> timeslot, nb |-> 1, wid |-> to]]
               /\ \E times \in 0 .. U32 - 1 :
                    workers_table' = [workers_table EXCEPT
                      ![from] = [slot |-> row.slot, load |-> row.load + 1,
                                 last |-> row.last - 1, times |-> times],
                      ![to].last = workers_table[to].last + 1]
<1> DEFINE from == Wid(t)
           to == LeastLoaded(RolledTable(from))
           row == Rolled(from)
           times == (row.times + 1) % U32
           new == [slot |-> row.slot, load |-> row.load,
                   last |-> row.last - 1, times |-> times]
<1>1. Overloaded(t) /\ TargetLoad(t) < MaxLoad /\ NewSlot(t)
  BY DEF Migrate
<1>2. /\ from \in Workers /\ to \in Workers /\ to # from
      /\ TargetLoad(t) = workers_table[to].last + 1
  BY <1>1, Target
<1>3. row \in Rows
  BY <1>2, RolledRow DEF Rows
<1>4. row.last >= MaxLoad /\ row.load < LineRate
  BY <1>1 DEF Overloaded, BelowLineRate
<1>5. times \in 0 .. U32 - 1
  BY <1>3, WidthAssumption DEF Rows
<1>6. [Streak(from) EXCEPT !.last = (@ - 1) % U32] = new
  <2>1. (row.last - 1) % U32 = row.last - 1
    BY <1>3, <1>4, WidthAssumption DEF Rows
  <2>2. Streak(from) = [slot |-> row.slot, load |-> row.load,
                        last |-> row.last, times |-> times]
    <3>1. Streak(from) = [row EXCEPT !.times = times]
      BY DEF Streak
    <3> HIDE DEF times, row
    <3> QED
      BY <1>3, <3>1 DEF Rows
  <2> HIDE DEF times, row
  <2> QED
    BY <2>1, <2>2
<1>7. Charged(new) = [slot |-> row.slot, load |-> row.load + 1,
                      last |-> row.last - 1, times |-> times]
  <2>1. row.last - 1 \in 0 .. U32 - 1
    BY <1>3, <1>4, WidthAssumption DEF Rows
  <2> HIDE DEF times, row
  <2>2. new \in Rows /\ new.load < LineRate
    BY <1>3, <1>4, <1>5, <2>1 DEF Rows
  <2> QED
    BY <2>2, ChargedRow
<1>8. workers_table' = [workers_table EXCEPT ![from] = Charged(new),
                                             ![to].last = TargetLoad(t)]
  BY <1>6 DEF Migrate
<1>9. tenants_table' = [tenants_table EXCEPT ![t] =
                          [slot |-> timeslot, nb |-> 1, wid |-> to]]
  BY DEF Migrate, FirstPacket
<1>10. row.load + 1 <= LineRate
  BY <1>3, <1>4, WidthAssumption DEF Rows
<1> HIDE DEF times
<1> QED
  BY <1>1, <1>2, <1>3, <1>4, <1>5, <1>7, <1>8, <1>9, <1>10

(* The same, row by row.                                                     *)
LEMMA MigrateRows ==
    ASSUME IInv, NEW t \in Tenants, BelowLineRate(t), Migrate(t)
    PROVE  LET from == Wid(t)
               to == LeastLoaded(RolledTable(from))
               row == Rolled(from)
               target == workers_table[to]
           IN  /\ workers_table' \in [Workers -> Rows]
               /\ workers_table'[to] = [slot |-> target.slot, load |-> target.load,
                                        last |-> target.last + 1,
                                        times |-> target.times]
               /\ \E times \in 0 .. U32 - 1 :
                    workers_table'[from] = [slot |-> row.slot, load |-> row.load + 1,
                                            last |-> row.last - 1, times |-> times]
               /\ \A v \in Workers \ {from, to} :
                    workers_table'[v] = workers_table[v]
<1> DEFINE from == Wid(t)
           to == LeastLoaded(RolledTable(from))
           row == Rolled(from)
           target == workers_table[to]
<1>1. /\ from \in Workers /\ to \in Workers /\ to # from
      /\ row \in Rows /\ row.load + 1 <= LineRate
      /\ row.last >= MaxLoad /\ target.last + 1 < MaxLoad
  BY MigrateStep
<1>2. PICK times \in 0 .. U32 - 1 :
        workers_table' = [workers_table EXCEPT
          ![from] = [slot |-> row.slot, load |-> row.load + 1,
                     last |-> row.last - 1, times |-> times],
          ![to].last = workers_table[to].last + 1]
  BY MigrateStep
<1>3. workers_table \in [Workers -> Rows]
  BY DEF IInv, BalancerTypeOK, Rows
<1> DEFINE newFrom == [slot |-> row.slot, load |-> row.load + 1,
                       last |-> row.last - 1, times |-> times]
           newTo == [slot |-> target.slot, load |-> target.load,
                     last |-> target.last + 1, times |-> target.times]
<1>4. newFrom \in Rows
  BY <1>1, WidthAssumption DEF Rows
<1>5. target \in Rows /\ newTo \in Rows
  BY <1>1, <1>3, WidthAssumption DEF Rows
<1> HIDE DEF from, to, row
<1>6. [target EXCEPT !.last = workers_table[to].last + 1] = newTo
  BY <1>5 DEF Rows
<1>7. workers_table' = [v \in Workers |-> IF v = from THEN newFrom
                                          ELSE IF v = to THEN newTo
                                          ELSE workers_table[v]]
  BY <1>1, <1>2, <1>3, <1>6
<1> HIDE DEF newFrom, newTo
<1>8. /\ workers_table' \in [Workers -> Rows]
      /\ workers_table'[to] = newTo /\ workers_table'[from] = newFrom
      /\ \A v \in Workers \ {from, to} : workers_table'[v] = workers_table[v]
  BY <1>1, <1>3, <1>4, <1>5, <1>7
<1> QED
  BY <1>8 DEF newFrom, newTo, from, to, row

-----------------------------------------------------------------------------
(* Safety *)

LEMMA InitInvariant == BalancerInit => IInv /\ StreakIsJustified
<1> SUFFICES ASSUME BalancerInit PROVE IInv /\ StreakIsJustified
  OBVIOUS
<1> USE SizesAssumption, WidthAssumption, SlotsAssumption DEF BalancerInit
<1>1. BalancerTypeOK
  BY DEF BalancerTypeOK, Tenants
<1>2. LoadsAreReal /\ StreakIsJustified
  BY DEF LoadsAreReal, StreakIsJustified
<1> QED
  BY <1>1, <1>2 DEF IInv

(* A packet keeps the types of both tables.                                  *)
LEMMA PacketKeepsTypes ==
    ASSUME IInv, NEW t \in Tenants, Packet(t)
    PROVE  BalancerTypeOK'
<1> USE WidthAssumption, SlotsAssumption
<1>1. timeslot \in Slots /\ timeslot' \in Slots /\ BelowLineRate(t)
  BY DEF IInv, BalancerTypeOK, Packet, Account
<1>2. tenants_table' \in
        [Tenants -> [slot : Slots \cup {0}, nb : 0 .. U32 - 1, wid : Workers]]
  <2>1. CASE SameSlot(t)
    <3>1. (tenants_table[t].nb + 1) % U32 \in 0 .. U32 - 1
      BY DEF IInv, BalancerTypeOK
    <3> QED
      BY <2>1, <3>1 DEF SameSlot, IInv, BalancerTypeOK
  <2>2. CASE Stay(t) \/ NoRoom(t)
    BY <1>1, <2>2, BoundStep DEF IInv, BalancerTypeOK
  <2>3. CASE Migrate(t)
    BY <1>1, <2>3, MigrateStep DEF IInv, BalancerTypeOK
  <2> QED
    BY <2>1, <2>2, <2>3 DEF Packet, Account
<1>3. workers_table' \in [Workers -> Rows]
  <2>0. workers_table \in [Workers -> Rows]
    BY DEF IInv, BalancerTypeOK, Rows
  <2>1. CASE SameSlot(t)
    BY <1>1, <2>0, <2>1, SameSlotStep DEF Rows
  <2>2. CASE Stay(t) \/ NoRoom(t)
    BY <1>1, <2>0, <2>2, BoundStep DEF Rows
  <2>3. CASE Migrate(t)
    BY <1>1, <2>3, MigrateRows
  <2> QED
    BY <2>1, <2>2, <2>3 DEF Packet, Account
<1> QED
  BY <1>1, <1>2, <1>3 DEF BalancerTypeOK, Rows

(* A packet keeps the loads within the line rate and the streaks justified:  *)
(* only a migration touches two rows, and it takes from the one at least     *)
(* what keeps its streak justified and leaves the other below the limit.     *)
LEMMA PacketKeepsLoads ==
    ASSUME IInv, StreakIsJustified, NEW t \in Tenants, Packet(t)
    PROVE  LoadsAreReal' /\ StreakIsJustified'
<1> USE WidthAssumption
<1>1. BelowLineRate(t)
  BY DEF Packet, Account
<1>2. \A w \in Workers :
        /\ workers_table[w] \in Rows
        /\ workers_table[w].load <= LineRate
        /\ workers_table[w].last <= LineRate \/ workers_table[w].last < MaxLoad
        /\ workers_table[w].times > 0 => workers_table[w].last >= MaxLoad - 1
  BY DEF IInv, BalancerTypeOK, LoadsAreReal, StreakIsJustified, Rows
<1>3. workers_table \in [Workers -> Rows]
  BY DEF IInv, BalancerTypeOK, Rows
<1> SUFFICES ASSUME NEW w \in Workers
             PROVE  /\ workers_table'[w].load <= LineRate
                    /\ \/ workers_table'[w].last <= LineRate
                       \/ workers_table'[w].last < MaxLoad
                    /\ workers_table'[w].times > 0
                         => workers_table'[w].last >= MaxLoad - 1
  BY DEF LoadsAreReal, StreakIsJustified
<1>4. CASE SameSlot(t)
  BY <1>1, <1>2, <1>3, <1>4, SameSlotStep DEF Rows
<1>5. CASE Stay(t) \/ NoRoom(t)
  <2>1. Rolled(Wid(t)).last <= LineRate \/ Rolled(Wid(t)).last < MaxLoad
    BY <1>1, <1>5, BoundStep, RolledRow
  <2> QED
    BY <1>1, <1>2, <1>3, <1>5, <2>1, BoundStep DEF Rows
<1>6. CASE Migrate(t)
  <2>1. Rolled(Wid(t)).last <= LineRate \/ Rolled(Wid(t)).last < MaxLoad
    BY <1>1, <1>6, MigrateStep, RolledRow
  <2>2. w = Wid(t) \/ w = LeastLoaded(RolledTable(Wid(t)))
         \/ workers_table'[w] = workers_table[w]
    BY <1>1, <1>6, MigrateRows
  <2> DEFINE row == Rolled(Wid(t))
             target == workers_table[LeastLoaded(RolledTable(Wid(t)))]
  <2>3. /\ row \in Rows /\ row.load + 1 <= LineRate /\ row.last >= MaxLoad
        /\ target.last + 1 < MaxLoad
    BY <1>1, <1>6, MigrateStep
  <2>4. CASE w = Wid(t)
    <3>1. PICK times \in 0 .. U32 - 1 :
            workers_table'[w] = [slot |-> row.slot, load |-> row.load + 1,
                                 last |-> row.last - 1, times |-> times]
      BY <1>1, <1>6, <2>4, MigrateRows
    <3> HIDE DEF row, target
    <3> QED
      BY <2>1, <2>3, <3>1 DEF row, Rows
  <2>5. CASE w = LeastLoaded(RolledTable(Wid(t)))
    <3>1. workers_table'[w] = [slot |-> target.slot, load |-> target.load,
                               last |-> target.last + 1, times |-> target.times]
      BY <1>1, <1>6, <2>5, MigrateRows
    <3>2. /\ target \in Rows /\ target.load <= LineRate
          /\ target.times > 0 => target.last >= MaxLoad - 1
      BY <1>2, <2>5
    <3> HIDE DEF row, target
    <3> QED
      BY <2>3, <3>1, <3>2 DEF Rows
  <2> QED
    BY <1>2, <2>2, <2>4, <2>5
<1> QED
  BY <1>4, <1>5, <1>6 DEF Packet, Account

LEMMA StepInvariant ==
    ASSUME IInv, StreakIsJustified, [BalancerNext]_balancerVars
    PROVE  IInv' /\ StreakIsJustified'
<1>1. CASE Tick
  BY <1>1 DEF Tick, tables, IInv, BalancerTypeOK, LoadsAreReal, StreakIsJustified
<1>2. ASSUME NEW t \in Tenants, Packet(t)
      PROVE  IInv' /\ StreakIsJustified'
  BY <1>2, PacketKeepsTypes, PacketKeepsLoads DEF IInv
<1>3. CASE UNCHANGED balancerVars
  BY <1>3 DEF balancerVars, IInv, BalancerTypeOK, LoadsAreReal, StreakIsJustified
<1> QED
  BY <1>1, <1>2, <1>3 DEF BalancerNext

(* Both tables keep their types, for any number of tenants and workers.      *)
THEOREM TypeCorrect == BalancerSpec => []BalancerTypeOK
<1>1. BalancerSpec => [](IInv /\ StreakIsJustified)
  BY InitInvariant, StepInvariant, PTL DEF BalancerSpec
<1> QED
  BY <1>1, PTL DEF IInv

(* The subtraction of main.c:208 never wraps below zero.                     *)
THEOREM LoadsStayReal == BalancerSpec => []LoadsAreReal
<1>1. BalancerSpec => [](IInv /\ StreakIsJustified)
  BY InitInvariant, StepInvariant, PTL DEF BalancerSpec
<1> QED
  BY <1>1, PTL DEF IInv

(* A running overload streak always belongs to a worker at the limit.        *)
THEOREM StreaksStayJustified == BalancerSpec => []StreakIsJustified
<1>1. BalancerSpec => [](IInv /\ StreakIsJustified)
  BY InitInvariant, StepInvariant, PTL DEF BalancerSpec
<1> QED
  BY <1>1, PTL

(* No row of a worker wraps or reports an overload that is over.             *)
THEOREM WorkerRowsStaySound == BalancerSpec => []WorkerRowsAreSound
BY LoadsStayReal, StreaksStayJustified, PTL DEF WorkerRowsAreSound

-----------------------------------------------------------------------------
(* What a step may do to the bindings *)

LEMMA StepMigrationIsSound ==
    ASSUME IInv, [BalancerNext]_balancerVars
    PROVE  MigrationIsSound
<1> SUFFICES ASSUME NEW t \in Tenants, tenants_table'[t].wid # Wid(t)
             PROVE  LET from == Wid(t)
                        to == tenants_table'[t].wid
                    IN  /\ NewSlot(t) /\ tenants_table'[t].slot = timeslot
                        /\ Rolled(from).last >= MaxLoad
                        /\ \A v \in Workers \ {from} :
                               workers_table[to].last <= workers_table[v].last
                        /\ workers_table'[to].last < MaxLoad
                        /\ workers_table'[from].last + workers_table'[to].last
                             = Rolled(from).last + workers_table[to].last
  BY DEF MigrationIsSound
<1>1. PICK u \in Tenants : Packet(u)
  BY DEF BalancerNext, Tick, tables, balancerVars, Wid
<1>2. tenants_table \in
        [Tenants -> [slot : Slots \cup {0}, nb : 0 .. U32 - 1, wid : Workers]]
  BY DEF IInv, BalancerTypeOK
<1>3. BelowLineRate(u) /\ (SameSlot(u) \/ Stay(u) \/ NoRoom(u) \/ Migrate(u))
  BY <1>1 DEF Packet, Account
<1>4. Migrate(u) /\ u = t
  <2>1. ~SameSlot(u)
    BY <1>2 DEF SameSlot, Wid
  <2>2. ~(Stay(u) \/ NoRoom(u))
    BY <1>2 DEF Stay, NoRoom, FirstPacket, Wid
  <2>3. Migrate(u)
    BY <1>3, <2>1, <2>2
  <2> QED
    BY <1>2, <2>3 DEF Migrate, FirstPacket, Wid
<1> DEFINE from == Wid(t)
           to == LeastLoaded(RolledTable(from))
           row == Rolled(from)
           target == workers_table[to]
<1>5. tenants_table'[t] = [slot |-> timeslot, nb |-> 1, wid |-> to]
  BY <1>2, <1>4 DEF Migrate, FirstPacket
<1>6. /\ from \in Workers /\ to \in Workers /\ to # from /\ row \in Rows
      /\ row.last >= MaxLoad /\ target.last + 1 < MaxLoad
  BY <1>3, <1>4, MigrateStep
<1>7. \A v \in Workers \ {from} : target.last <= workers_table[v].last
  BY <1>4, Target DEF Migrate
<1>8. workers_table'[from].last = row.last - 1
  <2>1. PICK times \in 0 .. U32 - 1 :
          workers_table'[from] = [slot |-> row.slot, load |-> row.load + 1,
                                  last |-> row.last - 1, times |-> times]
    BY <1>3, <1>4, MigrateRows
  <2> QED
    BY <2>1
<1>9. workers_table'[to].last = target.last + 1
  <2>1. workers_table'[to] = [slot |-> target.slot, load |-> target.load,
                              last |-> target.last + 1, times |-> target.times]
    BY <1>3, <1>4, MigrateRows
  <2> QED
    BY <2>1
<1>10. target \in Rows
  BY <1>6 DEF IInv, BalancerTypeOK, Rows
<1>11. NewSlot(t)
  BY <1>4 DEF Migrate
<1>12. workers_table'[from].last + workers_table'[to].last = row.last + target.last
  BY <1>6, <1>8, <1>9, <1>10, WidthAssumption DEF Rows
<1> QED
  BY <1>5, <1>6, <1>7, <1>9, <1>11, <1>12

(* A tenant only ever leaves an overloaded worker for one that stays below   *)
(* the limit, and the load it takes along is conserved.                      *)
THEOREM MigrationsStaySound == BalancerSpec => MigrationsAreSound
<1>1. BalancerSpec => [](IInv /\ StreakIsJustified)
  BY InitInvariant, StepInvariant, PTL DEF BalancerSpec
<1>2. IInv /\ [BalancerNext]_balancerVars => [MigrationIsSound]_balancerVars
  BY StepMigrationIsSound
<1> QED
  BY <1>1, <1>2, PTL DEF BalancerSpec, MigrationsAreSound

LEMMA StepKeepsExclusion ==
    ASSUME IInv, [BalancerNext]_balancerVars, NEW w \in Workers, Excluded(w)
    PROVE  Excluded(w)'
<1> USE WidthAssumption
<1>1. CASE Tick \/ UNCHANGED balancerVars
  BY <1>1 DEF Tick, tables, balancerVars, Excluded, Wid
<1>2. ASSUME NEW t \in Tenants, Packet(t)
      PROVE  Excluded(w)'
  <2>1. BelowLineRate(t) /\ (SameSlot(t) \/ Stay(t) \/ NoRoom(t) \/ Migrate(t))
    BY <1>2 DEF Packet, Account
  <2>2. Wid(t) # w /\ workers_table[w].last >= MaxLoad - 1
    BY DEF Excluded
  <2>3. workers_table \in [Workers -> Rows]
    BY DEF IInv, BalancerTypeOK, Rows
  <2>4. tenants_table \in
          [Tenants -> [slot : Slots \cup {0}, nb : 0 .. U32 - 1, wid : Workers]]
    BY DEF IInv, BalancerTypeOK
  <2>5. CASE SameSlot(t)
    BY <2>2, <2>3, <2>4, <2>5 DEF SameSlot, Excluded, Wid
  <2>6. CASE Stay(t) \/ NoRoom(t)
    BY <2>2, <2>3, <2>4, <2>6 DEF Stay, NoRoom, FirstPacket, Excluded, Wid
  <2>7. CASE Migrate(t)
    <3> DEFINE to == LeastLoaded(RolledTable(Wid(t)))
    <3>1. to \in Workers /\ workers_table[to].last + 1 < MaxLoad
      BY <2>1, <2>7, MigrateStep
    <3>2. to # w
      BY <2>2, <2>3, <3>1 DEF Rows
    <3>3. workers_table'[w] = workers_table[w]
      BY <2>1, <2>2, <2>7, <3>2, MigrateRows
    <3>4. tenants_table' = [tenants_table EXCEPT ![t] =
                              [slot |-> timeslot, nb |-> 1, wid |-> to]]
      BY <2>7 DEF Migrate, FirstPacket
    <3> HIDE DEF to
    <3> QED
      BY <2>2, <2>4, <3>2, <3>3, <3>4 DEF Excluded, Wid
  <2> QED
    BY <2>1, <2>5, <2>6, <2>7
<1> QED
  BY <1>1, <1>2 DEF BalancerNext

(* A worker emptied at the limit never gets a tenant again, however many     *)
(* slots pass: what the code does when it balances the load this way.        *)
THEOREM ExclusionStaysPermanent == BalancerSpec => ExclusionIsPermanent
<1>1. BalancerSpec => [](IInv /\ StreakIsJustified)
  BY InitInvariant, StepInvariant, PTL DEF BalancerSpec
<1>2. IInv /\ [BalancerNext]_balancerVars
        => [\A w \in Workers : Excluded(w) => Excluded(w)']_balancerVars
  BY StepKeepsExclusion
<1> QED
  BY <1>1, <1>2, PTL DEF BalancerSpec, ExclusionIsPermanent

-----------------------------------------------------------------------------
(* The types *)

(* What a ring takes of a batch is no more than the batch and no more than   *)
(* the room it has.                                                          *)
LEMMA FitsIsBounded ==
    ASSUME DispatcherTypeOK, NEW w \in Workers
    PROVE  /\ Fits(w) \in 0 .. MAX_PKT_BUFFER
           /\ Len(rings[w]) + Fits(w) <= RingSize
<1>1. rings[w] \in Seq(Mbufs) /\ Len(rings[w]) <= RingSize
  BY DEF DispatcherTypeOK, QueuesAreBounded
<1> DEFINE used == Len(rings[w])
<1>2. used \in Nat /\ used <= RingSize
  BY <1>1
<1>3. RingSize \in Nat /\ MAX_PKT_BUFFER \in Nat
  BY DispatcherAssumption
<1>4. Fits(w) = IF RingSize - used < MAX_PKT_BUFFER THEN RingSize - used
                                                    ELSE MAX_PKT_BUFFER
  BY DEF Fits
<1> HIDE DEF used
<1>5. Fits(w) \in 0 .. MAX_PKT_BUFFER /\ used + Fits(w) <= RingSize
  BY <1>2, <1>3, <1>4
<1> QED
  BY <1>5 DEF used

-----------------------------------------------------------------------------
(* The steps *)

QueueTypes ==
    /\ q_buffers \in [Workers -> Seq(Mbufs)]
    /\ rings \in [Workers -> Seq(Mbufs)]
    /\ pool \in [Mbufs -> Nat]
    /\ held \in [Mbufs -> Nat]
    /\ quotaFrees \in [Mbufs -> Nat]
    /\ QueuesAreBounded

(* A full batch of a worker goes to its ring, and what does not fit to the   *)
(* pool.                                                                     *)
LEMMA FlushKeepsTypes ==
    ASSUME DispatcherTypeOK, NEW w \in Workers, NEW batch \in Seq(Mbufs),
           Len(batch) = MAX_PKT_BUFFER, NEW free \in [Mbufs -> Nat],
           Flush(w, batch, free)
    PROVE  /\ q_buffers' \in [Workers -> Seq(Mbufs)]
           /\ rings' \in [Workers -> Seq(Mbufs)]
           /\ pool' \in [Mbufs -> Nat]
           /\ QueuesAreBounded'
<1> DEFINE n == Fits(w)
           moved == SubSeq(batch, 1, n)
           left == SubSeq(batch, n + 1, Len(batch))
<1> USE DispatcherAssumption
<1>1. n \in 0 .. Len(batch) /\ Len(rings[w]) + n <= RingSize
  BY FitsIsBounded
<1>2. /\ q_buffers \in [Workers -> Seq(Mbufs)]
      /\ rings \in [Workers -> Seq(Mbufs)]
      /\ \A v \in Workers : /\ Len(q_buffers[v]) < MAX_PKT_BUFFER
                            /\ Len(rings[v]) <= RingSize
  BY DEF DispatcherTypeOK, QueuesAreBounded
<1> HIDE DEF n
<1>3. moved \in Seq(Mbufs) /\ Len(moved) = n
  BY <1>1, SubSeqProperties
<1>4. left \in Seq(Mbufs)
  BY <1>1, SubSeqProperties
<1>5. /\ rings[w] \o moved \in Seq(Mbufs)
      /\ Len(rings[w] \o moved) = Len(rings[w]) + n
  BY <1>2, <1>3, ConcatProperties
<1>6. /\ rings' = [rings EXCEPT ![w] = rings[w] \o moved]
      /\ q_buffers' = [q_buffers EXCEPT ![w] = <<>>]
      /\ pool' = Put(free, left)
  BY DEF Flush, n
<1>7. pool' \in [Mbufs -> Nat]
  BY <1>4, <1>6, PutIsBag
<1> HIDE DEF moved, left
<1>8. /\ rings' \in [Workers -> Seq(Mbufs)]
      /\ \A v \in Workers : Len(rings'[v]) <= RingSize
  BY <1>1, <1>2, <1>5, <1>6
<1>9. <<>> \in Seq(Mbufs) /\ Len(<<>>) = 0
  OBVIOUS
<1>10. /\ q_buffers' \in [Workers -> Seq(Mbufs)]
       /\ \A v \in Workers : Len(q_buffers'[v]) < MAX_PKT_BUFFER
  BY <1>2, <1>6, <1>9
<1> QED
  BY <1>7, <1>8, <1>10 DEF QueuesAreBounded

(* A batch that is not full waits, and stays below a full one.               *)
LEMMA BufferKeepsTypes ==
    ASSUME DispatcherTypeOK, NEW w \in Workers, NEW batch \in Seq(Mbufs),
           Len(batch) < MAX_PKT_BUFFER, NEW free \in [Mbufs -> Nat],
           Buffer(w, batch, free)
    PROVE  /\ q_buffers' \in [Workers -> Seq(Mbufs)]
           /\ rings' \in [Workers -> Seq(Mbufs)]
           /\ pool' \in [Mbufs -> Nat]
           /\ QueuesAreBounded'
BY DEF Buffer, DispatcherTypeOK, QueuesAreBounded

(* A received packet is appended to the batch of its tenant's worker.        *)
LEMMA DispatchKeepsTypes ==
    ASSUME DispatcherTypeOK, NEW m \in Mbufs, NEW t \in Tenants, Dispatch(m, t)
    PROVE  QueueTypes'
<1> DEFINE w == Wid(t)
           over == IF OverQuota(t) THEN 1 ELSE 0
           free == [pool EXCEPT ![m] = @ - 1 + over]
           batch == Append(q_buffers[w], m)
<1> USE DispatcherAssumption
<1>1. w \in Workers
  BY DEF DispatcherTypeOK, BalancerTypeOK, Wid
<1>2. /\ pool \in [Mbufs -> Nat] /\ quotaFrees \in [Mbufs -> Nat]
      /\ held \in [Mbufs -> Nat]
      /\ q_buffers[w] \in Seq(Mbufs) /\ Len(q_buffers[w]) < MAX_PKT_BUFFER
      /\ MAX_PKT_BUFFER \in Nat
  BY <1>1 DEF DispatcherTypeOK, QueuesAreBounded
<1>3. /\ pool[m] > 0
      /\ quotaFrees' = [quotaFrees EXCEPT ![m] = @ + over]
      /\ IF Len(batch) = MAX_PKT_BUFFER THEN Flush(w, batch, free)
                                        ELSE Buffer(w, batch, free)
      /\ held' = held
  BY DEF Dispatch
<1>4. over \in {0, 1}
  OBVIOUS
<1> HIDE DEF over, w
<1>5. free \in [Mbufs -> Nat] /\ quotaFrees' \in [Mbufs -> Nat]
  <2>1. pool[m] \in Nat /\ pool[m] > 0 /\ quotaFrees[m] \in Nat
    BY <1>2, <1>3
  <2>2. pool[m] - 1 + over \in Nat /\ quotaFrees[m] + over \in Nat
    BY <1>4, <2>1
  <2> QED
    BY <1>2, <1>3, <2>2
<1>6. /\ batch \in Seq(Mbufs) /\ Len(batch) \in Nat
      /\ Len(batch) <= MAX_PKT_BUFFER
  <2>1. q_buffers[w] \in Seq(Mbufs) /\ Len(q_buffers[w]) \in Nat
    BY <1>2
  <2>2. Len(batch) = Len(q_buffers[w]) + 1 /\ batch \in Seq(Mbufs)
    BY <2>1
  <2> QED
    BY <1>2, <2>1, <2>2
<1> HIDE DEF free, batch
<1>7. CASE Len(batch) = MAX_PKT_BUFFER
  BY <1>1, <1>2, <1>3, <1>5, <1>6, <1>7, FlushKeepsTypes DEF QueueTypes
<1>8. CASE Len(batch) # MAX_PKT_BUFFER
  <2>1. Len(batch) < MAX_PKT_BUFFER
    BY <1>2, <1>6, <1>8
  <2> QED
    BY <1>1, <1>2, <1>3, <1>5, <1>6, <1>8, <2>1, BufferKeepsTypes DEF QueueTypes
<1> QED
  BY <1>7, <1>8

(* A worker takes a burst from the front of its ring.                        *)
LEMMA TakeBurstKeepsTypes ==
    ASSUME DispatcherTypeOK, NEW w \in Workers, TakeBurst(w)
    PROVE  QueueTypes'
<1> DEFINE n == IF Len(rings[w]) < MAX_PKT_BUFFER THEN Len(rings[w])
                                                  ELSE MAX_PKT_BUFFER
           burst == SubSeq(rings[w], 1, n)
           left == SubSeq(rings[w], n + 1, Len(rings[w]))
<1> USE DispatcherAssumption
<1>1. rings \in [Workers -> Seq(Mbufs)] /\ held \in [Mbufs -> Nat]
  BY DEF DispatcherTypeOK
<1>2. rings[w] \in Seq(Mbufs) /\ Len(rings[w]) \in Nat
  BY <1>1
<1>3. n \in 0 .. Len(rings[w])
  BY <1>2
<1>4. /\ held' = Put(held, burst)
      /\ rings' = [rings EXCEPT ![w] = left]
      /\ UNCHANGED <<q_buffers, pool, quotaFrees>>
  BY DEF TakeBurst
<1> HIDE DEF n
<1>5. burst \in Seq(Mbufs)
  BY <1>2, <1>3, SubSeqProperties
<1>6. left \in Seq(Mbufs) /\ Len(left) <= Len(rings[w])
  <2>1. CASE n = Len(rings[w])
    BY <1>2, <2>1, SubSeqProperties
  <2>2. CASE n < Len(rings[w])
    BY <1>2, <1>3, <2>2, SubSeqProperties
  <2> QED
    BY <1>3, <2>1, <2>2
<1> HIDE DEF burst, left
<1>7. held' \in [Mbufs -> Nat]
  BY <1>1, <1>4, <1>5, PutIsBag
<1>8. /\ rings' \in [Workers -> Seq(Mbufs)]
      /\ \A v \in Workers : Len(rings'[v]) <= RingSize
  BY <1>1, <1>2, <1>4, <1>6 DEF DispatcherTypeOK, QueuesAreBounded
<1> QED
  BY <1>4, <1>7, <1>8 DEF DispatcherTypeOK, QueuesAreBounded, QueueTypes

(* A worker frees a packet, or its port has sent it.                         *)
LEMMA GiveBackKeepsTypes ==
    ASSUME DispatcherTypeOK, NEW m \in Mbufs, GiveBack(m)
    PROVE  QueueTypes'
<1>1. held' \in [Mbufs -> Nat] /\ pool' \in [Mbufs -> Nat]
  BY DEF GiveBack, DispatcherTypeOK
<1> QED
  BY <1>1 DEF GiveBack, DispatcherTypeOK, QueuesAreBounded, QueueTypes

-----------------------------------------------------------------------------
(* Counting copies *)

(* The queues are a finite family, as a queue is per worker, before a step   *)
(* and after it.                                                             *)
LEMMA QueuesAreFamilies ==
    ASSUME NEW queues \in [Workers -> Seq(Mbufs)]
    PROVE  /\ Family(queues, Mbufs)
           /\ DOMAIN queues = Workers
           /\ \A m \in Mbufs : Queued(m, queues) \in Nat
<1>1. DOMAIN queues = Workers /\ \A w \in Workers : queues[w] \in Seq(Mbufs)
  OBVIOUS
<1>2. IsFiniteSet(Workers)
  BY SizesAssumption, FS_Interval DEF Workers
<1>3. Family(queues, Mbufs)
  BY <1>1, <1>2 DEF Family
<1> QED
  BY <1>1, <1>3, QueuedIsNatural

(* Copies, of the state after a step.                                        *)
LEMMA CopiesAfter ==
    ASSUME NEW m
    PROVE  Copies(m)' = pool'[m] + Queued(m, q_buffers') + Queued(m, rings')
                          + held'[m]
BY DEF Copies, Queued, Positions, Places

-----------------------------------------------------------------------------
(* Every step accounts for the copies of every mbuf *)

(* A flush moves the copies in the batch to the ring and the pool: those the *)
(* q_buffer held before the packet was appended are replaced by the batch's. *)
LEMMA FlushKeepsCopies ==
    ASSUME DispatcherTypeOK, NEW w \in Workers, NEW batch \in Seq(Mbufs),
           Len(batch) = MAX_PKT_BUFFER, NEW free \in [Mbufs -> Nat],
           Flush(w, batch, free), NEW m \in Mbufs
    PROVE  pool'[m] + Queued(m, q_buffers') + Queued(m, rings')
                    + Occurrences(m, q_buffers[w])
             = free[m] + Queued(m, q_buffers) + Queued(m, rings)
                       + Occurrences(m, batch)
<1> DEFINE n == Fits(w)
           moved == SubSeq(batch, 1, n)
           left == SubSeq(batch, n + 1, Len(batch))
           longer == rings[w] \o moved
<1> USE DispatcherAssumption
<1>1. n \in 0 .. Len(batch)
  BY FitsIsBounded
<1>2. /\ rings' = [rings EXCEPT ![w] = longer]
      /\ q_buffers' = [q_buffers EXCEPT ![w] = <<>>]
      /\ pool' = Put(free, left)
  BY DEF Flush
<1> HIDE DEF n
<1>3. /\ moved \in Seq(Mbufs) /\ Len(moved) = n /\ left \in Seq(Mbufs)
      /\ Occurrences(m, batch) = Occurrences(m, moved) + Occurrences(m, left)
  BY <1>1, OccurrencesOfCut, SubSeqProperties
<1> HIDE DEF moved, left
<1>4. /\ Family(q_buffers, Mbufs) /\ DOMAIN q_buffers = Workers
      /\ Family(rings, Mbufs) /\ DOMAIN rings = Workers
  BY QueuesAreFamilies DEF DispatcherTypeOK
<1>5. /\ rings[w] \in Seq(Mbufs) /\ q_buffers[w] \in Seq(Mbufs)
      /\ longer \in Seq(Mbufs)
      /\ Occurrences(m, longer)
           = Occurrences(m, rings[w]) + Occurrences(m, moved)
  <2>1. rings[w] \in Seq(Mbufs) /\ q_buffers[w] \in Seq(Mbufs)
    BY DEF DispatcherTypeOK
  <2>2. longer \in Seq(Mbufs)
    BY <1>3, <2>1, ConcatProperties
  <2>3. Occurrences(m, longer)
          = Occurrences(m, rings[w]) + Occurrences(m, moved)
    BY <1>3, <2>1, OccurrencesOfConcat
  <2> QED
    BY <2>1, <2>2, <2>3
<1> HIDE DEF longer
<1>6. /\ Queued(m, rings) \in Nat /\ Queued(m, rings') \in Nat
      /\ Queued(m, rings') + Occurrences(m, rings[w])
           = Queued(m, rings) + Occurrences(m, longer)
  <2>1. rings' = Updated(rings, w, longer)
    BY <1>2 DEF Updated
  <2> QED
    BY <1>4, <1>5, <2>1, QueuedUpdate
<1>7. /\ Queued(m, q_buffers) \in Nat /\ Queued(m, q_buffers') \in Nat
      /\ Queued(m, q_buffers') + Occurrences(m, q_buffers[w])
           = Queued(m, q_buffers) + Occurrences(m, <<>>)
  <2> DEFINE empty == <<>>
  <2>1. empty \in Seq(Mbufs)
    OBVIOUS
  <2>2. q_buffers' = Updated(q_buffers, w, empty)
    BY <1>2 DEF Updated
  <2> HIDE DEF empty
  <2>3. /\ Queued(m, q_buffers) \in Nat /\ Queued(m, q_buffers') \in Nat
        /\ Queued(m, q_buffers') + Occurrences(m, q_buffers[w])
             = Queued(m, q_buffers) + Occurrences(m, empty)
    BY <1>4, <2>1, <2>2, QueuedUpdate
  <2> QED
    BY <2>3 DEF empty
<1>8. /\ Occurrences(m, rings[w]) \in Nat
      /\ Occurrences(m, q_buffers[w]) \in Nat
      /\ Occurrences(m, moved) \in Nat /\ Occurrences(m, left) \in Nat
      /\ Occurrences(m, <<>>) = 0 /\ free[m] \in Nat
      /\ pool'[m] = free[m] + Occurrences(m, left)
  <2>1. Put(free, left)[m] = free[m] + Occurrences(m, left)
    BY DEF Put
  <2> QED
    BY <1>2, <1>3, <1>5, <2>1, PlacesAreFinite, OccurrencesOfEmpty
<1> DEFINE ring == Occurrences(m, rings[w])
           buffer == Occurrences(m, q_buffers[w])
           fit == Occurrences(m, moved)
           rest == Occurrences(m, left)
           buffers0 == Queued(m, q_buffers)
           buffers1 == Queued(m, q_buffers')
           rings0 == Queued(m, rings)
           rings1 == Queued(m, rings')
           pool0 == free[m]
           pool1 == pool'[m]
           all == Occurrences(m, batch)
<1>9. /\ pool1 = pool0 + rest
      /\ all = fit + rest
      /\ rings1 + ring = rings0 + (ring + fit)
      /\ buffers1 + buffer = buffers0 + 0
      /\ rings0 \in Nat /\ rings1 \in Nat
      /\ buffers0 \in Nat /\ buffers1 \in Nat
      /\ ring \in Nat /\ buffer \in Nat /\ fit \in Nat /\ rest \in Nat
      /\ pool0 \in Nat
  BY <1>2, <1>3, <1>5, <1>6, <1>7, <1>8
<1> HIDE DEF ring, buffer, fit, rest, buffers0, buffers1, rings0, rings1, pool0,
             pool1, all
<1>10. pool1 + buffers1 + rings1 + buffer = pool0 + buffers0 + rings0 + all
  BY <1>9
<1> QED
  BY <1>10 DEF buffer, buffers0, buffers1, rings0, rings1, pool0, pool1, all

(* A packet over the quota gains a copy, and quotaFrees counts it; any other *)
(* packet moves from the pool to a batch.                                    *)
LEMMA DispatchKeepsCopies ==
    ASSUME DispatcherTypeOK, NEW x \in Mbufs, NEW t \in Tenants, Dispatch(x, t),
           NEW m \in Mbufs, Copies(m) = 1 + quotaFrees[m]
    PROVE  (Copies(m) = 1 + quotaFrees[m])'
<1> DEFINE w == Wid(t)
           over == IF OverQuota(t) THEN 1 ELSE 0
           free == [pool EXCEPT ![x] = @ - 1 + over]
           batch == Append(q_buffers[w], x)
           one == IF x = m THEN 1 ELSE 0
           more == IF x = m THEN over ELSE 0
<1> USE DispatcherAssumption
<1>1. w \in Workers
  BY DEF DispatcherTypeOK, BalancerTypeOK, Wid
<1>2. /\ pool[x] > 0
      /\ quotaFrees' = [quotaFrees EXCEPT ![x] = @ + over]
      /\ IF Len(batch) = MAX_PKT_BUFFER THEN Flush(w, batch, free)
                                        ELSE Buffer(w, batch, free)
      /\ held' = held
  BY DEF Dispatch
<1>3. over \in {0, 1}
  OBVIOUS
<1> HIDE DEF over, w
<1>4. /\ pool \in [Mbufs -> Nat] /\ quotaFrees \in [Mbufs -> Nat]
      /\ held \in [Mbufs -> Nat] /\ q_buffers[w] \in Seq(Mbufs)
      /\ Len(q_buffers[w]) < MAX_PKT_BUFFER
  BY <1>1 DEF DispatcherTypeOK, QueuesAreBounded
<1>5. /\ free \in [Mbufs -> Nat] /\ free[m] = pool[m] - one + more
      /\ quotaFrees'[m] = quotaFrees[m] + more
      /\ one \in {0, 1} /\ more \in {0, 1}
  <2>1. /\ pool[x] - 1 + over \in Nat /\ quotaFrees[x] + over \in Nat
        /\ pool[m] - 0 + 0 = pool[m] /\ quotaFrees[m] + 0 = quotaFrees[m]
    <3>1. pool[x] > 0
      BY <1>2
    <3>2. /\ pool[x] \in Nat /\ pool[m] \in Nat
          /\ quotaFrees[x] \in Nat /\ quotaFrees[m] \in Nat
      BY <1>4
    <3> QED
      BY <1>3, <3>1, <3>2
  <2> DEFINE fewer == pool[x] - 1 + over
             frees == quotaFrees[x] + over
  <2> HIDE DEF one, more
  <2>2. free = [pool EXCEPT ![x] = fewer]
    OBVIOUS
  <2>3. quotaFrees' = [quotaFrees EXCEPT ![x] = frees]
    BY <1>2
  <2> HIDE DEF free, fewer, frees
  <2>4. /\ free \in [Mbufs -> Nat]
        /\ free[m] = IF x = m THEN fewer ELSE pool[m]
    BY <1>4, <2>1, <2>2 DEF fewer
  <2>5. quotaFrees'[m] = IF x = m THEN frees ELSE quotaFrees[m]
    BY <1>4, <2>3
  <2>6. one \in {0, 1} /\ more \in {0, 1}
    BY <1>3 DEF one, more
  <2>7. CASE x = m
    BY <2>4, <2>5, <2>6, <2>7 DEF fewer, frees, one, more
  <2>8. CASE x # m
    BY <2>1, <2>4, <2>5, <2>6, <2>8 DEF one, more
  <2> QED
    BY <2>7, <2>8
<1>6. /\ batch \in Seq(Mbufs)
      /\ Occurrences(m, batch) = Occurrences(m, q_buffers[w]) + one
  BY <1>4, OccurrencesOfAppend
<1>7. Len(batch) <= MAX_PKT_BUFFER
  <2>1. Len(batch) = Len(q_buffers[w]) + 1 /\ Len(q_buffers[w]) \in Nat
    BY <1>4
  <2> QED
    BY <1>4, <2>1
<1>8. /\ Family(q_buffers, Mbufs) /\ DOMAIN q_buffers = Workers
      /\ Queued(m, q_buffers) \in Nat /\ Queued(m, rings) \in Nat
  BY QueuesAreFamilies DEF DispatcherTypeOK
<1>9. Occurrences(m, q_buffers[w]) \in Nat
  BY <1>4, PlacesAreFinite
<1> HIDE DEF free, batch, one, more
<1>10. pool'[m] + Queued(m, q_buffers') + Queued(m, rings')
                + Occurrences(m, q_buffers[w])
         = free[m] + Queued(m, q_buffers) + Queued(m, rings)
                   + Occurrences(m, batch)
  <2>1. CASE Len(batch) = MAX_PKT_BUFFER
    BY <1>1, <1>2, <1>5, <1>6, <2>1, FlushKeepsCopies
  <2>2. CASE Len(batch) # MAX_PKT_BUFFER
    <3>1. /\ q_buffers' = [q_buffers EXCEPT ![w] = batch]
          /\ pool' = free /\ rings' = rings
      BY <1>2, <2>2 DEF Buffer
    <3>3. /\ Queued(m, q_buffers') \in Nat
          /\ Queued(m, q_buffers') + Occurrences(m, q_buffers[w])
               = Queued(m, q_buffers) + Occurrences(m, batch)
      <4>1. q_buffers' = Updated(q_buffers, w, batch)
        BY <3>1 DEF Updated
      <4> QED
        BY <1>1, <1>6, <1>8, <4>1, QueuedUpdate
    <3>4. free[m] \in Nat /\ Occurrences(m, batch) \in Nat
      BY <1>5, <1>6, PlacesAreFinite
    <3> QED
      BY <1>8, <1>9, <3>1, <3>3, <3>4
  <2> QED
    BY <2>1, <2>2
<1>11. /\ pool'[m] \in Nat /\ Queued(m, q_buffers') \in Nat
       /\ Queued(m, rings') \in Nat
  <2>1. QueueTypes'
    BY DispatchKeepsTypes
  <2> QED
    BY <2>1, QueuesAreFamilies DEF QueueTypes
<1>12. pool[m] \in Nat /\ held[m] \in Nat /\ quotaFrees[m] \in Nat
  BY <1>4
<1>13. pool[m] + Queued(m, q_buffers) + Queued(m, rings) + held[m]
         = 1 + quotaFrees[m]
  BY DEF Copies
<1>14. pool'[m] + Queued(m, q_buffers') + Queued(m, rings') + held[m]
         = 1 + quotaFrees'[m]
  <2> DEFINE buffer == Occurrences(m, q_buffers[w])
             all == Occurrences(m, batch)
             buffers0 == Queued(m, q_buffers)
             buffers1 == Queued(m, q_buffers')
             rings0 == Queued(m, rings)
             rings1 == Queued(m, rings')
             pool0 == pool[m]
             pool1 == pool'[m]
             freed == free[m]
             out == held[m]
             frees0 == quotaFrees[m]
             frees1 == quotaFrees'[m]
  <2>1. freed = pool0 - one + more /\ frees1 = frees0 + more
    BY <1>5
  <2>2. one \in Int /\ more \in Int
    BY <1>5
  <2>3. all = buffer + one
    BY <1>6
  <2>4. pool1 + buffers1 + rings1 + buffer = freed + buffers0 + rings0 + all
    BY <1>10
  <2>5. pool0 + buffers0 + rings0 + out = 1 + frees0
    BY <1>13
  <2>6. /\ rings0 \in Nat /\ rings1 \in Nat /\ buffers0 \in Nat
        /\ buffers1 \in Nat /\ buffer \in Nat
    BY <1>8, <1>9, <1>11
  <2>7. pool0 \in Nat /\ pool1 \in Nat /\ out \in Nat /\ frees0 \in Nat
    BY <1>11, <1>12
  <2> HIDE DEF buffer, all, buffers0, buffers1, rings0, rings1, pool0, pool1,
               freed, out, frees0, frees1
  <2>8. pool1 + buffers1 + rings1 + out = 1 + frees1
    BY <2>1, <2>2, <2>3, <2>4, <2>5, <2>6, <2>7
  <2> QED
    BY <2>8 DEF buffers1, rings1, pool1, out, frees1
<1> QED
  BY <1>2, <1>14, CopiesAfter

(* The copies of a burst leave the ring for the hands of the worker.         *)
LEMMA TakeBurstKeepsCopies ==
    ASSUME DispatcherTypeOK, NEW w \in Workers, TakeBurst(w),
           NEW m \in Mbufs, Copies(m) = 1 + quotaFrees[m]
    PROVE  (Copies(m) = 1 + quotaFrees[m])'
<1> DEFINE n == IF Len(rings[w]) < MAX_PKT_BUFFER THEN Len(rings[w])
                                                  ELSE MAX_PKT_BUFFER
           burst == SubSeq(rings[w], 1, n)
           left == SubSeq(rings[w], n + 1, Len(rings[w]))
<1> USE DispatcherAssumption
<1>1. /\ Family(rings, Mbufs) /\ DOMAIN rings = Workers
      /\ rings[w] \in Seq(Mbufs) /\ Len(rings[w]) \in Nat
      /\ held \in [Mbufs -> Nat]
  BY QueuesAreFamilies DEF DispatcherTypeOK
<1>2. n \in 0 .. Len(rings[w])
  BY <1>1
<1>3. /\ held' = Put(held, burst)
      /\ rings' = [rings EXCEPT ![w] = left]
      /\ UNCHANGED <<q_buffers, pool, quotaFrees>>
  BY DEF TakeBurst
<1> HIDE DEF n
<1>4. /\ burst \in Seq(Mbufs) /\ left \in Seq(Mbufs)
      /\ Occurrences(m, rings[w]) = Occurrences(m, burst) + Occurrences(m, left)
  BY <1>1, <1>2, OccurrencesOfCut
<1> HIDE DEF burst, left
<1>5. held'[m] = held[m] + Occurrences(m, burst)
  <2>1. Put(held, burst)[m] = held[m] + Occurrences(m, burst)
    BY <1>1 DEF Put
  <2> QED
    BY <1>3, <2>1
<1>6. /\ Queued(m, rings) \in Nat /\ Queued(m, rings') \in Nat
      /\ Queued(m, rings') + Occurrences(m, rings[w])
           = Queued(m, rings) + Occurrences(m, left)
  <2>1. rings' = Updated(rings, w, left)
    BY <1>3 DEF Updated
  <2> QED
    BY <1>1, <1>4, <2>1, QueuedUpdate
<1>7. /\ Queued(m, q_buffers) \in Nat
      /\ Occurrences(m, burst) \in Nat /\ Occurrences(m, left) \in Nat
      /\ pool[m] \in Nat /\ held[m] \in Nat
  BY <1>4, QueuesAreFamilies, PlacesAreFinite DEF DispatcherTypeOK
<1>8. pool[m] + Queued(m, q_buffers) + Queued(m, rings') + held'[m]
        = pool[m] + Queued(m, q_buffers) + Queued(m, rings) + held[m]
  <2> DEFINE taken == Occurrences(m, burst)
             stays == Occurrences(m, left)
             buffers0 == Queued(m, q_buffers)
             rings0 == Queued(m, rings)
             rings1 == Queued(m, rings')
  <2>1. /\ rings1 + (taken + stays) = rings0 + stays
        /\ held'[m] = held[m] + taken
        /\ rings0 \in Nat /\ rings1 \in Nat /\ buffers0 \in Nat
        /\ taken \in Nat /\ stays \in Nat /\ pool[m] \in Nat /\ held[m] \in Nat
    BY <1>4, <1>5, <1>6, <1>7
  <2> HIDE DEF taken, stays, buffers0, rings0, rings1
  <2>2. pool[m] + buffers0 + rings1 + held'[m]
          = pool[m] + buffers0 + rings0 + held[m]
    BY <2>1
  <2> QED
    BY <2>2 DEF buffers0, rings0, rings1
<1> QED
  BY <1>3, <1>8, CopiesAfter DEF Copies

(* A copy goes from the hands of a worker to the pool.                       *)
LEMMA GiveBackKeepsCopies ==
    ASSUME DispatcherTypeOK, NEW x \in Mbufs, GiveBack(x),
           NEW m \in Mbufs, Copies(m) = 1 + quotaFrees[m]
    PROVE  (Copies(m) = 1 + quotaFrees[m])'
<1>1. /\ held' = [held EXCEPT ![x] = @ - 1] /\ held[x] > 0
      /\ pool' = [pool EXCEPT ![x] = @ + 1]
      /\ UNCHANGED <<q_buffers, rings, quotaFrees>>
  BY DEF GiveBack
<1>2. pool \in [Mbufs -> Nat] /\ held \in [Mbufs -> Nat]
  BY DEF DispatcherTypeOK
<1>3. Queued(m, q_buffers) \in Nat /\ Queued(m, rings) \in Nat
  BY QueuesAreFamilies DEF DispatcherTypeOK
<1>4. pool'[m] + Queued(m, q_buffers) + Queued(m, rings) + held'[m]
        = pool[m] + Queued(m, q_buffers) + Queued(m, rings) + held[m]
  <2>1. CASE x = m
    BY <1>1, <1>2, <1>3, <2>1
  <2>2. CASE x # m
    BY <1>1, <1>2, <1>3, <2>2
  <2> QED
    BY <2>1, <2>2
<1> QED
  BY <1>1, <1>4, CopiesAfter DEF Copies

-----------------------------------------------------------------------------
(* Safety *)

(* The inductive invariant: the types with the bounds of the queues, and the *)
(* bounds of the loads, without which the types of the tables are not        *)
(* inductive.                                                                *)
DispatcherInvariant == DispatcherTypeOK /\ IInv /\ StreakIsJustified

LEMMA DispatcherInit == Init => DispatcherInvariant
<1> SUFFICES ASSUME Init PROVE DispatcherInvariant
  OBVIOUS
<1> USE DispatcherAssumption DEF Init
<1>1. IInv /\ StreakIsJustified
  BY InitInvariant
<1>2. <<>> \in Seq(Mbufs) /\ Len(<<>>) = 0
  OBVIOUS
<1>3. QueueTypes
  BY <1>2 DEF QueueTypes, QueuesAreBounded
<1> QED
  BY <1>1, <1>3 DEF DispatcherInvariant, DispatcherTypeOK, QueueTypes, IInv

LEMMA DispatcherStep ==
    ASSUME DispatcherInvariant, [Next]_vars
    PROVE  DispatcherInvariant'
<1> USE DEF DispatcherInvariant
<1>1. [BalancerNext]_balancerVars
  BY DEF Next, vars, Dispatch, TakeBurst, GiveBack, NextSlot, BalancerNext,
         balancerVars
<1>2. IInv' /\ StreakIsJustified'
  BY <1>1, StepInvariant
<1>3. QueueTypes'
  <2>1. ASSUME NEW m \in Mbufs, NEW t \in Tenants, Dispatch(m, t)
        PROVE  QueueTypes'
    BY <2>1, DispatchKeepsTypes
  <2>2. ASSUME NEW w \in Workers, TakeBurst(w)
        PROVE  QueueTypes'
    BY <2>2, TakeBurstKeepsTypes
  <2>3. ASSUME NEW m \in Mbufs, GiveBack(m)
        PROVE  QueueTypes'
    BY <2>3, GiveBackKeepsTypes
  <2>4. CASE NextSlot \/ UNCHANGED vars
    BY <2>4 DEF NextSlot, vars, queueVars, DispatcherTypeOK, QueuesAreBounded,
                QueueTypes
  <2> QED
    BY <2>1, <2>2, <2>3, <2>4 DEF Next
<1> QED
  BY <1>2, <1>3 DEF DispatcherTypeOK, QueueTypes, IInv

(* No q_buffer ever holds a full batch between packets and no ring more than *)
(* its capacity, for any number of tenants and workers, wherever the tenants *)
(* move meanwhile; and the state keeps its types.                            *)
THEOREM DispatcherStaysTyped == Spec => []DispatcherTypeOK
<1>1. Spec => []DispatcherInvariant
  BY DispatcherInit, DispatcherStep, PTL DEF Spec
<1> QED
  BY <1>1, PTL DEF DispatcherInvariant

(* No mbuf is lost and none duplicated, but by the free of main.c:183: the   *)
(* copies of every mbuf in the pool, the batches, the rings and the hands of *)
(* the workers are one and those frees, whatever the instance.               *)
THEOREM CopiesStayAccountedFor == Spec => []CopiesAreAccountedFor
<1>1. Init => CopiesAreAccountedFor
  <2> SUFFICES ASSUME Init, NEW m \in Mbufs
               PROVE  Copies(m) = 1 + quotaFrees[m]
    BY DEF CopiesAreAccountedFor
  <2>1. Queued(m, q_buffers) = 0 /\ Queued(m, rings) = 0
    BY QueuedNowhere DEF Init
  <2> QED
    BY <2>1 DEF Init, Copies
<1>2. DispatcherInvariant /\ CopiesAreAccountedFor /\ [Next]_vars
        => CopiesAreAccountedFor'
  <2> SUFFICES ASSUME DispatcherTypeOK, CopiesAreAccountedFor, [Next]_vars,
                      NEW m \in Mbufs
               PROVE  (Copies(m) = 1 + quotaFrees[m])'
    BY DEF DispatcherInvariant, CopiesAreAccountedFor
  <2>1. Copies(m) = 1 + quotaFrees[m]
    BY DEF CopiesAreAccountedFor
  <2>2. ASSUME NEW x \in Mbufs, NEW t \in Tenants, Dispatch(x, t)
        PROVE  (Copies(m) = 1 + quotaFrees[m])'
    BY <2>1, <2>2, DispatchKeepsCopies
  <2>3. ASSUME NEW w \in Workers, TakeBurst(w)
        PROVE  (Copies(m) = 1 + quotaFrees[m])'
    BY <2>1, <2>3, TakeBurstKeepsCopies
  <2>4. ASSUME NEW x \in Mbufs, GiveBack(x)
        PROVE  (Copies(m) = 1 + quotaFrees[m])'
    BY <2>1, <2>4, GiveBackKeepsCopies
  <2>5. CASE NextSlot \/ UNCHANGED vars
    BY <2>1, <2>5, CopiesAfter DEF NextSlot, vars, queueVars, Copies
  <2> QED
    BY <2>2, <2>3, <2>4, <2>5 DEF Next
<1> QED
  BY <1>1, <1>2, DispatcherInit, DispatcherStep, PTL DEF Spec

-----------------------------------------------------------------------------
(* The lines of the workers *)

LineOf(w) == rings[w] \o q_buffers[w]
Lines == [w \in Workers |-> LineOf(w)]

\* Every mbuf in one place, as without a free of main.c:183.
OneCopy == \A m \in Mbufs : Copies(m) = 1

(* Then a bag has an mbuf once or not at all.                                *)
LEMMA OnceInBags ==
    ASSUME DispatcherTypeOK, OneCopy, NEW m \in Mbufs
    PROVE  /\ pool[m] \in Nat /\ held[m] \in Nat
           /\ pool[m] + held[m] <= 1
<1>1. pool[m] \in Nat /\ held[m] \in Nat
  BY DEF DispatcherTypeOK
<1>2. Queued(m, q_buffers) \in Nat /\ Queued(m, rings) \in Nat
  BY QueuesAreFamilies DEF DispatcherTypeOK
<1>3. pool[m] + Queued(m, q_buffers) + Queued(m, rings) + held[m] = 1
  BY DEF OneCopy, Copies
<1> DEFINE buffers == Queued(m, q_buffers)
           ring == Queued(m, rings)
<1> HIDE DEF buffers, ring
<1>4. buffers \in Nat /\ ring \in Nat /\ pool[m] + buffers + ring + held[m] = 1
  BY <1>2, <1>3 DEF buffers, ring
<1> QED
  BY <1>1, <1>4

(* Putting a sequence in a bag adds its members to those it holds.           *)
LEMMA HoldingPut ==
    ASSUME NEW bag \in [Mbufs -> Nat], NEW s \in Seq(Mbufs)
    PROVE  Holding(Put(bag, s)) = Holding(bag) \cup Line!Range(s)
<1>1. ASSUME NEW m \in Mbufs
      PROVE  Put(bag, s)[m] > 0 <=> bag[m] > 0 \/ \E i \in DOMAIN s : s[i] = m
  <2>1. Put(bag, s)[m] = bag[m] + Occurrences(m, s)
    BY PutIsBag
  <2>2. Occurrences(m, s) \in Nat
    BY PlacesAreFinite
  <2>3. Occurrences(m, s) = 0 <=> \A i \in DOMAIN s : s[i] # m
    BY OccursSomewhere
  <2>4. bag[m] \in Nat
    OBVIOUS
  <2> QED
    BY <2>1, <2>2, <2>3, <2>4
<1>2. \A i \in DOMAIN s : s[i] \in Mbufs
  OBVIOUS
<1>3. \A m : m \in Holding(Put(bag, s)) <=> m \in Holding(bag) \cup Line!Range(s)
  BY <1>1, <1>2 DEF Holding, Line!Range
<1> QED
  BY <1>3

(* The lines are the rings and the batches behind them.                      *)
LEMMA LinesAre ==
    ASSUME DispatcherTypeOK, NEW w \in Workers
    PROVE  /\ rings[w] \in Seq(Mbufs) /\ q_buffers[w] \in Seq(Mbufs)
           /\ LineOf(w) \in Seq(Mbufs)
           /\ Len(LineOf(w)) = Len(rings[w]) + Len(q_buffers[w])
           /\ Len(rings[w]) \in 0 .. RingSize
           /\ Len(q_buffers[w]) \in 0 .. MAX_PKT_BUFFER - 1
           /\ MAX_PKT_BUFFER \in Nat \ {0} /\ RingSize \in Nat \ {0}
<1>1. MAX_PKT_BUFFER \in Nat \ {0} /\ RingSize \in Nat \ {0}
  BY DispatcherAssumption
<1>2. /\ rings[w] \in Seq(Mbufs) /\ q_buffers[w] \in Seq(Mbufs)
      /\ Len(rings[w]) <= RingSize /\ Len(q_buffers[w]) < MAX_PKT_BUFFER
  BY DEF DispatcherTypeOK, QueuesAreBounded
<1>3. /\ LineOf(w) \in Seq(Mbufs)
      /\ Len(LineOf(w)) = Len(rings[w]) + Len(q_buffers[w])
  BY <1>2, ConcatProperties DEF LineOf
<1>4. /\ Len(rings[w]) \in 0 .. RingSize
      /\ Len(q_buffers[w]) \in 0 .. MAX_PKT_BUFFER - 1
  BY <1>1, <1>2
<1> QED
  BY <1>1, <1>2, <1>3, <1>4

(* A packet appended to a line is appended to the batch.                     *)
LEMMA AppendToLine ==
    ASSUME DispatcherTypeOK, NEW m \in Mbufs, NEW w \in Workers
    PROVE  Append(LineOf(w), m) = rings[w] \o Append(q_buffers[w], m)
<1>1. ASSUME NEW a \in Seq(Mbufs), NEW b \in Seq(Mbufs)
      PROVE  Append(a \o b, m) = a \o Append(b, m)
  <2> DEFINE l == Append(a \o b, m)
             r == a \o Append(b, m)
             k == Len(a)
             n == Len(b)
  <2>1. /\ k \in Nat /\ n \in Nat
        /\ l \in Seq(Mbufs) /\ r \in Seq(Mbufs) /\ Len(l) = k + n + 1 /\ Len(r) = k + n + 1
    OBVIOUS
  <2>2. ASSUME NEW i \in 1 .. k + n + 1
        PROVE  l[i] = r[i]
    <3>1. CASE i <= k
      BY <3>1
    <3>2. CASE i > k /\ i <= k + n
      BY <3>2
    <3>3. CASE i = k + n + 1
      BY <3>3
    <3> QED
      BY <2>1, <3>1, <3>2, <3>3
  <2> HIDE DEF l, r, k, n
  <2>3. Len(l) = Len(r) /\ \A i \in 1 .. Len(l) : l[i] = r[i]
    BY <2>1, <2>2
  <2>4. l = r
    BY <2>1, <2>3, SeqEqual
  <2> QED
    BY <2>4 DEF l, r
<1>2. rings[w] \in Seq(Mbufs) /\ q_buffers[w] \in Seq(Mbufs)
  BY LinesAre
<1> QED
  BY <1>1, <1>2 DEF LineOf

(* Only the line of one worker changes when only its queues do.              *)
LEMMA LinesUpdated ==
    ASSUME DispatcherTypeOK, NEW w \in Workers, NEW new,
           rings'[w] \o q_buffers'[w] = new,
           \A v \in Workers \ {w} : rings'[v] = rings[v] /\ q_buffers'[v] = q_buffers[v]
    PROVE  Lines' = [Lines EXCEPT ![w] = new]
BY DEF Lines, LineOf

(* A packet that does not fill the batch waits behind the others.            *)
LEMMA BufferWaits ==
    ASSUME DispatcherTypeOK, NEW m \in Mbufs, NEW w \in Workers, m \in Holding(pool),
           NEW bag, Holding(bag) = Holding(pool) \ {m},
           Len(q_buffers[w]) + 1 < MAX_PKT_BUFFER,
           Buffer(w, Append(q_buffers[w], m), bag), held' = held
    PROVE  Line!Wait(m, w)
<1> DEFINE batch == Append(q_buffers[w], m)
<1>1. /\ q_buffers' = [q_buffers EXCEPT ![w] = batch] /\ rings' = rings /\ pool' = bag
      /\ q_buffers \in [Workers -> Seq(Mbufs)]
  BY DEF Buffer, DispatcherTypeOK
<1>2. rings'[w] \o q_buffers'[w] = Append(LineOf(w), m)
  <2>1. Append(LineOf(w), m) = rings[w] \o batch
    BY AppendToLine
  <2>2. rings'[w] = rings[w] /\ q_buffers'[w] = batch
    BY <1>1
  <2> QED
    BY <2>1, <2>2
<1>3. Lines' = [Lines EXCEPT ![w] = Append(LineOf(w), m)]
  BY <1>1, <1>2, LinesUpdated
<1>4. Len(LineOf(w)) + 1 < RingSize + MAX_PKT_BUFFER
  <2> DEFINE r == Len(rings[w])
             b == Len(q_buffers[w])
             l == Len(LineOf(w))
  <2>1. /\ l = r + b /\ r \in 0 .. RingSize /\ b \in 0 .. MAX_PKT_BUFFER - 1
        /\ MAX_PKT_BUFFER \in Nat /\ RingSize \in Nat /\ b + 1 < MAX_PKT_BUFFER
    BY LinesAre
  <2> HIDE DEF r, b, l
  <2>2. l + 1 < RingSize + MAX_PKT_BUFFER
    BY <2>1
  <2> QED
    BY <2>2 DEF l
<1>5. Holding(pool') = Holding(pool) \ {m} /\ Holding(held') = Holding(held)
  BY <1>1
<1>6. Lines[w] = LineOf(w)
  BY DEF Lines
<1> QED
  BY <1>3, <1>4, <1>5, <1>6 DEF Line!Wait, Lines, LineOf, Holding

(* A cut of mbufs that lies in the second of two sequences.                  *)
LEMMA CutOfMbufs ==
    ASSUME NEW a \in Seq(Mbufs), NEW b \in Seq(Mbufs), NEW k \in 0 .. Len(b)
    PROVE  /\ SubSeq(a \o b, 1, Len(a) + k) = a \o SubSeq(b, 1, k)
           /\ SubSeq(a \o b, Len(a) + k + 1, Len(a \o b)) = SubSeq(b, k + 1, Len(b))
BY CutInSecond, Zenon

(* A full batch joins the ring behind the others; where it does not fit the  *)
(* line is cut to the ring.                                                  *)
LEMMA FlushWaitsOrCuts ==
    ASSUME DispatcherTypeOK, NEW m \in Mbufs, NEW w \in Workers, m \in Holding(pool),
           NEW bag \in [Mbufs -> Nat], Holding(bag) = Holding(pool) \ {m},
           Len(q_buffers[w]) + 1 = MAX_PKT_BUFFER,
           Flush(w, Append(q_buffers[w], m), bag), held' = held
    PROVE  Line!Wait(m, w) \/ Line!Cut(m, w)
<1> DEFINE batch == Append(q_buffers[w], m)
           n == Fits(w)
           moved == SubSeq(batch, 1, n)
           left == SubSeq(batch, n + 1, Len(batch))
           all == Append(LineOf(w), m)
<1>1. /\ batch \in Seq(Mbufs) /\ Len(batch) = MAX_PKT_BUFFER
      /\ rings[w] \in Seq(Mbufs) /\ Len(rings[w]) \in 0 .. RingSize
      /\ q_buffers[w] \in Seq(Mbufs) /\ LineOf(w) \in Seq(Mbufs)
  <2>1. q_buffers[w] \in Seq(Mbufs) /\ LineOf(w) \in Seq(Mbufs)
    BY LinesAre
  <2>2. rings[w] \in Seq(Mbufs) /\ Len(rings[w]) \in 0 .. RingSize
    BY LinesAre
  <2>3. batch \in Seq(Mbufs) /\ Len(batch) = Len(q_buffers[w]) + 1
    BY <2>1
  <2> QED
    BY <2>1, <2>2, <2>3
<1>2. /\ MAX_PKT_BUFFER \in Nat \ {0} /\ RingSize \in Nat \ {0}
      /\ n = IF RingSize - Len(rings[w]) < MAX_PKT_BUFFER THEN RingSize - Len(rings[w])
                                                          ELSE MAX_PKT_BUFFER
      /\ n \in 0 .. Len(batch)
  BY <1>1, LinesAre, FitsIsBounded DEF Fits
<1>3. /\ rings' = [rings EXCEPT ![w] = rings[w] \o moved]
      /\ q_buffers' = [q_buffers EXCEPT ![w] = <<>>]
      /\ pool' = Put(bag, left)
      /\ rings \in [Workers -> Seq(Mbufs)] /\ q_buffers \in [Workers -> Seq(Mbufs)]
  BY DEF Flush, DispatcherTypeOK
<1> HIDE DEF n
<1>4. /\ all = rings[w] \o batch
      /\ Len(all) = Len(rings[w]) + MAX_PKT_BUFFER /\ Len(all) = Len(LineOf(w)) + 1
  <2>1. Append(LineOf(w), m) = rings[w] \o batch
    BY AppendToLine
  <2>2. Len(Append(LineOf(w), m)) = Len(LineOf(w)) + 1
    BY <1>1
  <2>3. Len(rings[w] \o batch) = Len(rings[w]) + Len(batch)
    BY <1>1, ConcatProperties
  <2> HIDE DEF batch
  <2> QED
    BY <1>1, <2>1, <2>2, <2>3
<1>5. /\ SubSeq(all, 1, Len(rings[w]) + n) = rings[w] \o moved
      /\ SubSeq(all, Len(rings[w]) + n + 1, Len(all)) = left
  <2>1. ASSUME NEW a \in Seq(Mbufs), NEW b \in Seq(Mbufs), NEW k \in 0 .. Len(b)
        PROVE  /\ SubSeq(a \o b, 1, Len(a) + k) = a \o SubSeq(b, 1, k)
               /\ SubSeq(a \o b, Len(a) + k + 1, Len(a \o b)) = SubSeq(b, k + 1, Len(b))
    BY CutOfMbufs
  <2> HIDE DEF batch
  <2>2. rings[w] \in Seq(Mbufs) /\ batch \in Seq(Mbufs) /\ n \in 0 .. Len(batch)
    BY <1>1, <1>2
  <2>3. all = rings[w] \o batch
    BY <1>4
  <2> HIDE DEF all
  <2>4. /\ SubSeq(rings[w] \o batch, 1, Len(rings[w]) + n) = rings[w] \o moved
        /\ SubSeq(rings[w] \o batch, Len(rings[w]) + n + 1, Len(rings[w] \o batch)) = left
    BY <2>1, <2>2
  <2> QED
    BY <2>3, <2>4
<1>6. moved \in Seq(Mbufs) /\ left \in Seq(Mbufs)
  BY <1>1, <1>2, OccurrencesOfCut
<1>7. Lines' = [Lines EXCEPT ![w] = rings[w] \o moved]
  <2>1. (rings[w] \o moved) \o <<>> = rings[w] \o moved
    BY <1>1, <1>6, ConcatProperties, ConcatEmptySeq
  <2>2. rings'[w] = rings[w] \o moved /\ q_buffers'[w] = <<>>
    BY <1>3
  <2>3. \A v \in Workers \ {w} : rings'[v] = rings[v] /\ q_buffers'[v] = q_buffers[v]
    BY <1>3
  <2> HIDE DEF moved
  <2> QED
    BY <2>1, <2>2, <2>3, LinesUpdated
<1>8. /\ Holding(pool') = (Holding(pool) \ {m}) \cup Line!Range(left)
      /\ Holding(held') = Holding(held)
  BY <1>3, <1>6, HoldingPut
<1>9. Lines[w] = LineOf(w)
  BY DEF Lines
<1> HIDE DEF batch, moved, left, all
<1>10. CASE n = MAX_PKT_BUFFER
  <2>1. left = <<>>
    <3>1. n + 1 \in Int /\ Len(batch) \in Int /\ Len(batch) < n + 1
      <4>1. Len(batch) = n /\ n \in Nat
        BY <1>1, <1>2, <1>10
      <4> DEFINE l == Len(batch)
      <4> HIDE DEF l
      <4>2. l = n /\ n \in Nat
        BY <4>1 DEF l
      <4>3. n + 1 \in Int /\ l \in Int /\ l < n + 1
        BY <4>2
      <4> QED
        BY <4>3 DEF l
    <3> QED
      BY <3>1, SubSeqEmpty DEF left
  <2>2. Line!Range(left) = {}
    BY <2>1 DEF Line!Range
  <2>3. Len(LineOf(w)) + 1 < RingSize + MAX_PKT_BUFFER
    <3> DEFINE r == Len(rings[w])
               l == Len(LineOf(w))
    <3>1. /\ r \in 0 .. RingSize /\ l + 1 = r + MAX_PKT_BUFFER
          /\ MAX_PKT_BUFFER \in Nat \ {0} /\ RingSize \in Nat
          /\ n = IF RingSize - r < MAX_PKT_BUFFER THEN RingSize - r ELSE MAX_PKT_BUFFER
      BY <1>1, <1>2, <1>4
    <3> HIDE DEF r, l
    <3>2. l + 1 < RingSize + MAX_PKT_BUFFER
      BY <1>10, <3>1
    <3> QED
      BY <3>2 DEF l
  <2>4. rings[w] \o moved = all
    <3>1. Len(rings[w]) + n = Len(all)
      BY <1>4, <1>10
    <3>2. all \in Seq(Mbufs)
      BY <1>1 DEF all
    <3> QED
      BY <1>5, <3>1, <3>2, SubSeqFull
  <2>5. Lines' = [Lines EXCEPT ![w] = Append(LineOf(w), m)]
    BY <1>7, <2>4 DEF all
  <2>6. Line!Wait(m, w)
    BY <1>8, <1>9, <2>2, <2>3, <2>5 DEF Line!Wait, Lines, LineOf, Holding
  <2> QED
    BY <2>6
<1>11. CASE n # MAX_PKT_BUFFER
  <2>1. Len(rings[w]) + n = RingSize /\ Len(all) > RingSize
    <3> DEFINE r == Len(rings[w])
               l == Len(all)
    <3>1. /\ r \in 0 .. RingSize /\ l = r + MAX_PKT_BUFFER
          /\ MAX_PKT_BUFFER \in Nat \ {0} /\ RingSize \in Nat
          /\ n = IF RingSize - r < MAX_PKT_BUFFER THEN RingSize - r ELSE MAX_PKT_BUFFER
      BY <1>1, <1>2, <1>4
    <3> HIDE DEF r, l
    <3>2. r + n = RingSize /\ l > RingSize
      BY <1>11, <3>1
    <3> QED
      BY <3>2 DEF r, l
  <2>2. /\ SubSeq(all, 1, RingSize) = rings[w] \o moved
        /\ SubSeq(all, RingSize + 1, Len(all)) = left
    BY <1>5, <2>1
  <2>3. all = Append(Lines[w], m)
    BY <1>9 DEF all
  <2>4. Line!Cut(m, w)
    BY <1>7, <1>8, <2>1, <2>2, <2>3 DEF Line!Cut, Lines, LineOf, Holding
  <2> QED
    BY <2>4
<1> QED
  BY <1>10, <1>11

(* A packet received.                                                        *)
LEMMA DispatchHandsOver ==
    ASSUME DispatcherTypeOK, OneCopy, NEW m \in Mbufs, NEW t \in Tenants, Dispatch(m, t),
           quotaFrees[m] = 0, quotaFrees'[m] = 0
    PROVE  Line!Next
<1>1. PICK w \in Workers : w = Wid(t)
  BY DEF DispatcherTypeOK, BalancerTypeOK, Wid
<1> DEFINE over == IF OverQuota(t) THEN 1 ELSE 0
           bag == [pool EXCEPT ![m] = @ - 1 + over]
           batch == Append(q_buffers[w], m)
<1>2. /\ pool[m] > 0
      /\ quotaFrees' = [quotaFrees EXCEPT ![m] = @ + over]
      /\ IF Len(batch) = MAX_PKT_BUFFER THEN Flush(w, batch, bag)
                                        ELSE Buffer(w, batch, bag)
      /\ held' = held
  BY <1>1 DEF Dispatch
<1>3. pool \in [Mbufs -> Nat] /\ quotaFrees \in [Mbufs -> Nat]
  BY DEF DispatcherTypeOK
<1>4. over \in {0, 1}
  OBVIOUS
<1> HIDE DEF over
<1>5. over = 0
  BY <1>2, <1>3, <1>4
<1>6. pool[m] = 1
  BY <1>2, OnceInBags
<1>7. bag = [pool EXCEPT ![m] = 0]
  BY <1>5, <1>6
<1>8. /\ bag \in [Mbufs -> Nat]
      /\ m \in Holding(pool) /\ Holding(bag) = Holding(pool) \ {m}
  <2> HIDE DEF bag
  <2> QED
    BY <1>2, <1>3, <1>7 DEF Holding
<1> HIDE DEF bag
<1>9. /\ Len(batch) = Len(q_buffers[w]) + 1 /\ MAX_PKT_BUFFER \in Nat
      /\ Len(q_buffers[w]) \in 0 .. MAX_PKT_BUFFER - 1
  <2>1. /\ q_buffers[w] \in Seq(Mbufs) /\ MAX_PKT_BUFFER \in Nat
        /\ Len(q_buffers[w]) \in 0 .. MAX_PKT_BUFFER - 1
    BY LinesAre
  <2> QED
    BY <2>1
<1>10. CASE Len(batch) = MAX_PKT_BUFFER
  <2>1. Line!Wait(m, w) \/ Line!Cut(m, w)
    BY <1>1, <1>2, <1>8, <1>9, <1>10, FlushWaitsOrCuts
  <2> QED
    BY <1>1, <2>1 DEF Line!Next
<1>11. CASE Len(batch) # MAX_PKT_BUFFER
  <2>1. Len(q_buffers[w]) + 1 < MAX_PKT_BUFFER
    BY <1>9, <1>11
  <2>2. Line!Wait(m, w)
    BY <1>1, <1>2, <1>8, <1>11, <2>1, BufferWaits
  <2> QED
    BY <1>1, <2>2 DEF Line!Next
<1> QED
  BY <1>10, <1>11

(* A burst is the front of a line.                                           *)
LEMMA BurstIsTaken ==
    ASSUME DispatcherTypeOK, NEW w \in Workers, TakeBurst(w)
    PROVE  Line!Next
<1> DEFINE n == IF Len(rings[w]) < MAX_PKT_BUFFER THEN Len(rings[w])
                                                  ELSE MAX_PKT_BUFFER
           burst == SubSeq(rings[w], 1, n)
           left == SubSeq(rings[w], n + 1, Len(rings[w]))
<1>1. /\ n > 0 /\ held' = Put(held, burst)
      /\ rings' = [rings EXCEPT ![w] = left]
      /\ q_buffers' = q_buffers /\ pool' = pool
  BY DEF TakeBurst
<1>2. /\ rings \in [Workers -> Seq(Mbufs)] /\ held \in [Mbufs -> Nat]
      /\ rings[w] \in Seq(Mbufs) /\ q_buffers[w] \in Seq(Mbufs)
      /\ MAX_PKT_BUFFER \in Nat /\ Len(rings[w]) \in Nat
  BY LinesAre DEF DispatcherTypeOK
<1>3. n \in 1 .. Len(rings[w]) /\ n <= MAX_PKT_BUFFER
  BY <1>1, <1>2
<1> HIDE DEF n
<1>4. burst \in Seq(Mbufs) /\ left \in Seq(Mbufs)
  BY <1>2, <1>3, OccurrencesOfCut
<1>5. /\ SubSeq(LineOf(w), 1, n) = burst
      /\ SubSeq(LineOf(w), n + 1, Len(LineOf(w))) = left \o q_buffers[w]
  <2>1. n \in 0 .. Len(rings[w])
    BY <1>2, <1>3
  <2> QED
    BY <1>2, <2>1, CutInFirst DEF LineOf
<1>6. Lines' = [Lines EXCEPT ![w] = left \o q_buffers[w]]
  <2> HIDE DEF left
  <2>1. rings'[w] = left /\ q_buffers'[w] = q_buffers[w]
    BY <1>1, <1>2
  <2>2. \A v \in Workers \ {w} : rings'[v] = rings[v] /\ q_buffers'[v] = q_buffers[v]
    BY <1>1, <1>2
  <2> QED
    BY <2>1, <2>2, LinesUpdated
<1>7. Holding(held') = Holding(held) \cup Line!Range(burst)
  BY <1>1, <1>2, <1>4, HoldingPut
<1>8. n \in 1 .. Len(LineOf(w))
  <2> DEFINE r == Len(rings[w])
             b == Len(q_buffers[w])
             l == Len(LineOf(w))
  <2>1. l = r + b
    BY LinesAre
  <2>2. r \in Nat /\ b \in Nat /\ n \in 1 .. r
    BY <1>2, <1>3
  <2> HIDE DEF r, b, l
  <2>3. n \in 1 .. l
    BY <2>1, <2>2
  <2> QED
    BY <2>3 DEF l
<1>9. Lines[w] = LineOf(w)
  BY DEF Lines
<1>10. Line!Take(w)
  <2> HIDE DEF burst, left
  <2> QED
    BY <1>1, <1>3, <1>5, <1>6, <1>7, <1>8, <1>9 DEF Line!Take, Lines, LineOf, Holding
<1> QED
  BY <1>10 DEF Line!Next

(* What a worker gives back it has no more.                                  *)
LEMMA GivenBack ==
    ASSUME DispatcherTypeOK, OneCopy, NEW m \in Mbufs, GiveBack(m)
    PROVE  Line!Next
<1>1. /\ held[m] > 0
      /\ held' = [held EXCEPT ![m] = @ - 1] /\ pool' = [pool EXCEPT ![m] = @ + 1]
      /\ q_buffers' = q_buffers /\ rings' = rings
  BY DEF GiveBack
<1>2. pool \in [Mbufs -> Nat] /\ held \in [Mbufs -> Nat]
  BY DEF DispatcherTypeOK
<1>3. held[m] = 1 /\ pool[m] = 0
  BY <1>1, OnceInBags
<1>4. held' = [held EXCEPT ![m] = 0] /\ pool' = [pool EXCEPT ![m] = 1]
  BY <1>1, <1>3
<1>5. /\ m \in Holding(held)
      /\ Holding(held') = Holding(held) \ {m} /\ Holding(pool') = Holding(pool) \cup {m}
  BY <1>1, <1>2, <1>4 DEF Holding
<1>6. Lines' = Lines
  BY <1>1 DEF Lines, LineOf
<1>7. Line!GiveBack(m)
  BY <1>5, <1>6 DEF Line!GiveBack, Lines, LineOf, Holding
<1> QED
  BY <1>7 DEF Line!Next

QuotasKept == \A m \in Mbufs : quotaFrees[m] = 0

(* Theorem: as long as no tenant exceeds its quota, for any number of        *)
(* tenants, workers and mbufs and any batch and ring: every mbuf has one     *)
(* owner, workers get their packets in the order they were received, and     *)
(* only the last of a line that is longer than the ring are given up:        *)
(* Dispatcher!MbufsAreHandedOver.                                            *)
THEOREM DispatcherHandsOver == Spec /\ []QuotasKept => MbufsAreHandedOver
<1>1. Init => Line!Init
  <2> SUFFICES ASSUME Init PROVE Line!Init
    OBVIOUS
  <2>1. Holding(pool) = Mbufs /\ Holding(held) = {}
    BY DEF Init, Holding
  <2>2. Lines = [w \in Workers |-> <<>>]
    BY DEF Init, Lines, LineOf
  <2> QED
    BY <2>1, <2>2 DEF Line!Init, Lines, LineOf, Holding
<1>2. DispatcherTypeOK /\ CopiesAreAccountedFor /\ QuotasKept /\ QuotasKept' /\ [Next]_vars
        => [Line!Next]_<<Holding(pool), Lines, Holding(held)>>
  <2> SUFFICES ASSUME DispatcherTypeOK, CopiesAreAccountedFor, QuotasKept, QuotasKept',
                      [Next]_vars
               PROVE  Line!Next \/ UNCHANGED <<Holding(pool), Lines, Holding(held)>>
    OBVIOUS
  <2>1. OneCopy
    BY DEF CopiesAreAccountedFor, QuotasKept, OneCopy
  <2>2. ASSUME NEW m \in Mbufs, NEW t \in Tenants, Dispatch(m, t)
        PROVE  Line!Next
    BY <2>1, <2>2, DispatchHandsOver DEF QuotasKept
  <2>3. ASSUME NEW w \in Workers, TakeBurst(w)
        PROVE  Line!Next
    BY <2>3, BurstIsTaken
  <2>4. ASSUME NEW m \in Mbufs, GiveBack(m)
        PROVE  Line!Next
    BY <2>1, <2>4, GivenBack
  <2>5. CASE NextSlot \/ UNCHANGED vars
    BY <2>5 DEF NextSlot, vars, queueVars, Lines, LineOf, Holding
  <2> QED
    BY <2>2, <2>3, <2>4, <2>5 DEF Next
<1> QED
  BY <1>1, <1>2, DispatcherStaysTyped, CopiesStayAccountedFor, PTL
     DEF Spec, MbufsAreHandedOver, Line!Spec, Lines, LineOf

=============================================================================
