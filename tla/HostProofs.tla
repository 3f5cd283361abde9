------------------------------ MODULE HostProofs ------------------------------
(***************************************************************************)
(* Theorems about module Host, for any number of devices, lcores, queues   *)
(* and tenants, any command line and any amount of work.                   *)
(***************************************************************************)
EXTENDS Host, FiniteSetTheorems, WellFoundedInduction, TLAPS

-----------------------------------------------------------------------------
(* The list of ports a mask gives *)

\* Some sequence lists the set in ascending order.
Listed(S) == \E s \in [1 .. Cardinality(S) -> S] : IsAscending(s) /\ ToSet(s) = S

(* A listed set is still listed with a greater number added at the end.      *)
LEMMA ListedWithGreatest ==
    ASSUME NEW S, IsFiniteSet(S), S \subseteq Nat, Listed(S),
           NEW n \in Nat, \A m \in S : m < n
    PROVE  Listed(S \cup {n})
<1> DEFINE k == Cardinality(S)
           T == S \cup {n}
<1>1. k \in Nat /\ n \notin S
  BY FS_CardinalityType
<1>2. Cardinality(T) = k + 1
  BY <1>1, FS_AddElement
<1>3. PICK s \in [1 .. k -> S] : IsAscending(s) /\ ToSet(s) = S
  BY DEF Listed
<1> DEFINE t == [i \in 1 .. k + 1 |-> IF i = k + 1 THEN n ELSE s[i]]
<1> HIDE DEF k
<1>4. t \in [1 .. k + 1 -> T]
  BY <1>1, <1>3
<1>5. \A i \in 1 .. k : t[i] = s[i] /\ s[i] \in S
  BY <1>1, <1>3
<1>6. t[k + 1] = n
  BY <1>1
<1>7. IsAscending(t)
  <2> SUFFICES ASSUME NEW i \in 1 .. k + 1, NEW j \in 1 .. k + 1, i < j
               PROVE  t[i] < t[j]
    BY DEF IsAscending
  <2>1. i \in 1 .. k
    BY <1>1
  <2>2. CASE j = k + 1
    BY <1>5, <1>6, <2>1, <2>2
  <2>3. CASE j \in 1 .. k
    <3>1. s[i] < s[j]
      BY <1>3, <2>1, <2>3 DEF IsAscending
    <3> QED
      BY <1>5, <2>1, <2>3, <3>1
  <2> QED
    BY <1>1, <2>2, <2>3
<1>8. ToSet(t) = T
  <2>1. DOMAIN t = (1 .. k) \cup {k + 1} /\ DOMAIN s = 1 .. k
    BY <1>1, <1>3
  <2> HIDE DEF t
  <2>2. {t[i] : i \in DOMAIN t} = {s[i] : i \in DOMAIN s} \cup {n}
    BY <1>5, <1>6, <2>1
  <2> QED
    BY <1>3, <2>2 DEF ToSet
<1> QED
  BY <1>2, <1>4, <1>7, <1>8 DEF Listed

(* Every set of numbers below a bound is listed by some sequence.            *)
LEMMA EverySetIsListed ==
    ASSUME NEW n \in Nat, NEW S \in SUBSET (0 .. n - 1)
    PROVE  IsFiniteSet(S) /\ Listed(S)
<1> DEFINE Bad == {m \in Nat : \E U \in SUBSET (0 .. m - 1) : ~ Listed(U)}
<1>1. \A m \in Nat : \A U \in SUBSET (0 .. m - 1) : IsFiniteSet(U)
  <2> TAKE m \in Nat
  <2> TAKE U \in SUBSET (0 .. m - 1)
  <2>1. 0 \in Int /\ m - 1 \in Int
    OBVIOUS
  <2>2. IsFiniteSet(0 .. m - 1)
    BY <2>1, FS_Interval
  <2> QED
    BY <2>2, FS_Subset
<1>2. ASSUME Bad # {}
      PROVE  FALSE
  <2> DEFINE R == OpToRel(<, Nat)
  <2>1. IsWellFoundedOn(R, Nat)
    BY NatLessThanWellFounded
  <2> HIDE DEF R
  <2>2. PICK m \in Bad : \A l \in Bad : ~ (<<l, m>> \in R)
    BY <1>2, <2>1, WFMin
  <2>3. \A l \in Bad : ~ (l < m)
    BY <2>2 DEF R, OpToRel
  <2>4. PICK U \in SUBSET (0 .. m - 1) : ~ Listed(U)
    BY <2>2
  <2>5. CASE U = {}
    <3>1. Cardinality({}) = 0
      BY FS_EmptySet
    <3>2. << >> \in [1 .. 0 -> {}] /\ IsAscending(<< >>) /\ ToSet(<< >>) = {}
      BY DEF IsAscending, ToSet
    <3> QED
      BY <2>4, <2>5, <3>1, <3>2 DEF Listed
  <2>6. CASE U # {}
    <3>1. m \in Nat /\ m > 0
      <4>1. m \in Nat
        BY <2>2
      <4>2. PICK u \in U : u \in 0 .. m - 1
        BY <2>6
      <4> QED
        BY <4>1, <4>2
    <3>2. m - 1 \in Nat /\ m - 1 < m
      BY <3>1
    <3>3. \A V \in SUBSET (0 .. (m - 1) - 1) : Listed(V)
      BY <2>3, <3>2
    <3> DEFINE V == U \ {m - 1}
    <3>4. V \in SUBSET (0 .. (m - 1) - 1) /\ V \subseteq Nat
      BY <3>1
    <3>5. Listed(V) /\ IsFiniteSet(V)
      BY <1>1, <3>2, <3>3, <3>4
    <3>6. \A l \in V : l < m - 1
      BY <3>1
    <3>7. CASE m - 1 \in U
      <4>1. U = V \cup {m - 1}
        BY <3>7
      <4> HIDE DEF V
      <4> QED
        BY <2>4, <3>2, <3>4, <3>5, <3>6, <4>1, ListedWithGreatest
    <3>8. CASE m - 1 \notin U
      <4>1. U = V
        BY <3>8
      <4> QED
        BY <2>4, <3>5, <4>1
    <3> QED
      BY <3>7, <3>8
  <2> QED
    BY <2>5, <2>6
<1> QED
  BY <1>1, <1>2

(* What the mask lists: present ports, each once, and all it marks if it is  *)
(* well-formed.                                                              *)
LEMMA MarkedPorts ==
    ASSUME NEW arg \in MaskArgs
    PROVE  /\ Marked(arg) \in Seq(Devices)
           /\ Len(Marked(arg)) <= DevCount
           /\ ~ arg.rest => /\ ToSet(Marked(arg)) = arg.bits \cap Devices
                            /\ IsAscending(Marked(arg))
<1> DEFINE S == arg.bits \cap Devices
<1>1. DevCount \in Nat /\ S \in SUBSET (0 .. DevCount - 1)
  BY HostAssumption DEF Devices
<1>2. IsFiniteSet(S) /\ Listed(S)
  BY <1>1, EverySetIsListed
<1> DEFINE s == Ascending(S)
<1> HIDE DEF S
<1>3. s \in [1 .. Cardinality(S) -> S] /\ IsAscending(s) /\ ToSet(s) = S
  BY <1>2 DEF Listed, Ascending
<1>4. Cardinality(S) \in Nat /\ Cardinality(S) <= DevCount
  <2>1. IsFiniteSet(0 .. DevCount - 1) /\ Cardinality(0 .. DevCount - 1) = DevCount
    <3>1. 0 \in Int /\ DevCount - 1 \in Int
      BY <1>1
    <3>2. Cardinality(0 .. DevCount - 1) =
            IF 0 > DevCount - 1 THEN 0 ELSE (DevCount - 1) - 0 + 1
      BY <3>1, FS_Interval
    <3> QED
      BY <1>1, <3>1, <3>2, FS_Interval
  <2> QED
    BY <1>1, <1>2, <2>1, FS_Subset, FS_CardinalityType
<1>5. s \in Seq(Devices) /\ Len(s) = Cardinality(S)
  <2>1. S \subseteq Devices
    BY <1>1 DEF Devices
  <2>2. s \in [1 .. Cardinality(S) -> Devices]
    BY <1>3, <2>1
  <2> HIDE DEF s
  <2> QED
    BY <1>4, <2>2
<1> HIDE DEF s
<1>6. CASE arg.rest
  BY <1>1, <1>6 DEF Marked
<1>7. CASE ~ arg.rest
  <2>1. Marked(arg) = s
    BY <1>7 DEF Marked, S, s
  <2> QED
    BY <1>3, <1>4, <1>5, <2>1 DEF S
<1> QED
  BY <1>6, <1>7

-----------------------------------------------------------------------------
(* Who changes what *)

LEMMA Sizes ==
    /\ DevCount \in Nat /\ QUEUE_NUM \in Nat /\ MAX_TENANTS \in Nat
    /\ U32 \in Nat /\ TIMER_PERIOD \in 1 .. (U32 \div 2) - 1
    /\ MAX_PKT_BUFFER \in Nat /\ MAX_CHECK_TIME \in Nat
    /\ OptBound \in Nat /\ WorkBound \in Nat
BY HostAssumption

Options == OptPortmask \/ OptTenantNumber \/ OptTimerPeriod \/ OptLong \/ EndArgs
Initialises == \/ Allocate \/ InitPort \/ PortFails \/ EndPorts
               \/ LinkPass \/ EndLinks \/ CreateQueues
Launches == LaunchDispatcher \/ LaunchWorker \/ LaunchesDone
Displays == Sleep \/ Show \/ Remember \/ ShowFault \/ EndLoop
Searches(w) == WorkerNames(w) \/ WorkerLooksUp(w) \/ WorkerStarts(w)
Dispatches == DispatcherNames \/ DispatcherLooksUp \/ DispatcherStops
Works(w) == WorkerServes(w) \/ ReadCounter(w) \/ WriteCounter(w) \/ WorkerStops(w)

LEMMA Steps ==
    ASSUME [Next]_vars
    PROVE  \/ Options \/ Initialises \/ Launches \/ Displays \/ Signal \/ Dispatches
           \/ \E w \in WorkerIds : Searches(w) \/ Works(w)
           \/ UNCHANGED vars
BY DEF Next, Main, Options, Initialises, Launches, Displays, Searches, Dispatches, Works

LEMMA OptionsFrame ==
    ASSUME Options
    PROVE  /\ pc = "args" /\ pc' \in {"args", "allocate", "failed", "fault"}
           /\ UNCHANGED <<program, lcores, initVars, launchVars, keep_running,
                          showVars, worker, nameVars, countVars>>
BY DEF Options, OptPortmask, OptTenantNumber, OptTimerPeriod, OptLong, Option, EndArgs

\* The phases from the parsed command line to the first launch.
Initialising == {"allocate", "ports", "links", "queues"}

LEMMA InitialisesFrame ==
    ASSUME Initialises
    PROVE  /\ pc \in Initialising /\ pc' \in Initialising \cup {"launch", "exited"}
           /\ UNCHANGED <<program, lcores, argVars, launchVars, keep_running,
                          showVars, worker, nameVars, countVars>>
BY DEF Initialises, Allocate, InitPort, PortFails, EndPorts, LinkPass, EndLinks,
   CreateQueues, GoTo, Initialising

LEMMA LaunchesFrame ==
    ASSUME Launches
    PROVE  /\ pc = "launch" /\ pc' \in {"launch", "loop", "failed"}
           /\ UNCHANGED <<program, lcores, argVars, initVars, keep_running, showVars,
                          wid, ring, buffer, naming, overlapped, misplaced, countVars>>
BY DEF Launches, LaunchDispatcher, LaunchWorker, LaunchesDone, LaunchOn, GoTo, nameVars

LEMMA DisplaysFrame ==
    ASSUME Displays
    PROVE  /\ pc \in {"loop", "show", "remember"} /\ pc' \in {"loop", "show", "remember", "ended", "fault"}
           /\ UNCHANGED <<program, lcores, argVars, initVars, launchVars, keep_running,
                          worker, nameVars, countVars>>
BY DEF Displays, Sleep, Show, Remember, ShowFault, EndLoop, GoTo

LEMMA SignalFrame ==
    ASSUME Signal
    PROVE  UNCHANGED <<program, lcores, pc, argVars, initVars, launchVars, showVars,
                       worker, nameVars, countVars>>
BY DEF Signal

LEMMA SearchesFrame ==
    ASSUME NEW w \in WorkerIds, Searches(w)
    PROVE  /\ Running /\ worker[w] \in {"start", "named"} /\ pc' \in {pc, "exited"}
           /\ UNCHANGED <<program, lcores, argVars, initVars, launchVars, keep_running,
                          showVars, dispatcher, wid, misplaced, countVars>>
BY DEF Searches, WorkerNames, WorkerLooksUp, WorkerStarts, nameVars

LEMMA DispatchesFrame ==
    ASSUME Dispatches
    PROVE  /\ Running /\ dispatcher \in {"poll", "named"} /\ pc' \in {pc, "exited"}
           /\ UNCHANGED <<program, lcores, argVars, initVars, launchVars, keep_running,
                          showVars, worker, ring, nb_tx, has_read, reg, counter, real,
                          writers>>
BY DEF Dispatches, DispatcherNames, DispatcherLooksUp, DispatcherStops, nameVars, countVars

LEMMA WorksFrame ==
    ASSUME NEW w \in WorkerIds, Works(w)
    PROVE  /\ Running /\ pc' \in {pc, "fault"}
           /\ UNCHANGED <<program, lcores, argVars, initVars, launchVars, keep_running,
                          showVars, nameVars>>
BY DEF Works, WorkerServes, ReadCounter, WriteCounter, WorkerStops

-----------------------------------------------------------------------------
(* The command line *)

MaskOddities == {"masks", "malformed mask"}

ArgTypes ==
    /\ pc \in MainPcs
    /\ options \in 0 .. OptBound
    /\ port_mask \subseteq Bits
    /\ port_id \in Seq(Devices)
    /\ tenant_number \in 0 .. (U32 \div 2) - 1
    /\ timer_period \in 0 .. (U32 \div 2) - 1
    /\ oddities \subseteq {"masks", "malformed mask", "period 0", "tenants", "long"}

\* How many ports so many options can have listed.
Room(n) == n * DevCount

LEMMA RoomGrows ==
    ASSUME NEW n \in Nat
    PROVE  /\ Room(n) \in Nat /\ Room(n + 1) = Room(n) + DevCount
           /\ \A m \in Nat : n <= m => Room(n) <= Room(m)
<1>1. DevCount \in Nat
  BY HostAssumption
<1>2. n * DevCount \in Nat /\ (n + 1) * DevCount = n * DevCount + DevCount
  BY <1>1
<1>3. ASSUME NEW m \in Nat, n <= m
      PROVE  n * DevCount <= m * DevCount
  <2>1. PICK d \in Nat : m = n + d
    <3>1. m - n \in Nat /\ m = n + (m - n)
      BY <1>3
    <3> QED
      BY <3>1
  <2>2. (n + d) * DevCount = n * DevCount + d * DevCount /\ d * DevCount \in Nat
    BY <1>1
  <2> QED
    BY <1>2, <2>1, <2>2
<1> QED
  BY <1>2, <1>3 DEF Room

\* A command line that is odd in nothing leaves the numbers of the program, and
\* the list of ports is then what the mask says.
ArgInv ==
    /\ ArgTypes
    /\ Len(port_id) <= Room(OptBound)
    /\ pc = "args" => Len(port_id) <= Room(options)
    /\ tenant_number = MAX_TENANTS \/ "tenants" \in oddities
    /\ timer_period > 0 \/ "period 0" \in oddities
    /\ oddities \cap MaskOddities = {} =>
          /\ ToSet(port_id) = port_mask \cap Devices
          /\ IsAscending(port_id)

(* A number that is not refused is the argument's, modulo 2^32.              *)
LEMMA ParsedNumber ==
    ASSUME NEW v \in Nat, AsInt(v) >= 0
    PROVE  /\ AsInt(v) \in 0 .. (U32 \div 2) - 1
           /\ AsInt(v) = v % U32
           /\ v = MAX_TENANTS => AsInt(v) = MAX_TENANTS
<1>1. /\ U32 \in Nat /\ U32 > 2 * MAX_TENANTS /\ U32 % 2 = 0 /\ U32 > 0
      /\ MAX_TENANTS \in Nat
  BY HostAssumption
<1> DEFINE u == v % U32
<1>2. u \in 0 .. U32 - 1
  BY <1>1
<1>3. AsInt(v) = IF u < U32 \div 2 THEN u ELSE u - U32
  BY DEF AsInt
<1>4. v < U32 => u = v
  BY <1>1
<1> HIDE DEF u
<1>5. u < U32 \div 2 /\ AsInt(v) = u
  BY <1>1, <1>2, <1>3
<1>6. AsInt(v) \in 0 .. (U32 \div 2) - 1
  BY <1>1, <1>2, <1>5
<1> QED
  BY <1>1, <1>4, <1>5, <1>6 DEF u

LEMMA MaskKeepsArgs ==
    ASSUME ArgInv, OptPortmask
    PROVE  ArgInv'
<1>1. PICK arg \in MaskArgs :
        /\ port_mask' = ParsePortmask(arg)
        /\ port_id' = port_id \o Marked(arg)
        /\ pc' = IF port_mask' = {} THEN "failed" ELSE pc
        /\ oddities' = oddities \cup Noted("masks", port_mask # {})
                                \cup Noted("malformed mask", arg.rest)
  BY DEF OptPortmask
<1>2. /\ pc = "args" /\ options < OptBound /\ options' = options + 1
      /\ UNCHANGED <<tenant_number, timer_period>>
  BY DEF OptPortmask, Option
<1>3. /\ Marked(arg) \in Seq(Devices) /\ Len(Marked(arg)) <= DevCount
      /\ ~ arg.rest => /\ ToSet(Marked(arg)) = arg.bits \cap Devices
                       /\ IsAscending(Marked(arg))
  BY MarkedPorts
<1>4. /\ port_id \in Seq(Devices) /\ Len(port_id) \in Nat
      /\ Len(port_id) <= Room(options)
      /\ options \in Nat /\ OptBound \in Nat /\ DevCount \in Nat
  <2>1. port_id \in Seq(Devices) /\ options \in 0 .. OptBound
        /\ Len(port_id) <= Room(options)
    BY <1>2 DEF ArgInv, ArgTypes
  <2> QED
    BY <2>1, Sizes
<1>5. port_id' \in Seq(Devices) /\ Len(port_id') = Len(port_id) + Len(Marked(arg))
  <2> DEFINE s == Marked(arg)
  <2>1. s \in Seq(Devices) /\ port_id' = port_id \o s
    BY <1>1, <1>3
  <2> HIDE DEF s
  <2>2. port_id' \in Seq(Devices) /\ Len(port_id') = Len(port_id) + Len(s)
    BY <1>4, <2>1
  <2> QED
    BY <2>2 DEF s
<1>6. Len(port_id') <= Room(options') /\ options' <= OptBound
  <2>1. Room(options + 1) = Room(options) + DevCount /\ Room(options) \in Nat
    BY <1>4, RoomGrows
  <2>2. Len(Marked(arg)) \in Nat
    BY <1>3
  <2> QED
    BY <1>2, <1>3, <1>4, <1>5, <2>1, <2>2
<1>7. Len(port_id') <= Room(OptBound)
  <2>1. Room(options') <= Room(OptBound) /\ Room(options') \in Nat
    <3>1. options' \in Nat
      BY <1>2, <1>4
    <3>2. \A m \in Nat : options' <= m => Room(options') <= Room(m)
      BY <3>1, RoomGrows
    <3> QED
      BY <1>4, <1>6, <3>1, <3>2, RoomGrows
  <2>2. Len(port_id') \in Nat /\ Room(OptBound) \in Nat
    <3>1. Room(OptBound) \in Nat
      BY <1>4, RoomGrows
    <3>2. Len(port_id') \in Nat
      BY <1>5
    <3> QED
      BY <3>1, <3>2
  <2> QED
    BY <1>6, <2>1, <2>2
<1>8. port_mask' \subseteq Bits
  <2>1. arg.bits \subseteq Bits
    BY HostAssumption
  <2> QED
    BY <1>1, <2>1 DEF ParsePortmask
<1>9. oddities' \subseteq {"masks", "malformed mask", "period 0", "tenants", "long"}
  BY <1>1 DEF Noted, ArgInv, ArgTypes
<1>10. ArgTypes'
  <2>1. options' \in 0 .. OptBound
    BY <1>2, <1>4, <1>6
  <2>2. pc' \in MainPcs
    BY <1>1, <1>2 DEF MainPcs
  <2> QED
    BY <1>2, <1>5, <1>8, <1>9, <2>1, <2>2 DEF ArgInv, ArgTypes
<1>11. ASSUME oddities' \cap MaskOddities = {}
       PROVE  /\ ToSet(port_id') = port_mask' \cap Devices
              /\ IsAscending(port_id')
  <2>1. port_mask = {} /\ ~ arg.rest /\ oddities \cap MaskOddities = {}
    BY <1>1, <1>11 DEF Noted, MaskOddities
  <2>2. ToSet(port_id) = {}
    BY <2>1 DEF ArgInv
  <2>3. port_id = << >>
    <3>1. DOMAIN port_id = {}
      BY <2>2 DEF ToSet
    <3> QED
      BY <1>4, <3>1
  <2>4. port_id' = Marked(arg) /\ port_mask' = arg.bits
    <3> DEFINE s == Marked(arg)
    <3>1. s \in Seq(Devices) /\ port_id' = << >> \o s
      BY <1>1, <1>3, <2>3
    <3>2. port_mask' = arg.bits
      BY <1>1, <2>1 DEF ParsePortmask
    <3> HIDE DEF s
    <3>3. port_id' = s
      BY <3>1
    <3> QED
      BY <3>2, <3>3 DEF s
  <2> QED
    BY <1>3, <2>1, <2>4
<1> QED
  BY <1>1, <1>2, <1>6, <1>7, <1>10, <1>11 DEF ArgInv

\* A step that takes an option, or ends them, and leaves the ports alone.
OnlyNumbers ==
    /\ pc = "args" /\ pc' \in {"args", "failed", "fault", "allocate"}
    /\ UNCHANGED <<port_mask, port_id>>
    /\ (options < OptBound /\ options' = options + 1) \/ (pc' # "args" /\ options' = 0)
    /\ tenant_number' \in 0 .. (U32 \div 2) - 1
    /\ timer_period' \in 0 .. (U32 \div 2) - 1
    /\ tenant_number' = MAX_TENANTS \/ "tenants" \in oddities'
    /\ timer_period' > 0 \/ "period 0" \in oddities'
    /\ oddities \subseteq oddities'
    /\ oddities' \subseteq oddities \cup {"period 0", "tenants", "long"}

LEMMA NumbersKeepArgs ==
    ASSUME ArgInv, OnlyNumbers
    PROVE  ArgInv'
<1>0. /\ options \in Nat /\ OptBound \in Nat /\ options <= OptBound
      /\ Len(port_id) \in Nat
  <2>1. port_id \in Seq(Devices) /\ options \in 0 .. OptBound
    BY DEF ArgInv, ArgTypes
  <2> QED
    BY <2>1, Sizes
<1>1. options' \in 0 .. OptBound
  <2>1. CASE options < OptBound /\ options' = options + 1
    BY <1>0, <2>1
  <2>2. CASE options' = 0
    BY <1>0, <2>2
  <2> QED
    BY <2>1, <2>2 DEF OnlyNumbers
<1>2. ArgTypes'
  <2>1. pc' \in MainPcs
    BY DEF MainPcs, OnlyNumbers
  <2>2. oddities' \subseteq {"masks", "malformed mask", "period 0", "tenants", "long"}
    BY DEF ArgInv, ArgTypes, OnlyNumbers
  <2> QED
    BY <1>1, <2>1, <2>2 DEF ArgInv, ArgTypes, OnlyNumbers
<1>3. ASSUME pc' = "args"
      PROVE  Len(port_id') <= Room(options')
  <2>1. /\ Room(options + 1) = Room(options) + DevCount /\ Room(options) \in Nat
        /\ DevCount \in Nat
    BY <1>0, RoomGrows, Sizes
  <2>2. options' = options + 1 /\ port_id' = port_id
    BY <1>3 DEF OnlyNumbers
  <2>3. Len(port_id) <= Room(options)
    BY DEF ArgInv, OnlyNumbers
  <2>4. Len(port_id) <= Room(options + 1)
    BY <1>0, <2>1, <2>3
  <2> QED
    BY <2>2, <2>4
<1>4. oddities' \cap MaskOddities = {} => oddities \cap MaskOddities = {}
  BY DEF OnlyNumbers
<1>5. Len(port_id') <= Room(OptBound)
  BY DEF ArgInv, OnlyNumbers
<1>6. oddities' \cap MaskOddities = {} =>
          /\ ToSet(port_id') = port_mask' \cap Devices
          /\ IsAscending(port_id')
  BY <1>4 DEF ArgInv, OnlyNumbers
<1> QED
  BY <1>2, <1>3, <1>5, <1>6 DEF ArgInv, OnlyNumbers

LEMMA TenantNumberKeepsArgs ==
    ASSUME ArgInv, OptTenantNumber
    PROVE  ArgInv'
<1>1. PICK arg \in TenantArgs :
        IF ParseTenantNumber(arg) < 0
        THEN pc' = "failed" /\ UNCHANGED <<tenant_number, oddities>>
        ELSE /\ tenant_number' = ParseTenantNumber(arg)
             /\ oddities' = oddities \cup Noted("tenants", arg.value # MAX_TENANTS)
             /\ UNCHANGED pc
  BY DEF OptTenantNumber
<1>2. /\ pc = "args" /\ options < OptBound /\ options' = options + 1
      /\ UNCHANGED <<port_mask, port_id, timer_period>>
  BY DEF OptTenantNumber, Option
<1>3. CASE ParseTenantNumber(arg) < 0
  <2>1. pc' = "failed" /\ UNCHANGED <<tenant_number, oddities>>
    BY <1>1, <1>3
  <2>2. OnlyNumbers
    BY <1>2, <2>1 DEF OnlyNumbers, ArgInv, ArgTypes
  <2> QED
    BY <2>2, NumbersKeepArgs
<1>4. CASE ~ (ParseTenantNumber(arg) < 0)
  <2>1. arg.value \in Nat
    BY HostAssumption
  <2>2. ParseTenantNumber(arg) = AsInt(arg.value)
    BY <1>4 DEF ParseTenantNumber
  <2>3. AsInt(arg.value) \in Int
    BY <2>1, HostAssumption DEF AsInt
  <2>4. AsInt(arg.value) >= 0
    BY <1>4, <2>2, <2>3
  <2>5. /\ tenant_number' = AsInt(arg.value) /\ pc' = pc
        /\ oddities' = oddities \cup Noted("tenants", arg.value # MAX_TENANTS)
    BY <1>1, <1>4, <2>2
  <2>6. /\ tenant_number' \in 0 .. (U32 \div 2) - 1
        /\ arg.value = MAX_TENANTS => tenant_number' = MAX_TENANTS
    BY <2>1, <2>4, <2>5, ParsedNumber
  <2>7. /\ oddities' \subseteq oddities \cup {"tenants"} /\ oddities \subseteq oddities'
        /\ arg.value # MAX_TENANTS => "tenants" \in oddities'
    BY <2>5 DEF Noted
  <2>8. OnlyNumbers
    BY <1>2, <2>5, <2>6, <2>7 DEF OnlyNumbers, ArgInv, ArgTypes
  <2> QED
    BY <2>8, NumbersKeepArgs
<1> QED
  BY <1>3, <1>4

LEMMA TimerPeriodKeepsArgs ==
    ASSUME ArgInv, OptTimerPeriod
    PROVE  ArgInv'
<1>1. PICK arg \in PeriodArgs :
        IF ParseTimerPeriod(arg) < 0
        THEN pc' = "failed" /\ UNCHANGED <<timer_period, oddities>>
        ELSE /\ timer_period' = ParseTimerPeriod(arg)
             /\ oddities' = oddities
                   \cup Noted("period 0", arg.value % U32 = 0 /\ ~arg.rest)
             /\ UNCHANGED pc
  BY DEF OptTimerPeriod
<1>2. /\ pc = "args" /\ options < OptBound /\ options' = options + 1
      /\ UNCHANGED <<port_mask, port_id, tenant_number>>
  BY DEF OptTimerPeriod, Option
<1>3. CASE ParseTimerPeriod(arg) < 0
  <2>1. pc' = "failed" /\ UNCHANGED <<timer_period, oddities>>
    BY <1>1, <1>3
  <2>2. OnlyNumbers
    BY <1>2, <2>1 DEF OnlyNumbers, ArgInv, ArgTypes
  <2> QED
    BY <2>2, NumbersKeepArgs
<1>4. CASE ~ (ParseTimerPeriod(arg) < 0)
  <2>1. arg.value \in Nat
    BY HostAssumption
  <2>2. ParseTimerPeriod(arg) = AsInt(arg.value) /\ ~ arg.rest
    BY <1>4 DEF ParseTimerPeriod
  <2>3. AsInt(arg.value) \in Int
    BY <2>1, HostAssumption DEF AsInt
  <2>4. AsInt(arg.value) >= 0
    BY <1>4, <2>2, <2>3
  <2>5. /\ timer_period' = AsInt(arg.value) /\ pc' = pc
        /\ oddities' = oddities \cup Noted("period 0", arg.value % U32 = 0 /\ ~arg.rest)
    BY <1>1, <1>4, <2>2
  <2>6. /\ timer_period' \in 0 .. (U32 \div 2) - 1
        /\ timer_period' = arg.value % U32
    BY <2>1, <2>4, <2>5, ParsedNumber
  <2>7. /\ oddities' \subseteq oddities \cup {"period 0"} /\ oddities \subseteq oddities'
        /\ arg.value % U32 = 0 => "period 0" \in oddities'
    BY <2>2, <2>5 DEF Noted
  <2>8. timer_period' > 0 \/ "period 0" \in oddities'
    <3> DEFINE n == arg.value % U32
    <3>1. n = 0 => "period 0" \in oddities'
      BY <2>7
    <3>2. timer_period' = n /\ timer_period' \in Nat
      BY <2>6, Sizes
    <3> HIDE DEF n
    <3>3. n = 0 \/ n > 0
      BY <3>2
    <3> QED
      BY <3>1, <3>2, <3>3
  <2>9. OnlyNumbers
    BY <1>2, <2>5, <2>6, <2>7, <2>8 DEF OnlyNumbers, ArgInv, ArgTypes
  <2> QED
    BY <2>9, NumbersKeepArgs
<1> QED
  BY <1>3, <1>4

LEMMA ArgStep ==
    ASSUME ArgInv, [Next]_vars
    PROVE  ArgInv'
<1>1. CASE UNCHANGED argVars /\ pc' \in MainPcs /\ (pc' = "args" => pc = "args")
  BY <1>1 DEF argVars, ArgInv, ArgTypes
<1>2. CASE OptPortmask
  BY <1>2, MaskKeepsArgs
<1>4. CASE OptTenantNumber
  BY <1>4, TenantNumberKeepsArgs
<1>5. CASE OptTimerPeriod
  BY <1>5, TimerPeriodKeepsArgs
<1>6. CASE OptLong
  <2>1. OnlyNumbers
    BY <1>6 DEF OptLong, Option, OnlyNumbers, ArgInv, ArgTypes
  <2> QED
    BY <2>1, NumbersKeepArgs
<1>7. CASE EndArgs
  <2>1. OnlyNumbers
    BY <1>7 DEF EndArgs, OnlyNumbers, ArgInv, ArgTypes
  <2> QED
    BY <2>1, NumbersKeepArgs
<1>8. CASE Initialises \/ Launches \/ Displays \/ Signal
  BY <1>1, <1>8, InitialisesFrame, LaunchesFrame, DisplaysFrame, SignalFrame
     DEF MainPcs, Initialising, ArgInv, ArgTypes
<1>9. CASE Dispatches \/ \E w \in WorkerIds : Searches(w) \/ Works(w)
  BY <1>1, <1>9, SearchesFrame, DispatchesFrame, WorksFrame DEF MainPcs, ArgInv, ArgTypes
<1>10. CASE UNCHANGED vars
  BY <1>1, <1>10 DEF vars, ArgInv, ArgTypes
<1> QED
  BY <1>2, <1>4, <1>5, <1>6, <1>7, <1>8, <1>9, <1>10, Steps DEF Options

-----------------------------------------------------------------------------
(* The start-up *)

\* Before the devices are started none runs; then those of the mask up to the
\* one at work on; in the end all of them.
InitInv ==
    /\ started \subseteq Devices /\ todo \in 0 .. DevCount
    /\ count \in 0 .. MAX_CHECK_TIME + 1 /\ print_flag \in BOOLEAN
    /\ pc \in {"args", "allocate"} => started = {} /\ todo = 0
    /\ pc = "ports" => started = {d \in port_mask : d < todo}
    /\ pc \in {"links", "queues", "launch", "loop", "show",
           "remember"} =>
          started = port_mask \cap Devices

LEMMA InitStep ==
    ASSUME InitInv, ArgInv, [Next]_vars
    PROVE  InitInv'
<1> USE DEF InitInv
<1>0. /\ DevCount \in Nat /\ MAX_CHECK_TIME \in Nat
      /\ port_mask \subseteq Nat /\ Devices = 0 .. DevCount - 1
  BY Sizes, HostAssumption DEF ArgInv, ArgTypes, Devices
<1>1. CASE /\ UNCHANGED <<initVars, port_mask>>
           /\ pc' = pc \/ pc' \in {"ended", "exited", "failed", "fault"}
  BY <1>1 DEF initVars
<1>2. CASE Options
  <2>1. /\ pc = "args" /\ pc' \in {"args", "allocate", "failed", "fault"}
        /\ UNCHANGED initVars
    BY <1>2, OptionsFrame
  <2> QED
    BY <2>1 DEF initVars
<1>3. CASE Allocate
  <2>1. /\ UNCHANGED <<initVars, port_mask>>
        /\ pc = "allocate" /\ pc' \in {"ports", "exited"}
    BY <1>3 DEF Allocate, GoTo, argVars
  <2>2. started' = {} /\ todo' = 0 /\ port_mask' = port_mask
    BY <2>1 DEF initVars
  <2>3. port_mask \subseteq Nat
    BY <1>0
  <2>4. \A d \in port_mask : ~ (d < 0)
    BY <2>3
  <2>5. {d \in port_mask' : d < todo'} = {}
    BY <2>2, <2>4
  <2> QED
    BY <2>1, <2>2, <2>5 DEF initVars
<1>4. CASE InitPort
  <2>1. /\ pc = "ports" /\ pc' = pc /\ todo < DevCount /\ todo' = todo + 1
        /\ started' = IF EnabledPort(todo) THEN started \cup {todo} ELSE started
        /\ UNCHANGED <<port_mask, count, print_flag>>
    BY <1>4 DEF InitPort, argVars
  <2>2. started = {d \in port_mask : d < todo} /\ todo \in Nat
    BY <1>0, <2>1
  <2>3. started' = {d \in port_mask : d < todo + 1}
    <3>1. \A d \in port_mask : d < todo + 1 <=> d < todo \/ d = todo
      BY <1>0, <2>2
    <3> QED
      BY <2>1, <2>2, <3>1 DEF EnabledPort
  <2>4. started' \subseteq Devices /\ todo' \in 0 .. DevCount
    BY <1>0, <2>1, <2>2, <2>3
  <2> QED
    BY <2>1, <2>3, <2>4
<1>5. CASE PortFails \/ CreateQueues
  <2>1. /\ UNCHANGED <<initVars, port_mask>>
        /\ \/ pc' = "exited"
           \/ pc = "queues" /\ pc' = "launch"
    BY <1>5 DEF PortFails, CreateQueues, GoTo, argVars
  <2> QED
    BY <2>1 DEF initVars
<1>6. CASE EndPorts
  <2>1. /\ UNCHANGED <<initVars, port_mask>>
        /\ pc = "ports" /\ pc' = "links" /\ todo = DevCount
    BY <1>6 DEF EndPorts, GoTo, argVars
  <2>2. started = {d \in port_mask : d < DevCount}
    BY <2>1
  <2>3. \A d \in port_mask : d < DevCount <=> d \in Devices
    BY <1>0
  <2>4. started = port_mask \cap Devices
    BY <2>2, <2>3
  <2> QED
    BY <2>1, <2>4 DEF initVars
<1>7. CASE LinkPass
  <2>1. /\ UNCHANGED <<pc, started, todo, port_mask>> /\ pc = "links"
        /\ count <= MAX_CHECK_TIME /\ count' = count + 1 /\ print_flag' \in BOOLEAN
    BY <1>7 DEF LinkPass, argVars
  <2> QED
    BY <1>0, <2>1
<1>8. CASE EndLinks
  <2>1. /\ UNCHANGED <<started, todo, port_mask>>
        /\ pc = "links" /\ pc' \in {"queues", "launch"}
        /\ count' = 0 /\ print_flag' = FALSE
    BY <1>8 DEF EndLinks, argVars
  <2>2. count' \in 0 .. MAX_CHECK_TIME + 1
    BY <1>0, <2>1
  <2>3. started = port_mask \cap Devices
    BY <2>1
  <2> QED
    BY <2>1, <2>2, <2>3
<1>9. CASE Launches
  <2>1. /\ pc = "launch" /\ pc' \in {"launch", "loop", "failed"}
        /\ UNCHANGED <<initVars, port_mask>>
    BY <1>9, LaunchesFrame DEF argVars
  <2> QED
    BY <2>1 DEF initVars
<1>10. CASE Displays
  <2>1. /\ pc \in {"loop", "show", "remember"} /\ pc' \in {"loop", "show", "remember", "ended", "fault"}
        /\ UNCHANGED <<initVars, port_mask>>
    BY <1>10, DisplaysFrame DEF argVars
  <2> QED
    BY <2>1 DEF initVars
<1>11. CASE Signal \/ UNCHANGED vars
  BY <1>1, <1>11, SignalFrame DEF vars, argVars
<1>12. CASE Dispatches \/ \E w \in WorkerIds : Searches(w) \/ Works(w)
  BY <1>1, <1>12, SearchesFrame, DispatchesFrame, WorksFrame DEF argVars
<1> QED
  BY <1>2, <1>3, <1>4, <1>5, <1>6, <1>7, <1>8, <1>9, <1>10, <1>11, <1>12, Steps
     DEF Initialises

-----------------------------------------------------------------------------
(* The launches *)

\* The lcores from 1 to cur_lcore have a thread each: the first the dispatcher if
\* there is one, the others the workers, in the order of their numbers.
LaunchInv ==
    /\ program \in Programs /\ lcores \in LcoreCounts[program] /\ lcores \in Nat \ {0}
    /\ cur_lcore \in Lcores(lcores) /\ launched \in Nat
    /\ \/ program = "hardware" /\ cur_lcore = launched
       \/ program = "software" /\ cur_lcore = 0 /\ launched = 0
       \/ program = "software" /\ cur_lcore = launched + 1
    /\ thread = [c \in Lcores(lcores) |->
                    IF c = 0 \/ c > cur_lcore THEN "none"
                    ELSE IF program = "software" /\ c = 1 THEN "dispatcher" ELSE "worker"]
    /\ pc \in {"loop", "show", "remember"} => cur_lcore = lcores - 1
    /\ pc \in {"args", "failed"} \cup Initialising => cur_lcore = 0
    /\ info \in [WorkerIds -> WorkerIds]
    /\ worker \in [WorkerIds -> WorkerPcs]
    /\ \A w \in WorkerIds : worker[w] # "off" => w < launched /\ info[w] = w
    /\ dispatcher \in {"off", "poll", "named", "done"}
    /\ program = "hardware" \/ cur_lcore = 0 => dispatcher = "off"

(* The numbers of the workers that can be launched.                          *)
LEMMA WorkerNumbers ==
    ASSUME program \in Programs, lcores \in LcoreCounts[program], lcores \in Nat,
           NEW n \in Nat, n < WorkerLcores
    PROVE  n \in WorkerIds /\ n + 1 < lcores
<1>1. CASE program = "software"
  <2>1. n \in 0 .. lcores - 3
    BY <1>1 DEF WorkerLcores
  <2>2. 0 .. lcores - 3 \in {0 .. m - 3 : m \in LcoreCounts["software"]}
    BY <1>1
  <2> QED
    BY <2>1, <2>2 DEF WorkerIds
<1>2. CASE program # "software"
  <2>1. n \in 0 .. lcores - 2 /\ program = "hardware"
    BY <1>2 DEF WorkerLcores, Programs
  <2>2. 0 .. lcores - 2 \in {0 .. m - 2 : m \in LcoreCounts["hardware"]}
    BY <2>1
  <2> QED
    BY <2>1, <2>2 DEF WorkerIds
<1> QED
  BY <1>1, <1>2

\* The next lcore is free, and gets the thread.
Launched(kind) ==
    /\ pc' = pc /\ cur_lcore' = cur_lcore + 1
    /\ thread' = [thread EXCEPT ![cur_lcore + 1] = kind]
    /\ UNCHANGED <<program, lcores>>

LEMMA LaunchIsFree ==
    ASSUME LaunchInv, NEW kind, LaunchOn(kind), cur_lcore + 1 < lcores
    PROVE  Launched(kind)
<1>1. NextLcore = cur_lcore + 1
  BY DEF NextLcore
<1>2. cur_lcore + 1 \in Lcores(lcores) /\ cur_lcore + 1 # 0 /\ cur_lcore + 1 > cur_lcore
  BY DEF LaunchInv, Lcores
<1>3. thread[cur_lcore + 1] = "none"
  BY <1>2 DEF LaunchInv
<1> QED
  BY <1>1, <1>3 DEF LaunchOn, Launched

(* What the launch of a thread leaves of who has which lcore.                *)
LEMMA ThreadsAfter ==
    ASSUME LaunchInv, NEW kind, Launched(kind), cur_lcore + 1 < lcores,
           kind = IF program = "software" /\ cur_lcore = 0 THEN "dispatcher" ELSE "worker"
    PROVE  /\ cur_lcore' \in Lcores(lcores')
           /\ thread' = [c \in Lcores(lcores') |->
                  IF c = 0 \/ c > cur_lcore' THEN "none"
                  ELSE IF program' = "software" /\ c = 1 THEN "dispatcher" ELSE "worker"]
<1> DEFINE n == cur_lcore + 1
           after == [c \in Lcores(lcores) |->
                       IF c = 0 \/ c > n THEN "none"
                       ELSE IF program = "software" /\ c = 1 THEN "dispatcher" ELSE "worker"]
<1>1. /\ cur_lcore \in Nat /\ lcores \in Nat /\ Lcores(lcores) = 0 .. lcores - 1
      /\ n \in Lcores(lcores)
  BY DEF LaunchInv, Lcores
<1>2. thread = [c \in Lcores(lcores) |->
                   IF c = 0 \/ c > cur_lcore THEN "none"
                   ELSE IF program = "software" /\ c = 1 THEN "dispatcher" ELSE "worker"]
  BY DEF LaunchInv
<1>3. thread' = [thread EXCEPT ![n] = kind]
  BY DEF Launched
<1>4. ASSUME NEW c \in Lcores(lcores)
      PROVE  thread'[c] = after[c]
  <2>1. CASE c = n
    <3>1. thread'[c] = kind
      BY <1>1, <1>2, <1>3, <2>1
    <3>2. c # 0 /\ ~ (c > n) /\ (c = 1 <=> cur_lcore = 0)
      BY <1>1, <2>1
    <3> QED
      BY <3>1, <3>2
  <2>2. CASE c # n
    <3>1. thread'[c] = thread[c]
      BY <1>2, <1>3, <2>2
    <3>2. c > n <=> c > cur_lcore
      BY <1>1, <2>2
    <3> QED
      BY <1>2, <3>1, <3>2
  <2> QED
    BY <2>1, <2>2
<1>5. thread' = after
  BY <1>2, <1>3, <1>4
<1> QED
  BY <1>1, <1>5 DEF Launched

(* The dispatcher has its lcore when the launch of the workers begins.       *)
LEMMA DispatcherHasLcore ==
    ASSUME LaunchInv
    PROVE  DispatcherLaunched <=> (program = "software" => cur_lcore = launched + 1)
<1>1. CASE program # "software"
  BY <1>1 DEF DispatcherLaunched
<1>2. CASE program = "software" /\ cur_lcore = launched + 1
  <2>1. /\ cur_lcore \in Nat /\ lcores \in Nat /\ cur_lcore < lcores /\ cur_lcore >= 1
        /\ Lcores(lcores) = 0 .. lcores - 1
    BY <1>2 DEF LaunchInv, Lcores
  <2>2. 1 \in Lcores(lcores) /\ ~ (1 > cur_lcore)
    BY <2>1
  <2>3. thread[1] = "dispatcher"
    BY <1>2, <2>2 DEF LaunchInv
  <2> QED
    BY <1>2, <2>2, <2>3 DEF DispatcherLaunched
<1>3. CASE program = "software" /\ cur_lcore = 0 /\ launched = 0
  <2>1. \A c \in Lcores(lcores) : c = 0 \/ c > cur_lcore
    BY <1>3 DEF LaunchInv, Lcores
  <2>2. \A c \in Lcores(lcores) : thread[c] = "none"
    BY <2>1 DEF LaunchInv
  <2> QED
    BY <1>3, <2>2 DEF DispatcherLaunched
<1> QED
  BY <1>1, <1>2, <1>3 DEF LaunchInv

LEMMA DispatcherIsLaunched ==
    ASSUME LaunchInv, LaunchDispatcher
    PROVE  LaunchInv'
<1>1. /\ pc = "launch" /\ lcores > 1 /\ LaunchOn("dispatcher")
      /\ dispatcher' = "poll" /\ UNCHANGED <<launched, info, worker>>
      /\ ~ DispatcherLaunched
  BY DEF LaunchDispatcher
<1>2. program = "software" /\ cur_lcore = 0 /\ launched = 0
  BY <1>1, DispatcherHasLcore DEF LaunchInv
<1>3. Launched("dispatcher") /\ cur_lcore + 1 < lcores
  <2>1. cur_lcore + 1 < lcores
    BY <1>1, <1>2
  <2> QED
    BY <1>1, <2>1, LaunchIsFree
<1>4. /\ cur_lcore' \in Lcores(lcores')
      /\ thread' = [c \in Lcores(lcores') |->
             IF c = 0 \/ c > cur_lcore' THEN "none"
             ELSE IF program' = "software" /\ c = 1 THEN "dispatcher" ELSE "worker"]
  BY <1>2, <1>3, ThreadsAfter
<1>5. pc' = "launch" /\ cur_lcore' = 1 /\ UNCHANGED <<program, lcores, launched>>
  BY <1>1, <1>2, <1>3 DEF Launched
<1>6. /\ program' = "software" /\ cur_lcore' = launched' + 1 /\ cur_lcore' # 0
      /\ pc' \notin {"loop", "show", "remember", "args", "failed"} \cup Initialising
  BY <1>2, <1>5 DEF Initialising
<1> QED
  BY <1>1, <1>4, <1>5, <1>6 DEF LaunchInv

LEMMA WorkerIsLaunched ==
    ASSUME LaunchInv, LaunchWorker
    PROVE  /\ LaunchInv'
           /\ pc' = pc /\ launched \in WorkerIds /\ worker[launched] = "off"
           /\ info' = [info EXCEPT ![launched] = launched]
           /\ worker' = [worker EXCEPT ![launched] = "start"]
<1>1. /\ pc = "launch" /\ launched < WorkerLcores /\ DispatcherLaunched
      /\ LaunchOn("worker") /\ launched' = launched + 1
      /\ IF pc' = "failed" THEN UNCHANGED <<info, worker>>
         ELSE /\ info' = InfoOwn
              /\ worker' = [worker EXCEPT ![launched] = "start"]
      /\ UNCHANGED <<dispatcher>>
  BY DEF LaunchWorker, nameVars
<1>2. /\ program \in Programs /\ lcores \in LcoreCounts[program] /\ lcores \in Nat
      /\ launched \in Nat /\ cur_lcore \in Nat
  BY DEF LaunchInv, Lcores
<1>3. launched \in WorkerIds
  BY <1>1, <1>2, WorkerNumbers
<1>4. \/ program = "software" /\ cur_lcore = launched + 1
      \/ program = "hardware" /\ cur_lcore = launched
  BY <1>1, DispatcherHasLcore DEF LaunchInv
<1>5. cur_lcore + 1 < lcores
  <2>1. CASE program = "software" /\ cur_lcore = launched + 1
    BY <1>1, <1>2, <2>1 DEF WorkerLcores
  <2>2. CASE program = "hardware" /\ cur_lcore = launched
    BY <1>1, <1>2, <2>2 DEF WorkerLcores
  <2> QED
    BY <1>4, <2>1, <2>2
<1>6. Launched("worker")
  BY <1>1, <1>5, LaunchIsFree
<1>7. ~ (program = "software" /\ cur_lcore = 0)
  BY <1>2, <1>4
<1>8. /\ cur_lcore' \in Lcores(lcores')
      /\ thread' = [c \in Lcores(lcores') |->
             IF c = 0 \/ c > cur_lcore' THEN "none"
             ELSE IF program' = "software" /\ c = 1 THEN "dispatcher" ELSE "worker"]
  BY <1>5, <1>6, <1>7, ThreadsAfter
<1>9. /\ pc' = "launch" /\ cur_lcore' = cur_lcore + 1 /\ UNCHANGED <<program, lcores>>
  BY <1>1, <1>6 DEF Launched
<1>10. /\ info' = [info EXCEPT ![launched] = launched]
       /\ worker' = [worker EXCEPT ![launched] = "start"]
  BY <1>1, <1>9 DEF InfoOwn
<1>11. worker[launched] = "off"
  BY <1>2, <1>3 DEF LaunchInv
<1>12. /\ info' \in [WorkerIds -> WorkerIds] /\ worker' \in [WorkerIds -> WorkerPcs]
       /\ \A w \in WorkerIds : worker'[w] # "off" => w < launched' /\ info'[w] = w
  <2>1. info \in [WorkerIds -> WorkerIds] /\ worker \in [WorkerIds -> WorkerPcs]
    BY DEF LaunchInv
  <2>2. info' \in [WorkerIds -> WorkerIds] /\ worker' \in [WorkerIds -> WorkerPcs]
    BY <1>3, <1>10, <2>1 DEF WorkerPcs
  <2>3. ASSUME NEW w \in WorkerIds, worker'[w] # "off"
        PROVE  w < launched' /\ info'[w] = w
    <3>1. CASE w = launched
      BY <1>1, <1>2, <1>3, <1>10, <2>1, <3>1
    <3>2. CASE w # launched
      <4>1. worker[w] # "off" /\ info'[w] = info[w]
        BY <1>10, <2>1, <2>3, <3>2
      <4>2. w < launched /\ info[w] = w
        BY <4>1 DEF LaunchInv
      <4>3. w \in Nat
        BY HostAssumption DEF WorkerIds
      <4> QED
        BY <1>1, <1>2, <4>1, <4>2, <4>3
    <3> QED
      BY <3>1, <3>2
  <2> QED
    BY <2>2, <2>3
<1>13. /\ \/ program' = "hardware" /\ cur_lcore' = launched'
          \/ program' = "software" /\ cur_lcore' = launched' + 1
       /\ launched' \in Nat /\ cur_lcore' # 0
  BY <1>1, <1>2, <1>4, <1>9
<1>14. pc' \notin {"loop", "show", "remember", "args", "failed"} \cup Initialising
  BY <1>9 DEF Initialising
<1>15. LaunchInv'
  BY <1>1, <1>8, <1>9, <1>12, <1>13, <1>14 DEF LaunchInv
<1> QED
  BY <1>1, <1>3, <1>9, <1>10, <1>11, <1>15

\* What a worker remembers between reading a counter and writing it.
CountTypes ==
    /\ nb_tx \in [WorkerIds -> 0 .. MAX_PKT_BUFFER]
    /\ has_read \in [WorkerIds -> BOOLEAN] /\ reg \in [WorkerIds -> Nat]
    /\ work \in 0 .. WorkBound
    /\ counter \in [Counters -> Nat] /\ real \in [Counters -> Nat]
    /\ writers \in [Counters -> SUBSET WorkerIds]
    /\ \A w \in WorkerIds : has_read[w] => worker[w] \in PortCounters

\* A worker that runs goes on, and no other moves.
Moves(w) ==
    \/ UNCHANGED worker
    \/ /\ worker[w] # "off"
       /\ \E p \in WorkerPcs \ {"off"} : worker' = [worker EXCEPT ![w] = p]

LEMMA SearchMoves ==
    ASSUME NEW w \in WorkerIds, Searches(w)
    PROVE  Moves(w)
<1>1. CASE WorkerNames(w)
  BY <1>1 DEF WorkerNames, Moves, WorkerPcs
<1>2. CASE WorkerLooksUp(w)
  BY <1>2 DEF WorkerLooksUp, Moves, WorkerPcs
<1>3. CASE WorkerStarts(w)
  BY <1>3 DEF WorkerStarts, Moves, WorkerPcs
<1> QED
  BY <1>1, <1>2, <1>3 DEF Searches

LEMMA WorkMoves ==
    ASSUME CountTypes, NEW w \in WorkerIds, Works(w)
    PROVE  Moves(w) /\ worker[w] # "off"
<1>1. CASE WorkerServes(w)
  <2>1. worker[w] = "poll"
    BY <1>1 DEF WorkerServes
  <2>2. \/ UNCHANGED worker
        \/ \E n \in 0 .. MAX_PKT_BUFFER :
             worker' = [worker EXCEPT ![w] =
                           IF program = "hardware" THEN "rx" ELSE FirstSent(n)]
    BY <1>1 DEF WorkerServes
  <2>3. \A n : (IF program = "hardware" THEN "rx" ELSE FirstSent(n)) \in WorkerPcs \ {"off"}
    BY DEF FirstSent, WorkerPcs
  <2> QED
    BY <2>1, <2>2, <2>3 DEF Moves
<1>2. CASE ReadCounter(w)
  BY <1>2 DEF ReadCounter, Moves, PortCounters
<1>3. CASE WriteCounter(w)
  <2>1. has_read[w] /\ worker' = [worker EXCEPT ![w] = NextCounter(w)]
    BY <1>3 DEF WriteCounter
  <2>2. worker[w] \in {"rx", "tx", "tx_drop"}
    BY <2>1 DEF CountTypes, PortCounters
  <2>3. NextCounter(w) \in WorkerPcs \ {"off"}
    BY <2>2 DEF NextCounter, FirstSent, WorkerPcs
  <2> QED
    BY <2>1, <2>2, <2>3 DEF Moves
<1>4. CASE WorkerStops(w)
  BY <1>4 DEF WorkerStops, Moves, WorkerPcs
<1> QED
  BY <1>1, <1>2, <1>3, <1>4 DEF Works

(* A step that launches nothing keeps who has which lcore.                   *)
LEMMA MovesKeepLaunches ==
    ASSUME LaunchInv, UNCHANGED <<program, lcores, launchVars>>,
           UNCHANGED worker \/ \E w \in WorkerIds : Moves(w),
           dispatcher' \in {"off", "poll", "named", "done"},
           dispatcher' # dispatcher => dispatcher # "off",
           \/ pc' \in {pc, "exited", "fault", "ended"}
           \/ cur_lcore = 0 /\ pc' \notin {"loop", "show", "remember"}
           \/ pc' \in {"loop", "show", "remember"} /\ cur_lcore = lcores - 1
    PROVE  LaunchInv'
<1>1. UNCHANGED <<program, lcores, cur_lcore, launched, thread, info>>
  BY DEF launchVars
<1>2. worker \in [WorkerIds -> WorkerPcs]
  BY DEF LaunchInv
<1>3. /\ worker' \in [WorkerIds -> WorkerPcs]
      /\ \A w \in WorkerIds : worker'[w] # "off" => worker[w] # "off"
  <2>1. ASSUME NEW w \in WorkerIds, worker[w] # "off",
               NEW p \in WorkerPcs \ {"off"}, worker' = [worker EXCEPT ![w] = p]
        PROVE  /\ worker' \in [WorkerIds -> WorkerPcs]
               /\ \A v \in WorkerIds : worker'[v] # "off" => worker[v] # "off"
    BY <1>2, <2>1
  <2> QED
    BY <1>2, <2>1 DEF Moves
<1>4. \A w \in WorkerIds : worker'[w] # "off" => w < launched' /\ info'[w] = w
  BY <1>1, <1>3 DEF LaunchInv
<1>5. /\ pc' \in {"loop", "show", "remember"} => cur_lcore' = lcores' - 1
      /\ pc' \in {"args", "failed"} \cup Initialising => cur_lcore' = 0
  BY <1>1 DEF LaunchInv, Initialising
<1>6. program' = "hardware" \/ cur_lcore' = 0 => dispatcher' = "off"
  BY <1>1 DEF LaunchInv
<1> QED
  BY <1>1, <1>3, <1>4, <1>5, <1>6 DEF LaunchInv

LEMMA LaunchStep ==
    ASSUME LaunchInv, CountTypes, [Next]_vars
    PROVE  LaunchInv'
<1>0. dispatcher \in {"off", "poll", "named", "done"}
  BY DEF LaunchInv
<1>1. CASE Options
  <2>1. /\ pc = "args" /\ pc' \in {"args", "allocate", "failed", "fault"}
        /\ UNCHANGED <<program, lcores, launchVars, worker, dispatcher>>
    BY <1>1, OptionsFrame DEF nameVars
  <2>2. cur_lcore = 0
    BY <2>1 DEF LaunchInv
  <2> QED
    BY <1>0, <2>1, <2>2, MovesKeepLaunches
<1>2. CASE Initialises
  <2>1. /\ pc \in Initialising /\ pc' \in Initialising \cup {"launch", "exited"}
        /\ UNCHANGED <<program, lcores, launchVars, worker, dispatcher>>
    BY <1>2, InitialisesFrame DEF nameVars
  <2>2. cur_lcore = 0 /\ pc' \notin {"loop", "show", "remember"}
    BY <2>1 DEF LaunchInv, Initialising
  <2> QED
    BY <1>0, <2>1, <2>2, MovesKeepLaunches
<1>3. CASE LaunchDispatcher
  BY <1>3, DispatcherIsLaunched
<1>4. CASE LaunchWorker
  BY <1>4, WorkerIsLaunched
<1>5. CASE LaunchesDone
  <2>1. /\ launched = WorkerLcores /\ DispatcherLaunched /\ pc' = "loop"
        /\ UNCHANGED <<program, lcores, launchVars, worker, dispatcher>>
    BY <1>5 DEF LaunchesDone, GoTo, nameVars
  <2>2. cur_lcore = lcores - 1
    <3>1. lcores \in Nat /\ launched \in Nat
      BY DEF LaunchInv
    <3>2. CASE program = "software" /\ cur_lcore = launched + 1
      BY <2>1, <3>1, <3>2 DEF WorkerLcores
    <3>3. CASE program = "hardware" /\ cur_lcore = launched
      BY <2>1, <3>1, <3>3 DEF WorkerLcores
    <3> QED
      BY <2>1, <3>2, <3>3, DispatcherHasLcore DEF LaunchInv
  <2> QED
    BY <1>0, <2>1, <2>2, MovesKeepLaunches
<1>6. CASE Displays
  <2>1. /\ pc \in {"loop", "show", "remember"} /\ pc' \in {"loop", "show", "remember", "ended", "fault"}
        /\ UNCHANGED <<program, lcores, launchVars, worker, dispatcher>>
    BY <1>6, DisplaysFrame DEF nameVars
  <2>2. cur_lcore = lcores - 1
    BY <2>1 DEF LaunchInv
  <2> QED
    BY <1>0, <2>1, <2>2, MovesKeepLaunches
<1>7. CASE Signal \/ UNCHANGED vars
  <2>1. UNCHANGED <<program, lcores, pc, launchVars, worker, dispatcher>>
    BY <1>7, SignalFrame DEF nameVars, vars
  <2> QED
    BY <1>0, <2>1, MovesKeepLaunches
<1>8. CASE Dispatches
  <2>1. /\ dispatcher \in {"poll", "named"} /\ pc' \in {pc, "exited"}
        /\ UNCHANGED <<program, lcores, launchVars, worker>>
    BY <1>8, DispatchesFrame
  <2>2. dispatcher' \in {"poll", "named", "done"}
    BY <1>8, <2>1
       DEF Dispatches, DispatcherNames, DispatcherLooksUp, DispatcherStops
  <2> QED
    BY <2>1, <2>2, MovesKeepLaunches
<1>9. ASSUME NEW w \in WorkerIds, Searches(w)
      PROVE  LaunchInv'
  <2>1. /\ pc' \in {pc, "exited"}
        /\ UNCHANGED <<program, lcores, launchVars, dispatcher>>
    BY <1>9, SearchesFrame
  <2>2. Moves(w)
    BY <1>9, SearchMoves
  <2> QED
    BY <1>0, <2>1, <2>2, MovesKeepLaunches
<1>10. ASSUME NEW w \in WorkerIds, Works(w)
       PROVE  LaunchInv'
  <2>1. /\ pc' \in {pc, "fault"}
        /\ UNCHANGED <<program, lcores, launchVars, dispatcher>>
    BY <1>10, WorksFrame DEF nameVars
  <2>2. Moves(w)
    BY <1>10, WorkMoves
  <2> QED
    BY <1>0, <2>1, <2>2, MovesKeepLaunches
<1> QED
  BY <1>1, <1>2, <1>3, <1>4, <1>5, <1>6, <1>7, <1>8, <1>9, <1>10, Steps DEF Launches

\* A worker that was launched is one of those there are to be.
LEMMA LaunchedWorkers ==
    ASSUME LaunchInv, NEW w \in WorkerIds, worker[w] # "off"
    PROVE  /\ cur_lcore # 0 /\ info[w] = w
           /\ w \in Nat /\ launched \in Nat /\ WorkerLcores \in Int
           /\ w < launched /\ launched <= WorkerLcores
<1>0. w \in Nat
  BY HostAssumption DEF WorkerIds
<1>1. info[w] = w /\ w < launched
  BY DEF LaunchInv
<1>2. /\ launched \in Nat /\ cur_lcore \in Nat /\ lcores \in Nat /\ cur_lcore < lcores
      /\ WorkerLcores \in Int
  BY DEF LaunchInv, Lcores, WorkerLcores
<1>3. launched # 0 /\ cur_lcore # 0
  BY <1>0, <1>1, <1>2 DEF LaunchInv
<1>4. launched <= WorkerLcores
  <2>1. CASE program = "software" /\ cur_lcore = launched + 1
    BY <1>2, <2>1 DEF WorkerLcores
  <2>2. CASE program = "hardware" /\ cur_lcore = launched
    BY <1>2, <2>2 DEF WorkerLcores
  <2> QED
    BY <1>3, <2>1, <2>2 DEF LaunchInv
<1> QED
  BY <1>0, <1>1, <1>2, <1>3, <1>4

\* While a worker runs, main is past the start-up.
LEMMA RunningWorkers ==
    ASSUME LaunchInv, pc \in MainPcs, Running, NEW w \in WorkerIds, worker[w] # "off"
    PROVE  pc \in {"launch", "loop", "show", "remember"}
<1>1. cur_lcore # 0
  BY LaunchedWorkers
<1> QED
  BY <1>1 DEF LaunchInv, Running, Ended, MainPcs, Initialising

-----------------------------------------------------------------------------
(* The search for a ring by name *)

\* While nobody has written the buffer over, it holds the name of the only thread
\* between writing it and looking it up.
NameInv ==
    /\ ring \in [WorkerIds -> Queues \cup {QUEUE_NUM}]
    /\ wid \in Queues /\ buffer \in Nat
    /\ naming \subseteq WorkerIds \cup {-1}
    /\ overlapped \in BOOLEAN /\ misplaced \in BOOLEAN
    /\ Running => /\ dispatcher = "named" => -1 \in naming
                  /\ \A w \in WorkerIds : worker[w] = "named" => w \in naming
    /\ ~ overlapped =>
          /\ \A s, t \in naming : s = t
          /\ Running /\ dispatcher = "named" => buffer = wid
          /\ \A w \in WorkerIds : Running /\ worker[w] = "named" => buffer = w
          /\ \A w \in WorkerIds : ring[w] \in {w, QUEUE_NUM}
          /\ ~ misplaced

LEMMA NameStep ==
    ASSUME NameInv, LaunchInv, CountTypes, pc \in MainPcs, [Next]_vars
    PROVE  NameInv'
<1> DEFINE searchVars == <<wid, ring, buffer, naming, overlapped, misplaced>>
<1>0. \A w \in WorkerIds : w \in Nat
  BY HostAssumption DEF WorkerIds
<1>1. ASSUME UNCHANGED searchVars, Running' => Running,
             dispatcher' = "named" => dispatcher = "named",
             \A w \in WorkerIds : worker'[w] = "named" => worker[w] = "named"
      PROVE  NameInv'
  BY <1>1 DEF NameInv
<1>2. CASE Options
  <2>1. pc = "args" /\ UNCHANGED <<nameVars, worker>>
    BY <1>2, OptionsFrame
  <2> QED
    BY <1>1, <2>1 DEF nameVars, Running, Ended
<1>3. CASE Initialises
  <2>1. pc \in Initialising /\ UNCHANGED <<nameVars, worker>>
    BY <1>3, InitialisesFrame
  <2> QED
    BY <1>1, <2>1 DEF nameVars, Running, Ended, Initialising
<1>4. CASE Launches
  <2>1. pc = "launch" /\ UNCHANGED searchVars
    BY <1>4, LaunchesFrame
  <2>2. /\ dispatcher' = "named" => dispatcher = "named"
        /\ \A w \in WorkerIds : worker'[w] = "named" => worker[w] = "named"
    <3>1. CASE LaunchDispatcher
      BY <3>1 DEF LaunchDispatcher
    <3>2. CASE LaunchWorker
      <4>1. /\ worker' = [worker EXCEPT ![launched] = "start"]
            /\ UNCHANGED dispatcher /\ worker \in [WorkerIds -> WorkerPcs]
        BY <3>2, WorkerIsLaunched DEF LaunchWorker, nameVars, LaunchInv
      <4> QED
        BY <4>1
    <3>3. CASE LaunchesDone
      BY <3>3 DEF LaunchesDone, GoTo, nameVars
    <3> QED
      BY <1>4, <3>1, <3>2, <3>3 DEF Launches
  <2> HIDE DEF searchVars
  <2> QED
    BY <1>1, <2>1, <2>2 DEF Running, Ended
<1>5. CASE Displays
  <2>1. pc \in {"loop", "show", "remember"} /\ UNCHANGED <<nameVars, worker>>
    BY <1>5, DisplaysFrame
  <2> QED
    BY <1>1, <2>1 DEF nameVars, Running, Ended
<1>6. CASE Signal \/ UNCHANGED vars
  <2>1. UNCHANGED <<pc, nameVars, worker>>
    BY <1>6, SignalFrame DEF vars
  <2> QED
    BY <1>1, <2>1 DEF nameVars, Running
<1>7. CASE DispatcherNames
  <2>1. /\ wid' \in Queues /\ Name(-1, wid') /\ dispatcher = "poll"
        /\ Running /\ UNCHANGED <<pc, worker, ring, misplaced>>
    BY <1>7 DEF DispatcherNames
  <2>2. /\ buffer' = wid' /\ naming' = naming \cup {-1}
        /\ overlapped' = (overlapped \/ naming # {})
    BY <2>1 DEF Name
  <2>3. wid' \in Nat
    BY <2>1, Sizes DEF Queues
  <2>4. ~ overlapped' => naming = {} /\ ~ overlapped
    BY <2>2
  <2> QED
    BY <2>1, <2>2, <2>3, <2>4 DEF NameInv
<1>8. CASE DispatcherLooksUp
  <2>1. /\ Running /\ dispatcher = "named" /\ NameIsRead(-1)
        /\ UNCHANGED <<worker, ring, overlapped>>
        /\ IF buffer \in Queues
           THEN /\ misplaced' = (misplaced \/ buffer # wid)
                /\ dispatcher' = "poll" /\ wid' = 0
                /\ UNCHANGED pc
           ELSE pc' = "exited" /\ UNCHANGED <<misplaced, dispatcher, wid>>
    BY <1>8 DEF DispatcherLooksUp
  <2>2. /\ naming' = naming \ {-1}
        /\ buffer' = IF naming' = {} THEN 0 ELSE buffer
    BY <2>1 DEF NameIsRead
  <2>3. -1 \in naming
    BY <2>1 DEF NameInv
  <2>4. ~ overlapped => naming' = {} /\ buffer = wid
    BY <2>1, <2>2, <2>3 DEF NameInv
  <2>5. \A w \in WorkerIds : w # -1
    BY <1>0
  <2>6. ~ overlapped => \A w \in WorkerIds : worker[w] # "named"
    BY <2>1, <2>3, <2>5 DEF NameInv
  <2>7. 0 \in Queues /\ 0 \in Nat
    BY HostAssumption DEF Queues
  <2>8. CASE buffer \in Queues
    <3>1. /\ misplaced' = (misplaced \/ buffer # wid)
          /\ dispatcher' = "poll" /\ wid' = 0 /\ UNCHANGED pc
      BY <2>1, <2>8
    <3>2. Running' /\ misplaced' \in BOOLEAN /\ wid' \in Queues /\ buffer' \in Nat
      BY <2>1, <2>2, <2>7, <3>1 DEF Running, NameInv
    <3>3. \A w \in WorkerIds : worker'[w] = "named" => w \in naming'
      BY <2>1, <2>2, <2>5 DEF NameInv
    <3> QED
      BY <2>1, <2>2, <2>4, <2>6, <3>1, <3>2, <3>3 DEF NameInv
  <2>9. CASE buffer \notin Queues
    <3>1. pc' = "exited" /\ UNCHANGED <<misplaced, dispatcher, wid>>
      BY <2>1, <2>9
    <3>2. ~ Running' /\ buffer' \in Nat
      BY <2>2, <2>7, <3>1 DEF Running, Ended, NameInv
    <3> QED
      BY <2>1, <2>2, <3>1, <3>2 DEF NameInv
  <2> QED
    BY <2>8, <2>9
<1>9. CASE DispatcherStops
  <2>1. dispatcher' = "done" /\ UNCHANGED <<pc, searchVars, worker>>
    BY <1>9 DEF DispatcherStops
  <2> QED
    BY <1>1, <2>1 DEF Running
<1>10. ASSUME NEW w \in WorkerIds, Works(w)
       PROVE  NameInv'
  <2>1. Running /\ UNCHANGED nameVars
    BY <1>10, WorksFrame
  <2>2. \A v \in WorkerIds : worker'[v] = "named" => worker[v] = "named"
    <3>0. worker \in [WorkerIds -> WorkerPcs]
      BY DEF LaunchInv
    <3>1. CASE WorkerServes(w)
      BY <3>0, <3>1 DEF WorkerServes, FirstSent
    <3>2. CASE ReadCounter(w)
      BY <3>2 DEF ReadCounter
    <3>3. CASE WriteCounter(w)
      <4>1. has_read[w] /\ worker' = [worker EXCEPT ![w] = NextCounter(w)]
        BY <3>3 DEF WriteCounter
      <4>2. worker[w] \in {"rx", "tx", "tx_drop"}
        BY <4>1 DEF CountTypes, PortCounters
      <4>3. NextCounter(w) # "named"
        BY <4>2 DEF NextCounter, FirstSent
      <4> QED
        BY <3>0, <4>1, <4>3
    <3>4. CASE WorkerStops(w)
      BY <3>0, <3>4 DEF WorkerStops
    <3> QED
      BY <1>10, <3>1, <3>2, <3>3, <3>4 DEF Works
  <2> QED
    BY <1>1, <2>1, <2>2 DEF nameVars
<1>11. ASSUME NEW w \in WorkerIds, WorkerStarts(w)
       PROVE  NameInv'
  <2>1. /\ worker' = [worker EXCEPT ![w] = "poll"]
        /\ worker \in [WorkerIds -> WorkerPcs]
        /\ Running /\ UNCHANGED <<pc, nameVars>>
    BY <1>11 DEF WorkerStarts, LaunchInv
  <2>2. \A v \in WorkerIds : worker'[v] = "named" => worker[v] = "named"
    BY <2>1
  <2> QED
    BY <1>1, <2>1, <2>2 DEF nameVars
<1>12. ASSUME NEW w \in WorkerIds, WorkerNames(w)
       PROVE  NameInv'
  <2>1. /\ Running /\ worker[w] = "start" /\ Name(w, info[w])
        /\ worker' = [worker EXCEPT ![w] = "named"]
        /\ UNCHANGED <<pc, dispatcher, wid, ring, misplaced>>
    BY <1>12 DEF WorkerNames
  <2>2. info[w] = w
    BY <2>1 DEF LaunchInv
  <2>3. /\ buffer' = w /\ naming' = naming \cup {w} /\ buffer' \in Nat
        /\ overlapped' = (overlapped \/ naming # {})
    BY <1>0, <2>1, <2>2 DEF Name
  <2>4. ~ overlapped' => naming = {} /\ ~ overlapped
    BY <2>3
  <2>5. \A v \in WorkerIds : worker'[v] = "named" => v = w \/ worker[v] = "named"
    BY <2>1 DEF LaunchInv
  <2>6. \A v \in WorkerIds : worker'[v] = "named" => v = w \/ v \in naming
    BY <2>1, <2>5 DEF NameInv
  <2>7. dispatcher = "named" => -1 \in naming
    BY <2>1 DEF NameInv
  <2> QED
    BY <2>1, <2>3, <2>4, <2>6, <2>7 DEF NameInv
<1>13. ASSUME NEW w \in WorkerIds, WorkerLooksUp(w)
       PROVE  NameInv'
  <2>1. /\ Running /\ worker[w] = "named" /\ NameIsRead(w)
        /\ UNCHANGED <<dispatcher, wid, overlapped, misplaced>>
        /\ IF buffer \in Queues
           THEN /\ ring' = [ring EXCEPT ![w] = buffer]
                /\ worker' = [worker EXCEPT ![w] = "poll"]
                /\ UNCHANGED pc
           ELSE pc' = "exited" /\ UNCHANGED <<ring, worker>>
    BY <1>13 DEF WorkerLooksUp
  <2>2. /\ naming' = naming \ {w}
        /\ buffer' = IF naming' = {} THEN 0 ELSE buffer
    BY <2>1 DEF NameIsRead
  <2>3. w \in naming
    BY <2>1 DEF NameInv
  <2>4. ~ overlapped => naming' = {} /\ buffer = w
    BY <2>1, <2>2, <2>3 DEF NameInv
  <2>5. w # -1
    BY <1>0
  <2>6. ~ overlapped => dispatcher # "named"
                        /\ \A v \in WorkerIds : worker[v] = "named" => v = w
    BY <2>1, <2>3, <2>5 DEF NameInv
  <2>7. buffer' \in Nat /\ ring \in [WorkerIds -> Queues \cup {QUEUE_NUM}]
    BY <2>2 DEF NameInv
  <2>8. CASE buffer \in Queues
    <3>1. /\ ring' = [ring EXCEPT ![w] = buffer]
          /\ worker' = [worker EXCEPT ![w] = "poll"] /\ UNCHANGED pc
      BY <2>1, <2>8
    <3>2. Running' /\ ring' \in [WorkerIds -> Queues \cup {QUEUE_NUM}]
      BY <2>1, <2>7, <2>8, <3>1 DEF Running
    <3>3. \A v \in WorkerIds : worker'[v] = "named" => v # w /\ worker[v] = "named"
      BY <3>1 DEF LaunchInv
    <3>4. \A v \in WorkerIds : worker'[v] = "named" => v \in naming'
      BY <2>1, <2>2, <3>3 DEF NameInv
    <3>5. ~ overlapped => \A v \in WorkerIds : ring'[v] \in {v, QUEUE_NUM}
      BY <2>4, <2>7, <3>1 DEF NameInv
    <3>6. dispatcher = "named" => -1 \in naming'
      BY <2>1, <2>2, <2>5 DEF NameInv
    <3> QED
      BY <2>1, <2>2, <2>4, <2>6, <2>7, <3>2, <3>3, <3>4, <3>5, <3>6 DEF NameInv
  <2>9. CASE buffer \notin Queues
    <3>1. pc' = "exited" /\ UNCHANGED <<ring, worker>>
      BY <2>1, <2>9
    <3>2. ~ Running'
      BY <3>1 DEF Running, Ended
    <3> QED
      BY <2>1, <2>2, <2>7, <3>1, <3>2 DEF NameInv
  <2> QED
    BY <2>8, <2>9
<1> QED
  BY <1>2, <1>3, <1>4, <1>5, <1>6, <1>7, <1>8, <1>9, <1>10, <1>11, <1>12, <1>13, Steps
     DEF Dispatches, Searches

-----------------------------------------------------------------------------
(* The counters *)

LEMMA PortsOfWorkers ==
    ASSUME ArgTypes, LaunchInv, NEW w \in WorkerIds
    PROVE  PortOf(w) \in Devices
<1>1. 0 \in Devices
  BY HostAssumption DEF Devices
<1>2. \A v \in WorkerIds : v \in Nat
  BY HostAssumption DEF WorkerIds
<1>3. ASSUME info[w] < Len(port_id)
      PROVE  port_id[info[w] + 1] \in Devices
  <2>1. info[w] \in Nat
    BY <1>2 DEF LaunchInv
  <2>2. port_id \in Seq(Devices)
    BY DEF ArgTypes
  <2>3. info[w] + 1 \in 1 .. Len(port_id)
    BY <1>3, <2>1, <2>2
  <2> QED
    BY <2>2, <2>3
<1> QED
  BY <1>1, <1>3 DEF PortOf

\* Nobody, or only one.
Single(S) == \A u, v \in S : u = v

\* Nothing is counted twice, and what one worker counts is counted.  A worker that
\* has read a counter has its value, unless another worker wrote it.
CountInv ==
    /\ CountTypes
    /\ \A k \in Counters :
          /\ IsFiniteSet(writers[k])
          /\ counter[k] <= real[k]
          /\ Single(writers[k]) => counter[k] = real[k]
    /\ \A w \in WorkerIds : has_read[w] =>
          /\ reg[w] <= real[CounterOf(w)]
          /\ writers[CounterOf(w)] \subseteq {w} => reg[w] = counter[CounterOf(w)]

(* A step that leaves the counters, and who has read which, leaves the rest. *)
LEMMA CountsAreKept ==
    ASSUME CountInv,
           UNCHANGED <<nb_tx, has_read, reg, counter, real, writers>>,
           work' \in 0 .. WorkBound,
           \A w \in WorkerIds : has_read[w] => /\ worker'[w] = worker[w]
                                               /\ info'[w] = info[w] /\ port_id' = port_id
    PROVE  CountInv'
<1>1. \A w \in WorkerIds : has_read[w] => CounterOf(w)' = CounterOf(w)
  BY DEF CounterOf, PortOf
<1>2. CountTypes'
  BY DEF CountInv, CountTypes
<1>3. ASSUME NEW w \in WorkerIds, has_read'[w]
      PROVE  /\ reg'[w] <= real'[CounterOf(w)']
             /\ writers'[CounterOf(w)'] \subseteq {w} => reg'[w] = counter'[CounterOf(w)']
  BY <1>1, <1>3 DEF CountInv
<1>4. ASSUME NEW k \in Counters
      PROVE  /\ IsFiniteSet(writers'[k])
             /\ counter'[k] <= real'[k]
             /\ Single(writers'[k]) => counter'[k] = real'[k]
  BY DEF CountInv
<1> QED
  BY <1>2, <1>3, <1>4 DEF CountInv

\* What a worker has to add to a counter.
LEMMA Amounts ==
    ASSUME CountTypes, NEW w \in WorkerIds, has_read[w]
    PROVE  Real(w) \in Nat /\ Raised(w) = Real(w)
<1>1. worker[w] \in {"rx", "tx", "tx_drop"}
  BY DEF CountTypes, PortCounters
<1>2. nb_tx[w] \in 0 .. MAX_PKT_BUFFER /\ MAX_PKT_BUFFER \in Nat
  BY Sizes DEF CountTypes
<1>3. MAX_PKT_BUFFER - nb_tx[w] \in Nat /\ nb_tx[w] \in Nat
  BY <1>2
<1> QED
  BY <1>1, <1>2, <1>3 DEF Real, Raised

(* The new value of a counter, and of what was to be counted.                *)
LEMMA Written ==
    ASSUME CountInv, ArgTypes, LaunchInv, NEW w \in WorkerIds, WriteCounter(w)
    PROVE  /\ CounterOf(w) \in Counters
           /\ counter' = [counter EXCEPT ![CounterOf(w)] = reg[w] + Real(w)]
           /\ real' = [real EXCEPT ![CounterOf(w)] = real[CounterOf(w)] + Real(w)]
           /\ writers' = [writers EXCEPT ![CounterOf(w)] = writers[CounterOf(w)] \cup {w}]
           /\ reg[w] \in Nat /\ Real(w) \in Nat
           /\ counter[CounterOf(w)] \in Nat /\ real[CounterOf(w)] \in Nat
           /\ reg[w] <= real[CounterOf(w)]
           /\ Single(writers[CounterOf(w)] \cup {w}) =>
                 /\ reg[w] = counter[CounterOf(w)]
                 /\ counter[CounterOf(w)] = real[CounterOf(w)]
<1>1. /\ has_read[w]
      /\ counter' = [counter EXCEPT ![CounterOf(w)] = reg[w] + Raised(w)]
      /\ real' = [real EXCEPT ![CounterOf(w)] = real[CounterOf(w)] + Real(w)]
      /\ writers' = [writers EXCEPT ![CounterOf(w)] = writers[CounterOf(w)] \cup {w}]
  BY DEF WriteCounter
<1>2. CountTypes
  BY DEF CountInv
<1>3. worker[w] \in PortCounters /\ PortOf(w) \in Devices
  BY <1>1, <1>2, PortsOfWorkers DEF CountTypes
<1>4. CounterOf(w) \in Counters
  BY <1>3 DEF CounterOf, Counters
<1>5. Real(w) \in Nat /\ Raised(w) = Real(w)
  BY <1>1, <1>2, Amounts
<1> DEFINE k == CounterOf(w)
<1>6. /\ reg[w] \in Nat /\ counter[k] \in Nat /\ real[k] \in Nat
  BY <1>2, <1>4 DEF CountTypes
<1>7. /\ reg[w] <= real[k]
      /\ writers[k] \subseteq {w} => reg[w] = counter[k]
      /\ Single(writers[k]) => counter[k] = real[k]
  BY <1>1, <1>4 DEF CountInv
<1>8. Single(writers[k] \cup {w}) => writers[k] \subseteq {w} /\ Single(writers[k])
  BY DEF Single
<1> QED
  BY <1>1, <1>4, <1>5, <1>6, <1>7, <1>8

LEMMA WriteKeepsCounts ==
    ASSUME CountInv, ArgTypes, LaunchInv, NEW w \in WorkerIds, WriteCounter(w)
    PROVE  CountInv'
<1> DEFINE k == CounterOf(w)
           n == Real(w)
<1>1. /\ k \in Counters
      /\ counter' = [counter EXCEPT ![k] = reg[w] + n]
      /\ real' = [real EXCEPT ![k] = real[k] + n]
      /\ writers' = [writers EXCEPT ![k] = writers[k] \cup {w}]
      /\ reg[w] \in Nat /\ n \in Nat /\ counter[k] \in Nat /\ real[k] \in Nat
      /\ reg[w] <= real[k]
      /\ Single(writers[k] \cup {w}) => reg[w] = counter[k] /\ counter[k] = real[k]
  BY Written
<1>2. /\ has_read[w]
      /\ worker' = [worker EXCEPT ![w] = NextCounter(w)]
      /\ has_read' = [has_read EXCEPT ![w] = FALSE]
      /\ reg' = [reg EXCEPT ![w] = 0]
      /\ nb_tx' = IF worker[w] = "tx" THEN [nb_tx EXCEPT ![w] = 0] ELSE nb_tx
      /\ UNCHANGED <<port_id, info, work>>
  BY DEF WriteCounter, argVars, launchVars
<1>3. \A v \in WorkerIds \ {w} : CounterOf(v)' = CounterOf(v) /\ worker'[v] = worker[v]
  BY <1>2 DEF CounterOf, PortOf, LaunchInv
<1> HIDE DEF k, n
<1>4. CountTypes
  BY DEF CountInv
<1>5. /\ counter' \in [Counters -> Nat] /\ real' \in [Counters -> Nat]
      /\ writers' \in [Counters -> SUBSET WorkerIds]
  BY <1>1, <1>4 DEF CountTypes
<1>6. CountTypes'
  <2>1. 0 \in 0 .. MAX_PKT_BUFFER
    BY Sizes
  <2>2. nb_tx' \in [WorkerIds -> 0 .. MAX_PKT_BUFFER]
    BY <1>2, <1>4, <2>1 DEF CountTypes
  <2>3. has_read' \in [WorkerIds -> BOOLEAN] /\ reg' \in [WorkerIds -> Nat]
    BY <1>2, <1>4 DEF CountTypes
  <2>4. \A v \in WorkerIds : has_read'[v] => v # w /\ has_read[v]
    BY <1>2, <1>4 DEF CountTypes
  <2>5. \A v \in WorkerIds : has_read'[v] => worker'[v] \in PortCounters
    BY <1>3, <1>4, <2>4 DEF CountTypes
  <2> QED
    BY <1>2, <1>4, <1>5, <2>2, <2>3, <2>5 DEF CountTypes
<1>7. ASSUME NEW j \in Counters
      PROVE  /\ IsFiniteSet(writers'[j])
             /\ counter'[j] <= real'[j]
             /\ Single(writers'[j]) => counter'[j] = real'[j]
  <2>1. CASE j # k
    <3>1. counter'[j] = counter[j] /\ real'[j] = real[j] /\ writers'[j] = writers[j]
      BY <1>1, <1>4, <2>1 DEF CountTypes
    <3> QED
      BY <3>1 DEF CountInv
  <2>2. CASE j = k
    <3>1. /\ counter'[j] = reg[w] + n /\ real'[j] = real[k] + n
          /\ writers'[j] = writers[k] \cup {w}
      BY <1>1, <1>4, <2>2 DEF CountTypes
    <3>2. IsFiniteSet(writers[k] \cup {w})
      BY <1>1, FS_AddElement DEF CountInv
    <3>3. reg[w] + n <= real[k] + n
      BY <1>1
    <3> QED
      BY <1>1, <3>1, <3>2, <3>3
  <2> QED
    BY <2>1, <2>2
<1>8. ASSUME NEW v \in WorkerIds, has_read'[v]
      PROVE  /\ reg'[v] <= real'[CounterOf(v)']
             /\ writers'[CounterOf(v)'] \subseteq {v} => reg'[v] = counter'[CounterOf(v)']
  <2>1. v # w /\ has_read[v] /\ reg'[v] = reg[v]
    BY <1>2, <1>4, <1>8 DEF CountTypes
  <2>2. CounterOf(v)' = CounterOf(v) /\ CounterOf(v) \in Counters
    <3>1. worker[v] \in PortCounters /\ PortOf(v) \in Devices
      BY <1>4, <2>1, PortsOfWorkers DEF CountTypes
    <3> QED
      BY <1>3, <2>1, <3>1 DEF CounterOf, Counters
  <2> DEFINE j == CounterOf(v)
  <2>3. /\ reg[v] <= real[j]
        /\ writers[j] \subseteq {v} => reg[v] = counter[j]
    BY <2>1 DEF CountInv
  <2>4. reg[v] \in Nat /\ real[j] \in Nat
    BY <1>4, <2>2 DEF CountTypes
  <2> HIDE DEF j
  <2>5. CASE j # k
    <3>1. counter'[j] = counter[j] /\ real'[j] = real[j] /\ writers'[j] = writers[j]
      BY <1>1, <1>4, <2>5 DEF CountTypes
    <3> QED
      BY <2>1, <2>2, <2>3, <3>1 DEF j
  <2>6. CASE j = k
    <3>1. real'[j] = real[j] + n /\ w \in writers'[j]
      BY <1>1, <1>4, <2>6 DEF CountTypes
    <3>2. reg[v] <= real[j] + n
      BY <1>1, <2>3, <2>4
    <3> QED
      BY <2>1, <2>2, <3>1, <3>2 DEF j
  <2> QED
    BY <2>5, <2>6
<1> QED
  BY <1>6, <1>7, <1>8 DEF CountInv

LEMMA CountStep ==
    ASSUME CountInv, ArgTypes, LaunchInv, [Next]_vars
    PROVE  CountInv'
<1>0. CountTypes
  BY DEF CountInv
<1>1. CASE /\ UNCHANGED <<nb_tx, has_read, reg, counter, real, writers>>
           /\ work' \in 0 .. WorkBound
           /\ UNCHANGED <<worker, info, port_id>>
  BY <1>1, CountsAreKept
<1>2. CASE Options
  <2>1. pc = "args" /\ UNCHANGED countVars
    BY <1>2, OptionsFrame
  <2>2. launched = 0
    <3>1. cur_lcore = 0
      BY <2>1 DEF LaunchInv
    <3>2. launched \in Nat
      BY DEF LaunchInv
    <3> QED
      BY <3>1, <3>2 DEF LaunchInv
  <2>3. \A w \in WorkerIds : worker[w] = "off"
    <3>1. \A w \in WorkerIds : w \in Nat
      BY HostAssumption DEF WorkerIds
    <3>2. \A w \in WorkerIds : ~ (w < launched)
      BY <2>2, <3>1
    <3> QED
      BY <3>2 DEF LaunchInv
  <2>4. \A w \in WorkerIds : ~ has_read[w]
    BY <1>0, <2>3 DEF CountTypes, PortCounters
  <2>5. /\ UNCHANGED <<nb_tx, has_read, reg, counter, real, writers>>
        /\ work' \in 0 .. WorkBound
    BY <1>0, <2>1 DEF countVars, CountTypes
  <2> QED
    BY <2>4, <2>5, CountsAreKept
<1>3. CASE Initialises \/ Displays \/ Signal \/ UNCHANGED vars
  <2>1. UNCHANGED <<countVars, worker, info, port_id>>
    BY <1>3, InitialisesFrame, DisplaysFrame, SignalFrame DEF vars, argVars, launchVars
  <2> QED
    BY <1>0, <1>1, <2>1 DEF countVars, CountTypes
<1>4. CASE LaunchDispatcher \/ LaunchesDone
  <2>1. UNCHANGED <<countVars, argVars>> /\ UNCHANGED <<worker, info>>
    BY <1>4, LaunchesFrame
       DEF Launches, LaunchDispatcher, LaunchesDone, GoTo, launchVars
  <2> QED
    BY <1>0, <1>1, <2>1 DEF countVars, argVars, CountTypes
<1>5. CASE LaunchWorker
  <2>1. UNCHANGED <<countVars, argVars>>
    BY <1>5, LaunchesFrame DEF Launches
  <2>2. /\ worker[launched] = "off"
        /\ info' = [info EXCEPT ![launched] = launched]
        /\ worker' = [worker EXCEPT ![launched] = "start"]
    BY <1>5, WorkerIsLaunched
  <2>3. \A w \in WorkerIds : has_read[w] => w # launched
    BY <1>0, <2>2 DEF CountTypes, PortCounters
  <2>4. \A w \in WorkerIds : has_read[w] => worker'[w] = worker[w] /\ info'[w] = info[w]
    BY <2>2, <2>3 DEF LaunchInv
  <2>5. /\ UNCHANGED <<nb_tx, has_read, reg, counter, real, writers>>
        /\ work' \in 0 .. WorkBound /\ port_id' = port_id
    BY <1>0, <2>1 DEF countVars, argVars, CountTypes
  <2> QED
    BY <2>4, <2>5, CountsAreKept
<1>6. CASE Dispatches
  <2>1. /\ UNCHANGED <<argVars, launchVars, worker>>
        /\ UNCHANGED <<nb_tx, has_read, reg, counter, real, writers>>
    BY <1>6, DispatchesFrame
  <2>2. work' \in 0 .. WorkBound
    <3>1. work \in 0 .. WorkBound /\ WorkBound \in Nat
      BY <1>0, Sizes DEF CountTypes
    <3>2. \/ work' = work
          \/ work < WorkBound /\ work' = work + 1
      BY <1>6 DEF Dispatches, DispatcherNames, DispatcherLooksUp, DispatcherStops, countVars
    <3> QED
      BY <3>1, <3>2
  <2> QED
    BY <1>1, <2>1, <2>2 DEF argVars, launchVars
<1>7. ASSUME NEW w \in WorkerIds, Searches(w)
      PROVE  CountInv'
  <2>1. /\ worker[w] \in {"start", "named"}
        /\ UNCHANGED <<argVars, launchVars, countVars>>
    BY <1>7, SearchesFrame
  <2>2. Moves(w)
    BY <1>7, SearchMoves
  <2>3. \A v \in WorkerIds : has_read[v] => v # w
    BY <1>0, <2>1 DEF CountTypes, PortCounters
  <2>4. \A v \in WorkerIds : has_read[v] => worker'[v] = worker[v]
    BY <2>2, <2>3 DEF Moves, LaunchInv
  <2>5. /\ UNCHANGED <<nb_tx, has_read, reg, counter, real, writers>>
        /\ work' \in 0 .. WorkBound /\ port_id' = port_id /\ info' = info
    BY <1>0, <2>1 DEF countVars, argVars, launchVars, CountTypes
  <2> QED
    BY <2>4, <2>5, CountsAreKept
<1>8. ASSUME NEW w \in WorkerIds, WorkerServes(w) \/ WorkerStops(w)
      PROVE  CountInv'
  <2>1. /\ worker[w] = "poll"
        /\ UNCHANGED <<argVars, launchVars, has_read, reg, counter, real, writers>>
    BY <1>8 DEF WorkerServes, WorkerStops, countVars
  <2>2. Moves(w)
    BY <1>0, <1>8, WorkMoves DEF Works
  <2>3. \A v \in WorkerIds : has_read[v] => v # w
    BY <1>0, <2>1 DEF CountTypes, PortCounters
  <2>4. \A v \in WorkerIds : has_read[v] => worker'[v] = worker[v]
    BY <2>2, <2>3 DEF Moves, LaunchInv
  <2>5. work' \in 0 .. WorkBound /\ nb_tx' \in [WorkerIds -> 0 .. MAX_PKT_BUFFER]
    <3>1. /\ work \in 0 .. WorkBound /\ WorkBound \in Nat
          /\ nb_tx \in [WorkerIds -> 0 .. MAX_PKT_BUFFER]
      BY <1>0, Sizes DEF CountTypes
    <3>2. \/ UNCHANGED <<work, nb_tx>>
          \/ /\ work < WorkBound /\ work' = work + 1
             /\ \E n \in 0 .. MAX_PKT_BUFFER : nb_tx' = [nb_tx EXCEPT ![w] = n]
      BY <1>8 DEF WorkerServes, WorkerStops, countVars
    <3>3. CASE UNCHANGED <<work, nb_tx>>
      BY <3>1, <3>3
    <3>4. CASE /\ work < WorkBound /\ work' = work + 1
               /\ \E n \in 0 .. MAX_PKT_BUFFER : nb_tx' = [nb_tx EXCEPT ![w] = n]
      <4>1. work' \in 0 .. WorkBound
        BY <3>1, <3>4
      <4>2. nb_tx' \in [WorkerIds -> 0 .. MAX_PKT_BUFFER]
        BY <3>1, <3>4
      <4> QED
        BY <4>1, <4>2
    <3> QED
      BY <3>2, <3>3, <3>4
  <2>6. port_id' = port_id /\ info' = info
    BY <2>1 DEF argVars, launchVars
  <2>7. CountTypes'
    BY <1>0, <2>1, <2>4, <2>5 DEF CountTypes
  <2>8. \A v \in WorkerIds : has_read[v] => CounterOf(v)' = CounterOf(v)
    BY <2>4, <2>6 DEF CounterOf, PortOf
  <2>9. \A v \in WorkerIds : has_read'[v] =>
           /\ reg'[v] <= real'[CounterOf(v)']
           /\ writers'[CounterOf(v)'] \subseteq {v} => reg'[v] = counter'[CounterOf(v)']
    BY <2>1, <2>8 DEF CountInv
  <2>10. \A k \in Counters :
           /\ IsFiniteSet(writers'[k])
           /\ counter'[k] <= real'[k]
           /\ Single(writers'[k]) => counter'[k] = real'[k]
    BY <2>1 DEF CountInv
  <2> QED
    BY <2>7, <2>9, <2>10 DEF CountInv
<1>9. ASSUME NEW w \in WorkerIds, ReadCounter(w)
      PROVE  CountInv'
  <2> DEFINE k == CounterOf(w)
  <2>1. /\ worker[w] \in PortCounters /\ ~ has_read[w]
        /\ reg' = [reg EXCEPT ![w] = counter[k]]
        /\ has_read' = [has_read EXCEPT ![w] = TRUE]
        /\ UNCHANGED <<argVars, launchVars, worker, nb_tx, work, counter, real, writers>>
    BY <1>9 DEF ReadCounter
  <2>2. \A v \in WorkerIds : CounterOf(v)' = CounterOf(v)
    BY <2>1 DEF CounterOf, PortOf, argVars, launchVars
  <2>3. k \in Counters
    BY <2>1, PortsOfWorkers DEF CounterOf, Counters
  <2>4. counter[k] \in Nat /\ counter[k] <= real[k]
    BY <1>0, <2>3 DEF CountInv, CountTypes
  <2> HIDE DEF k
  <2>5. CountTypes'
    <3>1. reg' \in [WorkerIds -> Nat] /\ has_read' \in [WorkerIds -> BOOLEAN]
      BY <1>0, <2>1, <2>4 DEF CountTypes
    <3>2. \A v \in WorkerIds : has_read'[v] => worker'[v] \in PortCounters
      BY <1>0, <2>1 DEF CountTypes
    <3> QED
      BY <1>0, <2>1, <3>1, <3>2 DEF CountTypes
  <2>6. ASSUME NEW v \in WorkerIds, has_read'[v]
        PROVE  /\ reg'[v] <= real'[CounterOf(v)']
               /\ writers'[CounterOf(v)'] \subseteq {v} => reg'[v] = counter'[CounterOf(v)']
    <3>1. CASE v = w
      <4>1. reg'[v] = counter[k] /\ CounterOf(v)' = k
        BY <1>0, <2>1, <2>2, <3>1 DEF CountTypes, k
      <4> QED
        BY <2>1, <2>4, <4>1
    <3>2. CASE v # w
      <4>1. has_read[v] /\ reg'[v] = reg[v] /\ CounterOf(v)' = CounterOf(v)
        BY <1>0, <2>1, <2>2, <2>6, <3>2 DEF CountTypes
      <4> QED
        BY <2>1, <4>1 DEF CountInv
    <3> QED
      BY <3>1, <3>2
  <2>7. \A j \in Counters :
           /\ IsFiniteSet(writers'[j])
           /\ counter'[j] <= real'[j]
           /\ Single(writers'[j]) => counter'[j] = real'[j]
    BY <2>1 DEF CountInv
  <2> QED
    BY <2>5, <2>6, <2>7 DEF CountInv
<1>10. ASSUME NEW w \in WorkerIds, WriteCounter(w)
       PROVE  CountInv'
  BY <1>10, WriteKeepsCounts
<1> QED
  BY <1>2, <1>3, <1>4, <1>5, <1>6, <1>7, <1>8, <1>9, <1>10, Steps DEF Launches, Works

-----------------------------------------------------------------------------
(* The display *)

\* The counter of a cell.
Shown(c) == <<c[1], port_id[c[2] + 1]>>

LEMMA RowsAreCells ==
    ASSUME NEW s \in Seq(Devices), Len(s) <= Room(OptBound)
    PROVE  \A c \in PortCounters \X (0 .. Len(s) - 1) :
              c \in Cells /\ <<c[1], s[c[2] + 1]>> \in Counters
<1>1. Len(s) \in Nat /\ Room(OptBound) \in Nat
  BY Sizes, RoomGrows
<1>2. 0 .. Len(s) - 1 \subseteq 0 .. Room(OptBound) - 1
  BY <1>1
<1>3. Cells = PortCounters \X (0 .. Room(OptBound) - 1)
  BY DEF Cells, Room
<1>4. ASSUME NEW c \in PortCounters \X (0 .. Len(s) - 1)
      PROVE  <<c[1], s[c[2] + 1]>> \in Counters
  <2>1. c[1] \in PortCounters /\ c[2] \in 0 .. Len(s) - 1
    OBVIOUS
  <2>2. c[2] + 1 \in 1 .. Len(s)
    BY <1>1, <2>1
  <2>3. s[c[2] + 1] \in Devices
    BY <2>2
  <2> QED
    BY <2>1, <2>3 DEF Counters
<1> QED
  BY <1>2, <1>3, <1>4

LEMMA ShownCounters ==
    ASSUME ArgInv
    PROVE  ShownCells \subseteq Cells /\ \A c \in ShownCells : Shown(c) \in Counters
<1>1. port_id \in Seq(Devices) /\ Len(port_id) <= Room(OptBound)
  BY DEF ArgInv, ArgTypes
<1> QED
  BY <1>1, RowsAreCells DEF ShownCells, Shown

\* Nothing is displayed before the master's loop.
Early == {"args", "launch"} \cup Initialising

\* What was displayed of a counter with one writer, it has reached.
ShowInv ==
    /\ last \in [Cells -> Nat]
    /\ pc \in Early => wrapped = {} /\ \A c \in Cells : last[c] = 0
    /\ wrapped \subseteq ShownCells
    /\ \A c \in wrapped : ~ Single(writers[Shown(c)])
    /\ \A c \in ShownCells : Single(writers[Shown(c)]) => last[c] <= counter[Shown(c)]

(* A counter only grows, unless several workers write it.                    *)
LEMMA CountersGrow ==
    ASSUME CountInv, ArgTypes, LaunchInv, NEW w \in WorkerIds, WriteCounter(w),
           NEW j \in Counters, Single(writers'[j])
    PROVE  Single(writers[j]) /\ counter[j] <= counter'[j]
<1> DEFINE k == CounterOf(w)
           n == Real(w)
<1>1. /\ k \in Counters
      /\ counter' = [counter EXCEPT ![k] = reg[w] + n]
      /\ writers' = [writers EXCEPT ![k] = writers[k] \cup {w}]
      /\ n \in Nat /\ counter[k] \in Nat
      /\ Single(writers[k] \cup {w}) => reg[w] = counter[k]
  BY Written
<1> HIDE DEF k, n
<1>2. /\ counter \in [Counters -> Nat] /\ writers \in [Counters -> SUBSET WorkerIds]
  BY DEF CountInv, CountTypes
<1>3. CASE j = k
  <2>1. writers'[j] = writers[k] \cup {w} /\ counter'[j] = reg[w] + n
    BY <1>1, <1>2, <1>3
  <2>2. reg[w] = counter[k] /\ Single(writers[k])
    BY <1>1, <2>1 DEF Single
  <2>3. counter[k] <= counter[k] + n
    BY <1>1
  <2> QED
    BY <1>3, <2>1, <2>2, <2>3
<1>4. CASE j # k
  <2>1. writers'[j] = writers[j] /\ counter'[j] = counter[j] /\ counter[j] \in Nat
    BY <1>1, <1>2, <1>4
  <2> QED
    BY <2>1
<1> QED
  BY <1>3, <1>4

LEMMA ShowStep ==
    ASSUME ShowInv, ArgInv, ArgInv', LaunchInv, CountInv, CountTypes', [Next]_vars
    PROVE  ShowInv'
<1>0. /\ ShownCells \subseteq Cells /\ \A c \in ShownCells : Shown(c) \in Counters
      /\ counter \in [Counters -> Nat]
  BY ShownCounters DEF CountInv, CountTypes
<1>1. ASSUME UNCHANGED showVars, wrapped = {}, \A c \in Cells : last[c] = 0
      PROVE  ShowInv'
  <2>1. ShownCells' \subseteq Cells /\ \A c \in ShownCells' : Shown(c)' \in Counters
    <3>1. port_id' \in Seq(Devices) /\ Len(port_id') <= Room(OptBound)
      BY DEF ArgInv, ArgTypes
    <3> QED
      BY <3>1, RowsAreCells DEF ShownCells, Shown
  <2>2. last' = last /\ wrapped' = {}
    BY <1>1 DEF showVars
  <2>3. \A c \in ShownCells' : counter'[Shown(c)'] \in Nat
    BY <2>1 DEF CountTypes
  <2>4. \A c \in ShownCells' : last'[c] <= counter'[Shown(c)']
    BY <1>1, <2>1, <2>2, <2>3
  <2> QED
    BY <1>1, <2>1, <2>2, <2>4 DEF ShowInv
<1>2. ASSUME UNCHANGED <<last, wrapped, port_id, counter, writers>>,
             pc \in Early \/ pc' \notin Early
      PROVE  ShowInv'
  <2>1. ShownCells' = ShownCells /\ \A c : Shown(c)' = Shown(c)
    BY <1>2 DEF ShownCells, Shown
  <2> QED
    BY <1>2, <2>1 DEF ShowInv
<1>3. CASE Options \/ Initialises \/ Launches
  <2>1. pc \in Early /\ UNCHANGED showVars
    BY <1>3, OptionsFrame, InitialisesFrame, LaunchesFrame DEF Early
  <2> QED
    BY <1>1, <2>1 DEF ShowInv
<1>4. CASE Sleep \/ ShowFault \/ EndLoop
  <2>1. UNCHANGED <<last, wrapped, port_id, counter, writers>> /\ pc' \notin Early
    BY <1>4 DEF Sleep, ShowFault, EndLoop, GoTo, showVars, argVars, countVars,
                Early, Initialising
  <2> QED
    BY <1>2, <2>1
<1>5. CASE Show
  <2>1. /\ wrapped' = wrapped \cup {c \in ShownCells : Displayed(c) < last[c]}
        /\ last' = last /\ pc' = "remember"
        /\ UNCHANGED <<port_id, counter, writers>>
    BY <1>5 DEF Show, argVars, countVars
  <2>2. ShownCells' = ShownCells /\ \A c : Shown(c)' = Shown(c)
    BY <2>1 DEF ShownCells, Shown
  <2>3. \A c \in ShownCells : Displayed(c) = counter[Shown(c)] /\ Displayed(c) \in Nat
    BY <1>0 DEF Displayed, Shown
  <2>4. last' \in [Cells -> Nat] /\ \A c \in ShownCells : last'[c] = last[c]
    BY <2>1 DEF ShowInv
  <2>5. \A c \in ShownCells :
           Displayed(c) < last[c] => ~ Single(writers[Shown(c)])
    <3> TAKE c \in ShownCells
    <3> HAVE Displayed(c) < last[c]
    <3>1. last[c] \in Nat /\ Displayed(c) \in Nat /\ Displayed(c) = counter[Shown(c)]
      BY <1>0, <2>3 DEF ShowInv
    <3>2. ~ (last[c] <= Displayed(c))
      BY <3>1
    <3> QED
      BY <3>1, <3>2 DEF ShowInv
  <2>6. \A c \in wrapped' : c \in ShownCells /\ ~ Single(writers[Shown(c)])
    BY <2>1, <2>5 DEF ShowInv
  <2>7. \A c \in ShownCells : Single(writers[Shown(c)]) => last'[c] <= counter'[Shown(c)]
    BY <2>1, <2>4 DEF ShowInv
  <2>8. pc' \notin Early
    BY <2>1 DEF Early, Initialising
  <2> QED
    BY <2>1, <2>2, <2>4, <2>6, <2>7, <2>8 DEF ShowInv
<1>9. CASE Remember
  <2>1. /\ last' = Remembered /\ wrapped' = wrapped /\ pc' = "loop"
        /\ UNCHANGED <<port_id, counter, writers>>
    BY <1>9 DEF Remember, argVars, countVars
  <2>2. ShownCells' = ShownCells /\ \A c : Shown(c)' = Shown(c)
    BY <2>1 DEF ShownCells, Shown
  <2>3. \A c \in ShownCells : Displayed(c) = counter[Shown(c)] /\ Displayed(c) \in Nat
    BY <1>0 DEF Displayed, Shown
  <2>4. last' \in [Cells -> Nat] /\ \A c \in ShownCells : last'[c] = Displayed(c)
    BY <1>0, <2>1, <2>3 DEF Remembered, ShowInv
  <2>5. \A c \in ShownCells : last'[c] <= counter'[Shown(c)]
    BY <2>1, <2>3, <2>4
  <2>6. pc' \notin Early
    BY <2>1 DEF Early, Initialising
  <2> QED
    BY <2>1, <2>2, <2>4, <2>5, <2>6 DEF ShowInv
<1>6. CASE Signal \/ Dispatches \/ UNCHANGED vars
  <2>1. /\ UNCHANGED <<last, wrapped, port_id, counter, writers>>
        /\ pc' \in {pc, "exited"}
    BY <1>6, SignalFrame, DispatchesFrame DEF showVars, argVars, countVars, vars
  <2>2. "exited" \notin Early
    BY DEF Early, Initialising
  <2> QED
    BY <1>2, <2>1, <2>2
<1>7. ASSUME NEW w \in WorkerIds,
             Searches(w) \/ WorkerServes(w) \/ ReadCounter(w) \/ WorkerStops(w)
      PROVE  ShowInv'
  <2>1. /\ UNCHANGED <<last, wrapped, port_id>>
        /\ pc' \in {pc, "exited", "fault"}
    BY <1>7, SearchesFrame, WorksFrame DEF Works, showVars, argVars
  <2>2. UNCHANGED <<counter, writers>>
    BY <1>7, SearchesFrame DEF countVars, WorkerServes, ReadCounter, WorkerStops
  <2>3. "exited" \notin Early /\ "fault" \notin Early
    BY DEF Early, Initialising
  <2> QED
    BY <1>2, <2>1, <2>2, <2>3
<1>8. ASSUME NEW w \in WorkerIds, WriteCounter(w)
      PROVE  ShowInv'
  <2>1. UNCHANGED <<last, wrapped, port_id, pc>>
    BY <1>8 DEF WriteCounter, showVars, argVars
  <2>2. ShownCells' = ShownCells /\ \A c : Shown(c)' = Shown(c)
    BY <2>1 DEF ShownCells, Shown
  <2>3. ArgTypes
    BY DEF ArgInv
  <2>4. \A j \in Counters : Single(writers'[j]) =>
                               Single(writers[j]) /\ counter[j] <= counter'[j]
    BY <1>8, <2>3, CountersGrow
  <2>5. \A j \in Counters : counter[j] \in Nat /\ counter'[j] \in Nat
    BY DEF CountInv, CountTypes
  <2>6. \A c \in wrapped' : ~ Single(writers'[Shown(c)])
    BY <1>0, <2>1, <2>4 DEF ShowInv
  <2>7. ASSUME NEW c \in ShownCells, Single(writers'[Shown(c)])
        PROVE  last'[c] <= counter'[Shown(c)]
    <3>1. last[c] <= counter[Shown(c)] /\ counter[Shown(c)] <= counter'[Shown(c)]
      BY <1>0, <2>4, <2>7 DEF ShowInv
    <3>2. last[c] \in Nat /\ counter[Shown(c)] \in Nat /\ counter'[Shown(c)] \in Nat
      BY <1>0, <2>5 DEF ShowInv
    <3> QED
      BY <2>1, <3>1, <3>2
  <2> QED
    BY <2>1, <2>2, <2>6, <2>7 DEF ShowInv
<1> QED
  BY <1>3, <1>4, <1>5, <1>6, <1>7, <1>8, <1>9, Steps DEF Displays, Works

-----------------------------------------------------------------------------
(* The faults *)

\* With enough ports a worker has one of the list.
LEMMA OwnPorts ==
    ASSUME ArgTypes, LaunchInv, NEW w \in WorkerIds, worker[w] # "off",
           ~ (WorkerLcores > Len(port_id))
    PROVE  w + 1 \in 1 .. Len(port_id) /\ PortOf(w) = port_id[w + 1]
<1>1. /\ info[w] = w
      /\ w \in Nat /\ launched \in Nat /\ WorkerLcores \in Int
      /\ w < launched /\ launched <= WorkerLcores
  BY LaunchedWorkers
<1>2. Len(port_id) \in Nat
  <2>1. port_id \in Seq(Devices)
    BY DEF ArgTypes
  <2> QED
    BY <2>1
<1>3. w < Len(port_id)
  BY <1>1, <1>2
<1> QED
  BY <1>1, <1>2, <1>3 DEF PortOf

\* What a plain command line makes a worker touch is there.
LEMMA PlainIsInside ==
    ASSUME ArgInv, InitInv, LaunchInv, Running, oddities = {},
           ~ (WorkerLcores > Len(port_id)),
           NEW w \in WorkerIds, worker[w] # "off", NEW t \in Tenants
    PROVE  Inside(w, t)
<1>0. ArgTypes
  BY DEF ArgInv
<1>1. t < tenant_number
  <2>1. tenant_number = MAX_TENANTS
    BY DEF ArgInv
  <2> QED
    BY <2>1, Sizes DEF Tenants
<1>2. PortOf(w) \in ToSet(port_id)
  BY <1>0, OwnPorts DEF ToSet, ArgTypes
<1>3. ToSet(port_id) = started
  <2>1. pc \in {"launch", "loop", "show", "remember"}
    BY <1>0, RunningWorkers DEF ArgTypes
  <2>2. ToSet(port_id) = port_mask \cap Devices
    BY DEF ArgInv
  <2> QED
    BY <2>1, <2>2 DEF InitInv
<1> QED
  BY <1>1, <1>2, <1>3 DEF Inside

LEMMA FaultStep ==
    ASSUME FaultsAreAskedFor, ArgInv, InitInv, LaunchInv, [Next]_vars
    PROVE  FaultsAreAskedFor'
<1>1. CASE pc' # "fault"
  BY <1>1 DEF FaultsAreAskedFor
<1>2. CASE UNCHANGED <<pc, argVars, program, lcores>>
  BY <1>2 DEF FaultsAreAskedFor, WorkerLcores, argVars
<1>3. CASE Options
  <2>1. CASE OptPortmask
    <3>1. pc = "args" /\ pc' \in {"failed", pc}
      BY <2>1 DEF OptPortmask, Option
    <3> QED
      BY <1>1, <3>1
  <2>2. CASE OptTenantNumber
    <3>1. pc = "args" /\ pc' \in {"failed", pc}
      BY <2>2 DEF OptTenantNumber, Option
    <3> QED
      BY <1>1, <3>1
  <2>3. CASE OptTimerPeriod
    <3>1. pc = "args" /\ pc' \in {"failed", pc}
      BY <2>3 DEF OptTimerPeriod, Option
    <3> QED
      BY <1>1, <3>1
  <2>4. CASE OptLong
    BY <2>4 DEF OptLong, FaultsAreAskedFor
  <2>5. CASE EndArgs
    BY <1>1, <2>5 DEF EndArgs
  <2> QED
    BY <1>3, <2>1, <2>2, <2>3, <2>4, <2>5 DEF Options
<1>4. CASE Initialises \/ Launches
  BY <1>1, <1>4, InitialisesFrame, LaunchesFrame DEF Initialising
<1>5. CASE Sleep \/ Show \/ Remember \/ EndLoop
  BY <1>1, <1>5 DEF Sleep, Show, Remember, EndLoop, GoTo
<1>6. CASE ShowFault
  <2>1. (timer_period = 0 /\ Rows > 0) \/ tenant_number > MAX_TENANTS
    BY <1>6 DEF ShowFault
  <2>2. UNCHANGED oddities
    BY <1>6 DEF ShowFault, GoTo, argVars
  <2>3. CASE timer_period = 0
    <3>1. ~ (timer_period > 0)
      BY <2>3
    <3>2. "period 0" \in oddities
      BY <3>1 DEF ArgInv
    <3> QED
      BY <2>2, <3>2 DEF FaultsAreAskedFor
  <2>4. CASE tenant_number > MAX_TENANTS
    <3>1. tenant_number # MAX_TENANTS
      BY <2>4, Sizes
    <3> QED
      BY <2>2, <3>1 DEF ArgInv, FaultsAreAskedFor
  <2> QED
    BY <2>1, <2>3, <2>4
<1>7. CASE Signal \/ UNCHANGED vars
  BY <1>2, <1>7, SignalFrame DEF vars
<1>8. CASE Dispatches \/ \E w \in WorkerIds : Searches(w)
  <2>1. /\ pc' \in {pc, "exited"}
        /\ UNCHANGED <<argVars, program, lcores>>
    BY <1>8, DispatchesFrame, SearchesFrame
  <2> QED
    BY <1>1, <1>2, <2>1
<1>9. ASSUME NEW w \in WorkerIds, Works(w)
      PROVE  FaultsAreAskedFor'
  <2>1. Running /\ UNCHANGED <<argVars, program, lcores>>
    BY <1>9, WorksFrame
  <2>2. CASE pc' = pc
    BY <1>2, <2>1, <2>2
  <2>3. CASE pc' # pc
    <3>1. WorkerServes(w)
      BY <1>9, <2>3 DEF Works, ReadCounter, WriteCounter, WorkerStops
    <3>2. worker[w] # "off" /\ \E t \in Tenants : ~ Inside(w, t)
      BY <2>3, <3>1 DEF WorkerServes
    <3>3. oddities # {} \/ WorkerLcores > Len(port_id)
      BY <2>1, <3>2, PlainIsInside
    <3>4. oddities' = oddities /\ port_id' = port_id /\ WorkerLcores' = WorkerLcores
      BY <2>1 DEF argVars, WorkerLcores
    <3> QED
      BY <3>3, <3>4 DEF FaultsAreAskedFor
  <2> QED
    BY <2>2, <2>3
<1> QED
  BY <1>3, <1>4, <1>5, <1>6, <1>7, <1>8, <1>9, Steps DEF Displays

-----------------------------------------------------------------------------
(* All of it *)

\* What holds of every state that the program reaches.
HostInv ==
    /\ ArgInv /\ InitInv /\ LaunchInv /\ NameInv /\ CountInv /\ ShowInv
    /\ FaultsAreAskedFor
    /\ keep_running \in BOOLEAN

LEMMA HostInit ==
    ASSUME Init
    PROVE  HostInv
<1>1. ArgInv
  <2>1. port_id = << >> /\ Len(port_id) = 0 /\ ToSet(port_id) = {} /\ IsAscending(port_id)
    BY DEF Init, ToSet, IsAscending
  <2>2. Room(OptBound) \in Nat /\ Room(0) \in Nat
    BY Sizes, RoomGrows
  <2>3. TIMER_PERIOD \in 0 .. (U32 \div 2) - 1 /\ TIMER_PERIOD > 0
    BY Sizes
  <2>4. MAX_TENANTS \in 0 .. (U32 \div 2) - 1
    <3>1. /\ U32 \in Nat /\ U32 > 2 * MAX_TENANTS /\ U32 % 2 = 0 /\ MAX_TENANTS \in Nat
      BY HostAssumption
    <3>2. U32 = 2 * (U32 \div 2) /\ U32 \div 2 \in Nat
      BY <3>1
    <3> QED
      BY <3>1, <3>2
  <2>5. ArgTypes
    <3>1. /\ options \in 0 .. OptBound /\ port_mask \subseteq Bits /\ pc \in MainPcs
          /\ tenant_number = MAX_TENANTS /\ timer_period = TIMER_PERIOD /\ oddities = {}
      BY Sizes DEF Init, MainPcs
    <3>2. port_id \in Seq(Devices)
      BY <2>1
    <3> QED
      BY <2>3, <2>4, <3>1, <3>2 DEF ArgTypes
  <2>6. Len(port_id) <= Room(OptBound) /\ Len(port_id) <= Room(options)
    BY <2>1, <2>2 DEF Init
  <2> QED
    BY <2>1, <2>3, <2>5, <2>6 DEF Init, ArgInv
<1>2. InitInv
  <2>1. /\ started = {} /\ todo = 0 /\ count = 0 /\ print_flag = FALSE /\ pc = "args"
    BY DEF Init
  <2>2. 0 \in 0 .. DevCount /\ 0 \in 0 .. MAX_CHECK_TIME + 1
    BY Sizes
  <2> QED
    BY <2>1, <2>2 DEF InitInv
<1>3. LaunchInv
  <2>1. /\ lcores \in Nat \ {0} /\ program \in Programs
        /\ lcores \in LcoreCounts[program]
    BY HostAssumption DEF Init
  <2>2. info \in [WorkerIds -> WorkerIds]
    <3>1. ASSUME NEW w \in WorkerIds
          PROVE  0 \in WorkerIds
      <4>1. LcoreCounts["hardware"] \subseteq Nat /\ LcoreCounts["software"] \subseteq Nat
        BY HostAssumption DEF Programs
      <4>2. PICK U \in {0 .. n - 2 : n \in LcoreCounts["hardware"]}
                        \cup {0 .. n - 3 : n \in LcoreCounts["software"]} : w \in U
        BY <3>1 DEF WorkerIds
      <4>3. 0 \in U
        <5>1. CASE \E n \in LcoreCounts["hardware"] : U = 0 .. n - 2
          BY <4>1, <4>2, <5>1
        <5>2. CASE \E n \in LcoreCounts["software"] : U = 0 .. n - 3
          BY <4>1, <4>2, <5>2
        <5> QED
          BY <4>2, <5>1, <5>2
      <4> QED
        BY <4>2, <4>3 DEF WorkerIds
    <3>2. info = [w \in WorkerIds |-> 0]
      BY DEF Init
    <3> QED
      BY <3>1, <3>2
  <2>3. cur_lcore = 0 /\ cur_lcore \in Lcores(lcores)
    BY <2>1 DEF Init, Lcores
  <2>4. \A c \in Lcores(lcores) : c = 0 \/ c > cur_lcore
    BY <2>1, <2>3 DEF Lcores
  <2>5. worker \in [WorkerIds -> WorkerPcs] /\ \A w \in WorkerIds : worker[w] = "off"
    BY DEF Init, WorkerPcs
  <2>6. thread = [c \in Lcores(lcores) |->
                    IF c = 0 \/ c > cur_lcore THEN "none"
                    ELSE IF program = "software" /\ c = 1 THEN "dispatcher" ELSE "worker"]
    BY <2>4 DEF Init
  <2>7. pc = "args" /\ launched = 0 /\ dispatcher = "off"
    BY DEF Init
  <2> QED
    BY <2>1, <2>2, <2>3, <2>5, <2>6, <2>7 DEF LaunchInv, Programs
<1>4. NameInv
  <2>1. wid \in Queues /\ QUEUE_NUM \in Nat
    BY HostAssumption DEF Init, Queues
  <2>2. dispatcher = "off" /\ naming = {} /\ overlapped = FALSE /\ misplaced = FALSE
        /\ buffer = 0
    BY DEF Init
  <2>3. /\ \A w \in WorkerIds : worker[w] = "off" /\ ring[w] = QUEUE_NUM
        /\ ring \in [WorkerIds -> Queues \cup {QUEUE_NUM}]
    BY DEF Init
  <2> QED
    BY <2>1, <2>2, <2>3 DEF NameInv
<1>5. CountInv
  <2>1. CountTypes
    BY Sizes DEF Init, CountTypes
  <2>2. \A k \in Counters : writers[k] = {} /\ counter[k] = 0 /\ real[k] = 0
    BY DEF Init
  <2>3. \A w \in WorkerIds : ~ has_read[w]
    BY DEF Init
  <2> QED
    BY <2>1, <2>2, <2>3, FS_EmptySet DEF CountInv
<1>6. ShowInv
  <2>1. ShownCells = {}
    <3>1. port_id = << >>
      BY DEF Init
    <3>2. 0 .. Len(port_id) - 1 = {}
      BY <3>1
    <3> QED
      BY <3>2 DEF ShownCells
  <2>2. last = [c \in Cells |-> 0] /\ wrapped = {}
    BY DEF Init
  <2> QED
    BY <2>1, <2>2 DEF ShowInv
<1>7. FaultsAreAskedFor /\ keep_running \in BOOLEAN
  BY DEF Init, FaultsAreAskedFor
<1> QED
  BY <1>1, <1>2, <1>3, <1>4, <1>5, <1>6, <1>7 DEF HostInv

LEMMA HostStep ==
    ASSUME HostInv, [Next]_vars
    PROVE  HostInv'
<1>1. ArgInv /\ InitInv /\ LaunchInv /\ NameInv /\ CountInv /\ ShowInv /\ FaultsAreAskedFor
  BY DEF HostInv
<1>2. ArgTypes /\ pc \in MainPcs /\ CountTypes
  BY <1>1 DEF ArgInv, ArgTypes, CountInv
<1>3. ArgInv'
  BY <1>1, ArgStep
<1>4. InitInv'
  BY <1>1, InitStep
<1>5. LaunchInv'
  BY <1>1, <1>2, LaunchStep
<1>6. NameInv'
  BY <1>1, <1>2, NameStep
<1>7. CountInv' /\ CountTypes'
  <2>1. CountInv'
    BY <1>1, <1>2, CountStep
  <2> QED
    BY <2>1 DEF CountInv
<1>8. ShowInv'
  BY <1>1, <1>3, <1>7, ShowStep
<1>9. FaultsAreAskedFor'
  BY <1>1, FaultStep
<1>10. keep_running' \in BOOLEAN
  <2>1. CASE Signal
    BY <2>1 DEF Signal
  <2>2. CASE ~ Signal
    <3>1. keep_running' = keep_running
      BY <2>2, Steps, OptionsFrame, InitialisesFrame, LaunchesFrame, DisplaysFrame,
         DispatchesFrame, SearchesFrame, WorksFrame DEF vars
    <3> QED
      BY <3>1 DEF HostInv
  <2> QED
    BY <2>1, <2>2
<1> QED
  BY <1>3, <1>4, <1>5, <1>6, <1>7, <1>8, <1>9, <1>10 DEF HostInv

(* The invariant holds in every reachable state.                             *)
THEOREM HostInvHolds == Spec => []HostInv
<1>1. HostInv /\ [Next]_vars => HostInv'
  BY HostStep
<1> QED
  BY <1>1, HostInit, PTL DEF Spec

-----------------------------------------------------------------------------
(* What the invariant says of the properties *)

LEMMA IntervalSize ==
    ASSUME NEW a \in Nat, NEW b \in Nat, a <= b + 1
    PROVE  IsFiniteSet(a .. b) /\ Cardinality(a .. b) = b + 1 - a
<1>1. Cardinality(a .. b) = IF a > b THEN 0 ELSE b - a + 1
  BY FS_Interval
<1> QED
  BY <1>1, FS_Interval

(* A finite set has at most one element if and only if no two.               *)
LEMMA SingleIsOne ==
    ASSUME NEW S, IsFiniteSet(S)
    PROVE  Cardinality(S) \in Nat /\ (Cardinality(S) <= 1 <=> Single(S))
<1>1. Cardinality(S) \in Nat
  BY FS_CardinalityType
<1>2. CASE S = {}
  BY <1>2, FS_EmptySet DEF Single
<1>3. ASSUME NEW x \in S
      PROVE  Cardinality(S) <= 1 <=> Single(S)
  <2> DEFINE R == S \ {x}
  <2>1. IsFiniteSet(R) /\ Cardinality(R) = Cardinality(S) - 1
    BY FS_RemoveElement
  <2>2. Cardinality(R) \in Nat /\ (Cardinality(R) = 0 <=> R = {})
    BY <2>1, FS_CardinalityType, FS_EmptySet
  <2>3. Single(S) <=> R = {}
    BY DEF Single
  <2> HIDE DEF R
  <2> QED
    BY <1>1, <2>1, <2>2, <2>3
<1> QED
  BY <1>1, <1>2, <1>3

(* An ascending list has no number twice.                                    *)
LEMMA AscendingIsInjective ==
    ASSUME NEW s \in Seq(Devices), IsAscending(s)
    PROVE  /\ \A i, j \in 1 .. Len(s) : s[i] = s[j] => i = j
           /\ Len(s) = Cardinality(ToSet(s))
<1>1. Len(s) \in Nat /\ DOMAIN s = 1 .. Len(s)
  OBVIOUS
<1>2. \A d \in Devices : d \in Int
  BY Sizes DEF Devices
<1>3. ASSUME NEW i \in 1 .. Len(s), NEW j \in 1 .. Len(s), s[i] = s[j]
      PROVE  i = j
  <2>1. s[i] \in Int /\ s[j] \in Int
    BY <1>2
  <2>2. i < j => s[i] < s[j]
    BY <1>1 DEF IsAscending
  <2>3. j < i => s[j] < s[i]
    BY <1>1 DEF IsAscending
  <2>4. ~ (i < j) /\ ~ (j < i)
    BY <1>3, <2>1, <2>2, <2>3
  <2> QED
    BY <1>1, <2>4
<1>4. ToSet(s) = {s[i] : i \in 1 .. Len(s)}
  BY <1>1 DEF ToSet
<1>5. s \in Bijection(1 .. Len(s), ToSet(s))
  <2>1. s \in [1 .. Len(s) -> ToSet(s)]
    BY <1>1, <1>4
  <2>2. \A t \in ToSet(s) : \E i \in 1 .. Len(s) : s[i] = t
    BY <1>4
  <2> QED
    BY <1>1, <1>3, <2>1, <2>2
       DEF Bijection, Injection, Surjection, IsInjective
<1>6. IsFiniteSet(1 .. Len(s)) /\ Cardinality(1 .. Len(s)) = Len(s)
  BY <1>1, IntervalSize
<1>7. Cardinality(ToSet(s)) = Cardinality(1 .. Len(s))
  BY <1>5, <1>6, FS_Bijection DEF ExistsBijection
<1> QED
  BY <1>3, <1>6, <1>7

LEMMA TypesHold ==
    ASSUME HostInv
    PROVE  HostTypeOK
<1>1. ArgTypes /\ InitInv /\ LaunchInv /\ NameInv /\ CountTypes /\ keep_running \in BOOLEAN
  BY DEF HostInv, ArgInv, CountInv
<1>2. wrapped \subseteq Cells /\ last \in [Cells -> Nat]
  BY ShownCounters DEF HostInv, ShowInv
<1>3. launched \in 0 .. lcores
  <2>1. /\ launched \in Nat /\ cur_lcore \in Nat /\ lcores \in Nat
        /\ cur_lcore < lcores
    BY <1>1 DEF LaunchInv, Lcores
  <2>2. launched <= cur_lcore
    BY <1>1, <2>1 DEF LaunchInv
  <2> QED
    BY <2>1, <2>2
<1>4. thread \in [Lcores(lcores) -> {"none", "dispatcher", "worker"}]
  BY <1>1 DEF LaunchInv
<1> QED
  BY <1>1, <1>2, <1>3, <1>4
     DEF HostTypeOK, ArgTypes, InitInv, LaunchInv, NameInv, CountTypes

LEMMA PolledPorts ==
    ASSUME HostInv
    PROVE  PolledPortsAreStarted
<1> SUFFICES ASSUME Launching, oddities \cap {"masks", "malformed mask"} = {}
             PROVE  ToSet(port_id) = started /\ Len(port_id) = Cardinality(started)
  BY DEF PolledPortsAreStarted
<1>1. port_id \in Seq(Devices)
  BY DEF HostInv, ArgInv, ArgTypes
<1>2. ToSet(port_id) = port_mask \cap Devices /\ IsAscending(port_id)
  BY DEF HostInv, ArgInv, MaskOddities
<1>3. started = port_mask \cap Devices
  BY DEF HostInv, InitInv, Launching
<1> QED
  BY <1>1, <1>2, <1>3, AscendingIsInjective

LEMMA LaunchesAreApart ==
    ASSUME HostInv
    PROVE  LaunchesNeverCollide
<1>1. /\ cur_lcore \in Nat /\ lcores \in Nat /\ launched \in Nat /\ cur_lcore < lcores
      /\ Lcores(lcores) = 0 .. lcores - 1
  BY DEF HostInv, LaunchInv, Lcores
<1>2. thread = [c \in Lcores(lcores) |->
                   IF c = 0 \/ c > cur_lcore THEN "none"
                   ELSE IF program = "software" /\ c = 1 THEN "dispatcher" ELSE "worker"]
  BY DEF HostInv, LaunchInv
<1> DEFINE W == {c \in Lcores(lcores) : thread[c] = "worker"}
<1>3. Cardinality(W) = launched
  <2>1. CASE program = "hardware" /\ cur_lcore = launched
    <3>1. W = 1 .. cur_lcore
      <4>1. \A c \in Lcores(lcores) : thread[c] = "worker" <=> ~ (c = 0 \/ c > cur_lcore)
        BY <1>2, <2>1
      <4>2. \A c \in Lcores(lcores) : c \in W <=> c \in 1 .. cur_lcore
        BY <1>1, <4>1
      <4> QED
        BY <1>1, <4>2
    <3>2. Cardinality(1 .. cur_lcore) = cur_lcore + 1 - 1
      BY <1>1, IntervalSize
    <3>3. Cardinality(W) = Cardinality(1 .. cur_lcore)
      BY <3>1
    <3> HIDE DEF W
    <3> QED
      BY <1>1, <2>1, <3>2, <3>3
  <2>2. CASE program = "software" /\ cur_lcore = launched + 1
    <3>1. W = 2 .. cur_lcore
      <4>1. \A c \in Lcores(lcores) :
               thread[c] = "worker" <=> ~ (c = 0 \/ c > cur_lcore) /\ c # 1
        BY <1>2, <2>2
      <4>2. \A c \in Lcores(lcores) : c \in W <=> c \in 2 .. cur_lcore
        BY <1>1, <4>1
      <4> QED
        BY <1>1, <4>2
    <3>2. Cardinality(2 .. cur_lcore) = cur_lcore + 1 - 2
      BY <1>1, <2>2, IntervalSize
    <3>3. Cardinality(W) = Cardinality(2 .. cur_lcore)
      BY <3>1
    <3> HIDE DEF W
    <3> QED
      BY <1>1, <2>2, <3>2, <3>3
  <2>3. CASE cur_lcore = 0 /\ launched = 0
    <3>1. W = {}
      BY <1>1, <1>2, <2>3
    <3> QED
      BY <2>3, <3>1, FS_EmptySet
  <2> QED
    BY <2>1, <2>2, <2>3 DEF HostInv, LaunchInv
<1>4. ASSUME pc \in {"loop", "show", "remember"}, NEW c \in Lcores(lcores) \ {0}
      PROVE  thread[c] # "none"
  <2>1. cur_lcore = lcores - 1
    BY <1>4 DEF HostInv, LaunchInv
  <2>2. ~ (c > cur_lcore)
    BY <1>1, <2>1
  <2> QED
    BY <1>2, <2>2
<1>5. ASSUME pc = "failed", NEW c \in Lcores(lcores)
      PROVE  thread[c] = "none"
  <2>1. cur_lcore = 0
    BY <1>5 DEF HostInv, LaunchInv
  <2>2. c = 0 \/ c > cur_lcore
    BY <1>1, <2>1
  <2> QED
    BY <1>2, <2>2
<1> QED
  BY <1>3, <1>4, <1>5 DEF LaunchesNeverCollide

LEMMA NumbersApart == \A a, b \in Nat : a + 1 = b + 1 => a = b
OBVIOUS

LEMMA PortsAreOwn ==
    ASSUME HostInv
    PROVE  PortsHaveOneWorker
<1> SUFFICES ASSUME NEW v \in WorkerIds, NEW w \in WorkerIds, v # w,
                    Transmitting(v), Transmitting(w), PortOf(v) = PortOf(w),
                    ~ (WorkerLcores > Len(port_id)),
                    oddities \cap {"masks", "malformed mask"} = {}
             PROVE  FALSE
  BY DEF PortsHaveOneWorker
<1>1. ArgTypes /\ LaunchInv
  BY DEF HostInv, ArgInv
<1>2. worker[v] # "off" /\ worker[w] # "off"
  BY DEF Transmitting
<1>3. /\ v + 1 \in 1 .. Len(port_id) /\ PortOf(v) = port_id[v + 1]
      /\ w + 1 \in 1 .. Len(port_id) /\ PortOf(w) = port_id[w + 1]
  BY <1>1, <1>2, OwnPorts
<1>4. IsAscending(port_id) /\ port_id \in Seq(Devices)
  BY DEF HostInv, ArgInv, ArgTypes, MaskOddities
<1>5. v + 1 = w + 1
  BY <1>3, <1>4, AscendingIsInjective
<1>6. v \in Nat /\ w \in Nat
  BY <1>1, <1>2, LaunchedWorkers
<1>7. v = w
  BY <1>5, <1>6, NumbersApart
<1> QED
  BY <1>7

LEMMA Exact ==
    ASSUME HostInv
    PROVE  CountersAreExact /\ RatesAreReal
<1>1. ASSUME NEW k \in Counters
      PROVE  /\ counter[k] <= real[k]
             /\ Cardinality(writers[k]) <= 1 => counter[k] = real[k]
             /\ ~ Single(writers[k]) => Cardinality(writers[k]) > 1
  <2>1. /\ IsFiniteSet(writers[k]) /\ counter[k] <= real[k]
        /\ Single(writers[k]) => counter[k] = real[k]
    BY DEF HostInv, CountInv
  <2>2. Cardinality(writers[k]) \in Nat /\ (Cardinality(writers[k]) <= 1 <=> Single(writers[k]))
    BY <2>1, SingleIsOne
  <2> QED
    BY <2>1, <2>2
<1>2. ASSUME NEW c \in wrapped
      PROVE  Cardinality(Writers(c)) > 1
  <2>1. c \in ShownCells /\ ~ Single(writers[Shown(c)])
    BY DEF HostInv, ShowInv
  <2>2. Shown(c) \in Counters
    BY <2>1, ShownCounters DEF HostInv
  <2>3. Writers(c) = writers[Shown(c)]
    BY DEF Writers, Shown
  <2> QED
    BY <1>1, <2>1, <2>2, <2>3
<1> QED
  BY <1>1, <1>2 DEF CountersAreExact, RatesAreReal

(* Whatever the command line, the ports polled are those started unless -p   *)
(* was given twice or malformed, and each launch finds a lcore that is free  *)
(* (mtnf_args.c, mtnf_port.c, main.c of both frameworks).                    *)
THEOREM StartsAreSound == Spec => []StartupIsSound
<1>1. HostInv => StartupIsSound
  BY TypesHold, PolledPorts, LaunchesAreApart DEF StartupIsSound
<1> QED
  BY <1>1, HostInvHolds, PTL

(* As long as nobody overwrites the name another is about to look up, every  *)
(* ring has the consumer it is meant for; and with enough ports no two       *)
(* workers transmit on one (mtnf_queue.c, mtnf_common.h, main.c).            *)
THEOREM QueuesAreOwn == Spec => []QueuesHaveOneUser
<1>1. HostInv => RingsAreOwn
  BY DEF HostInv, NameInv, RingsAreOwn
<1>2. HostInv => QueuesHaveOneUser
  BY <1>1, PortsAreOwn DEF QueuesHaveOneUser
<1> QED
  BY <1>2, HostInvHolds, PTL

(* Nothing is counted twice, a counter of one worker is exact, and the       *)
(* differences displayed of it are never negative (mtnf_stats.c, main.c).    *)
THEOREM CountsAreReal == Spec => []StatisticsAreReal
<1>1. HostInv => StatisticsAreReal
  BY Exact DEF StatisticsAreReal
<1> QED
  BY <1>1, HostInvHolds, PTL

(* What the program does is undefined only after an odd command line or with *)
(* more workers than ports (mtnf_args.c, mtnf_stats.c, main.c).              *)
THEOREM FaultsNeedAReason == Spec => []FaultsAreAskedFor
<1>1. HostInv => FaultsAreAskedFor
  BY DEF HostInv
<1> QED
  BY <1>1, HostInvHolds, PTL

=============================================================================
