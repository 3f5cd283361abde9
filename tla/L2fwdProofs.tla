------------------------------ MODULE L2fwdProofs ------------------------------
(* Proofs about the container functions for any number of ports and lcores,  *)
(* any options, and any traffic.                                             *)
EXTENDS L2fwd, FiniteSetTheorems, WellFoundedInduction, TLAPS

-----------------------------------------------------------------------------
(* The loops over the ports *)

(* A non-empty set of ports has a least element: a loop visits one that is   *)
(* still to be visited.                                                      *)
LEMMA LeastPort ==
    ASSUME NEW T, T \subseteq Nat, T # {}
    PROVE  Min(T) \in T
<1> DEFINE R == OpToRel(<, Nat)
<1>1. IsWellFoundedOn(R, Nat)
  BY NatLessThanWellFounded
<1> HIDE DEF R
<1>2. PICK x \in T : \A y \in T : ~ (<<y, x>> \in R)
  BY <1>1, WFMin
<1>3. ASSUME NEW y \in T
      PROVE  x =< y
  <2>1. y < x => <<y, x>> \in R
    BY DEF R, OpToRel
  <2> QED
    BY <1>2, <2>1
<1> QED
  BY <1>3 DEF Min

Early == {"args", "pair", "exit"}
Before == {"args", "pair", "assign", "ports", "links", "launch", "exit"}

(* What main and the cores do to each other's state.                         *)
Quiet == UNCHANGED <<mask, l2fwd_dst_ports, odd, last_port, todo, started, rx_port_list>>

LEMMA CoreStep ==
    ASSUME core \in [Lcores -> CorePcs], NEW c \in Enabled, l2fwd_main_loop(c)
    PROVE  /\ Quiet /\ pc = "loop" /\ pc' \in {"loop", "crash"}
           /\ core' \in [Lcores -> CorePcs]
           /\ \A d \in Lcores \ {c} : core'[d] = core[d]
<1>0. c \in Lcores
  BY L2fwdAssumption
<1>1. InLoop /\ \/ Receive(c)
                \/ \E U, P : Forward(c, U, P)
                \/ \E r : Send(c, r) /\ UNCHANGED pc
  BY DEF l2fwd_main_loop, MonitorLoop, IdsLoop, FirewallLoop, AesLoop, MonitorForward,
         IdsForward, FirewallForward, AesForward
<1>2. Quiet /\ pc = "loop"
  BY <1>1 DEF InLoop, confVars, Quiet
<1>3. CASE Receive(c)
  BY <1>0, <1>2, <1>3 DEF Receive, Top, Poll, Store, Proceed, CorePcs
<1>4. ASSUME NEW U, NEW P, Forward(c, U, P)
      PROVE  /\ pc' \in {"loop", "crash"}
             /\ core' \in [Lcores -> CorePcs]
             /\ \A d \in Lcores \ {c} : core'[d] = core[d]
  BY <1>0, <1>2, <1>4 DEF Forward, CorePcs
<1>5. ASSUME NEW r, Send(c, r), UNCHANGED pc
      PROVE  /\ pc' \in {"loop", "crash"}
             /\ core' \in [Lcores -> CorePcs]
             /\ \A d \in Lcores \ {c} : core'[d] = core[d]
  BY <1>0, <1>2, <1>5 DEF Send, Proceed, CorePcs
<1> QED
  BY <1>1, <1>2, <1>3, <1>4, <1>5

LEMMA MainSteps ==
    ASSUME main
    PROVE  \/ \E arg \in MaskArgs : OptPortmask(arg)
           \/ \E n \in 0 .. MAX_RX_QUEUE_PER_LCORE : OptNqueue(n)
           \/ OptOther
           \/ /\ \/ EndArgs \/ PairPort \/ EndPairing \/ AssignPort \/ CreatePool
                 \/ PortFails \/ \E p \in Ports : StartPort(p)
                 \/ EndPorts \/ CheckLinks \/ WaitLcores \/ ClosePort \/ Bye
              /\ UNCHANGED core
           \/ Launch
BY DEF main, MonitorMain, IdsMain, FirewallMain, AesMain, Main, InitPort, AesInitPort, loopVars

-----------------------------------------------------------------------------
(* The pairing *)

\* The ports already paired: all that were visited, but the last if it is odd.
PairedPorts == (mask \ todo) \ (IF odd THEN {last_port} ELSE {})

Couples == \A p \in PairedPorts :
    /\ l2fwd_dst_ports[p] \in PairedPorts
    /\ l2fwd_dst_ports[l2fwd_dst_ports[p]] = p
    /\ l2fwd_dst_ports[p] # p

PairInv ==
    /\ l2fwd_dst_ports \in [Ports -> Ports]
    /\ last_port \in Ports
    /\ odd \in BOOLEAN
    /\ pc \in MainPcs
    /\ pc = "args" => ~ odd
    /\ pc \notin {"args", "exit"} => mask \subseteq Ports
    /\ pc = "pair" => /\ todo \subseteq mask
                      /\ odd => last_port \in mask \ todo
                      /\ Couples
    /\ PairingIsInvolution

LEMMA PairStep ==
    ASSUME PairInv, core \in [Lcores -> CorePcs], [Next]_vars
    PROVE  PairInv'
<1> USE DEF PairInv
<1>1. CASE /\ pc \notin {"args", "pair"} /\ pc' \in MainPcs \ {"args", "pair"}
           /\ pc = "exit" => pc' = "exit"
           /\ UNCHANGED <<mask, l2fwd_dst_ports, last_port, odd>>
  BY <1>1 DEF PairingIsInvolution
<1>2. CASE pc = "args" /\ pc' \in {"args", "exit"} /\ UNCHANGED <<l2fwd_dst_ports, last_port, odd>>
  BY <1>2 DEF PairingIsInvolution, MainPcs
<1>3. CASE UNCHANGED vars
  BY <1>3 DEF vars, confVars, mainVars, PairingIsInvolution, Couples, PairedPorts
<1>4. CASE signal_handler
  BY <1>4 DEF signal_handler, confVars, mainVars, PairingIsInvolution, Couples, PairedPorts
<1>5. ASSUME NEW c \in Enabled, l2fwd_main_loop(c)
      PROVE  PairInv'
  <2>1. Quiet /\ pc = "loop" /\ pc' \in {"loop", "crash"}
    BY <1>5, CoreStep
  <2> QED
    BY <1>1, <2>1 DEF Quiet, MainPcs
<1>6. ASSUME NEW arg \in MaskArgs, OptPortmask(arg)
      PROVE  PairInv'
  BY <1>6, <1>2 DEF OptPortmask, Option
<1>7. ASSUME NEW n \in 0 .. MAX_RX_QUEUE_PER_LCORE, OptNqueue(n)
      PROVE  PairInv'
  BY <1>7, <1>2 DEF OptNqueue, Option
<1>8. CASE OptOther
  BY <1>8, <1>2 DEF OptOther, Option
<1>9. CASE EndArgs
  <2>1. CASE mask \subseteq Ports
    <3>1. /\ pc = "args" /\ pc' = "pair" /\ todo' = mask
          /\ UNCHANGED <<mask, l2fwd_dst_ports, last_port, odd>>
      BY <1>9, <2>1 DEF EndArgs, Enter, confVars
    <3>2. PairedPorts' = {}
      BY <3>1 DEF PairedPorts
    <3> QED
      BY <3>1, <3>2, <2>1 DEF Couples, PairingIsInvolution, MainPcs
  <2>2. CASE ~ (mask \subseteq Ports)
    BY <1>9, <2>2, <1>2 DEF EndArgs, confVars
  <2> QED
    BY <2>1, <2>2
<1>10. CASE PairPort
  <2> DEFINE port == Min(todo)
  <2>1. /\ pc = "pair" /\ pc' = "pair" /\ todo # {} /\ todo \subseteq mask /\ mask \subseteq Ports
        /\ todo' = todo \ {port} /\ mask' = mask /\ odd' = ~ odd
    BY <1>10 DEF PairPort
  <2>2. port \in todo /\ port \in Ports
    <3>1. todo \subseteq Nat
      BY <2>1 DEF Ports
    <3> QED
      BY <2>1, <3>1, LeastPort
  <2>3. CASE odd
    <3>1. /\ l2fwd_dst_ports' = [l2fwd_dst_ports EXCEPT ![port] = last_port,
                                                         ![last_port] = port]
          /\ last_port' = last_port
      BY <1>10, <2>3 DEF PairPort, Paired
    <3>2. last_port \in mask \ todo /\ last_port # port
      BY <2>1, <2>2, <2>3
    <3>3. PairedPorts' = PairedPorts \cup {port, last_port}
      BY <2>1, <2>2, <2>3, <3>1, <3>2 DEF PairedPorts
    <3>4. /\ l2fwd_dst_ports'[port] = last_port /\ l2fwd_dst_ports'[last_port] = port
          /\ \A p \in PairedPorts : l2fwd_dst_ports'[p] = l2fwd_dst_ports[p]
      BY <2>1, <2>2, <2>3, <3>1, <3>2 DEF PairedPorts
    <3>5. Couples'
      BY <2>1, <3>2, <3>3, <3>4 DEF Couples
    <3>6. l2fwd_dst_ports' \in [Ports -> Ports] /\ last_port' \in Ports
      BY <2>2, <3>1
    <3> QED
      BY <2>1, <2>3, <3>5, <3>6 DEF PairingIsInvolution, MainPcs
  <2>4. CASE ~ odd
    <3>1. l2fwd_dst_ports' = l2fwd_dst_ports /\ last_port' = port
      BY <1>10, <2>4 DEF PairPort
    <3>2. PairedPorts' = PairedPorts
      BY <2>1, <2>2, <2>4, <3>1 DEF PairedPorts
    <3>3. Couples' /\ port \in mask' \ todo'
      BY <2>1, <2>2, <3>1, <3>2 DEF Couples
    <3> QED
      BY <2>1, <2>2, <2>4, <3>1, <3>3 DEF PairingIsInvolution, MainPcs
  <2> QED
    BY <2>3, <2>4
<1>11. CASE EndPairing
  <2>1. /\ pc = "pair" /\ pc' = "assign" /\ todo = {} /\ mask \subseteq Ports
        /\ UNCHANGED <<mask, last_port, odd>>
        /\ l2fwd_dst_ports' = IF odd THEN [l2fwd_dst_ports EXCEPT ![last_port] = last_port]
                                     ELSE l2fwd_dst_ports
    BY <1>11 DEF EndPairing, Enter
  <2>2. CASE odd
    <3>1. last_port \in mask /\ PairedPorts = mask \ {last_port}
      BY <2>1, <2>2 DEF PairedPorts
    <3>2. /\ l2fwd_dst_ports'[last_port] = last_port
          /\ \A p \in PairedPorts : l2fwd_dst_ports'[p] = l2fwd_dst_ports[p]
      BY <2>1, <2>2, <3>1
    <3>3. PairingIsInvolution'
      BY <2>1, <3>1, <3>2 DEF PairingIsInvolution, Couples
    <3>4. l2fwd_dst_ports' \in [Ports -> Ports]
      BY <2>1, <2>2
    <3> QED
      BY <2>1, <2>2, <3>3, <3>4 DEF MainPcs
  <2>3. CASE ~ odd
    <3>1. PairedPorts = mask
      BY <2>1, <2>3 DEF PairedPorts
    <3>2. PairingIsInvolution'
      BY <2>1, <2>3, <3>1 DEF PairingIsInvolution, Couples
    <3> QED
      BY <2>1, <2>3, <3>2 DEF MainPcs
  <2> QED
    BY <2>2, <2>3
<1>12. CASE \/ AssignPort \/ CreatePool \/ PortFails \/ \E p \in Ports : StartPort(p)
            \/ EndPorts \/ CheckLinks \/ WaitLcores \/ ClosePort \/ Bye \/ Launch
  BY <1>12, <1>1 DEF AssignPort, CreatePool, PortFails, StartPort, EndPorts, CheckLinks,
     WaitLcores, ClosePort, Bye, Launch, Enter, confVars, MainPcs
<1> QED
  BY <1>3, <1>4, <1>5, <1>6, <1>7, <1>8, <1>9, <1>10, <1>11, <1>12, MainSteps DEF Next

-----------------------------------------------------------------------------
(* The ports and the cores *)

CloseInv ==
    /\ core \in [Lcores -> CorePcs]
    /\ rx_port_list \in [Lcores -> Seq(Ports)]
    /\ pc \in MainPcs
    /\ pc \in Before => \A c \in Lcores : core[c] = "off"
    /\ \A c \in Lcores \ Enabled : core[c] = "off"
    /\ pc \in {"args", "pair"} => \A c \in Lcores : rx_port_list[c] = <<>>
    /\ pc \notin Early => mask \subseteq Ports /\ todo \subseteq mask
    /\ pc \notin {"args", "exit"} => mask \subseteq Ports
    /\ pc \notin Early => \A c \in Lcores : Range(rx_port_list[c]) \subseteq mask
    /\ pc = "ports" => mask \subseteq started \cup todo
    /\ pc \in {"links", "launch", "loop", "crash"} => mask \subseteq started
    /\ pc \in {"close", "end"} => \A c \in Lcores : core[c] \in {"off", "done"}

LEMMA CloseStep ==
    ASSUME CloseInv, [Next]_vars
    PROVE  CloseInv'
<1> USE DEF CloseInv, Before, Early
<1>1. CASE UNCHANGED vars
  BY <1>1 DEF vars, confVars, mainVars, loopVars
<1>2. CASE signal_handler
  BY <1>2 DEF signal_handler, confVars, mainVars, loopVars
<1>3. ASSUME NEW c \in Enabled, l2fwd_main_loop(c)
      PROVE  CloseInv'
  <2>1. /\ Quiet /\ pc = "loop" /\ pc' \in {"loop", "crash"}
        /\ core' \in [Lcores -> CorePcs]
        /\ \A d \in Lcores \ {c} : core'[d] = core[d]
    BY <1>3, CoreStep
  <2> QED
    BY <2>1 DEF Quiet, MainPcs
<1>4. ASSUME NEW arg \in MaskArgs, OptPortmask(arg)
      PROVE  CloseInv'
  BY <1>4 DEF OptPortmask, Option, loopVars, MainPcs
<1>5. ASSUME NEW n \in 0 .. MAX_RX_QUEUE_PER_LCORE, OptNqueue(n)
      PROVE  CloseInv'
  BY <1>5 DEF OptNqueue, Option, loopVars, MainPcs
<1>6. CASE OptOther
  BY <1>6 DEF OptOther, Option, loopVars, MainPcs
<1>7. CASE EndArgs /\ UNCHANGED core
  BY <1>7 DEF EndArgs, Enter, confVars, MainPcs
<1>8. CASE PairPort /\ UNCHANGED core
  BY <1>8 DEF PairPort
<1>9. CASE EndPairing /\ UNCHANGED core
  <2>1. \A c \in Lcores : Range(rx_port_list'[c]) = {}
    BY <1>9 DEF EndPairing, Range
  <2> QED
    BY <1>9, <2>1 DEF EndPairing, Enter, MainPcs
<1>10. CASE AssignPort /\ UNCHANGED core
  <2> DEFINE port == Min(todo)
             room == {c \in rx_lcore_id .. RTE_MAX_LCORE - 1 : HasRoom(c)}
  <2>1. /\ pc = "assign" /\ todo # {} /\ mask \subseteq Ports /\ todo \subseteq mask
        /\ UNCHANGED <<mask, started>>
    BY <1>10 DEF AssignPort
  <2>2. CASE room = {}
    BY <1>10, <2>1, <2>2 DEF AssignPort, MainPcs
  <2>3. CASE room # {}
    <3>1. /\ pc' = pc /\ todo' = todo \ {port}
          /\ rx_port_list' = [rx_port_list EXCEPT ![Min(room)] = Append(@, port)]
      BY <1>10, <2>3 DEF AssignPort
    <3>2. port \in mask
      <4>1. todo \subseteq Nat
        BY <2>1 DEF Ports
      <4> QED
        BY <2>1, <4>1, LeastPort
    <3>3. ASSUME NEW c \in Lcores
          PROVE  rx_port_list'[c] \in Seq(Ports) /\ Range(rx_port_list'[c]) \subseteq mask
      <4>1. rx_port_list[c] \in Seq(Ports) /\ Range(rx_port_list[c]) \subseteq mask
        BY <2>1
      <4>2. CASE rx_port_list'[c] = rx_port_list[c]
        BY <4>1, <4>2
      <4>3. CASE rx_port_list'[c] = Append(rx_port_list[c], port)
        <5>1. port \in Ports
          BY <2>1, <3>2
        <5> HIDE DEF port
        <5> QED
          BY <3>2, <4>1, <4>3, <5>1 DEF Range
      <4> QED
        BY <3>1, <4>2, <4>3
    <3>4. rx_port_list' \in [Lcores -> Seq(Ports)]
      BY <3>1, <3>3
    <3> QED
      BY <1>10, <2>1, <3>1, <3>3, <3>4 DEF MainPcs
  <2> QED
    BY <2>2, <2>3
<1>11. CASE CreatePool /\ UNCHANGED core
  BY <1>11 DEF CreatePool, Enter, confVars, MainPcs
<1>12. CASE PortFails /\ UNCHANGED core
  BY <1>12 DEF PortFails, confVars, MainPcs
<1>13. ASSUME NEW p \in Ports, StartPort(p), UNCHANGED core
       PROVE  CloseInv'
  BY <1>13 DEF StartPort, confVars
<1>14. CASE EndPorts /\ UNCHANGED core
  BY <1>14 DEF EndPorts, confVars, MainPcs
<1>15. CASE CheckLinks /\ UNCHANGED core
  BY <1>15 DEF CheckLinks, confVars, MainPcs
<1>16. CASE WaitLcores /\ UNCHANGED core
  <2>1. \A c \in Lcores : core[c] \in {"off", "done"}
    BY <1>16 DEF WaitLcores, AllReturned
  <2> QED
    BY <1>16, <2>1 DEF WaitLcores, Enter, confVars, MainPcs
<1>17. CASE ClosePort /\ UNCHANGED core
  BY <1>17 DEF ClosePort, confVars
<1>18. CASE Bye /\ UNCHANGED core
  BY <1>18 DEF Bye, confVars, MainPcs
<1>19. CASE Launch
  <2>1. /\ pc = "launch" /\ pc' = "loop"
        /\ UNCHANGED <<todo, mask, rx_port_list, started>>
    BY <1>19 DEF Launch, confVars
  <2>2. core' \in [Lcores -> CorePcs] /\ \A c \in Lcores \ Enabled : core'[c] = "off"
    BY <1>19 DEF Launch, CorePcs
  <2> QED
    BY <2>1, <2>2 DEF MainPcs
<1> QED
  BY <1>1, <1>2, <1>3, <1>4, <1>5, <1>6, <1>7, <1>8, <1>9, <1>10, <1>11, <1>12, <1>13,
     <1>14, <1>15, <1>16, <1>17, <1>18, <1>19, MainSteps DEF Next

LEMMA CloseInvHolds == Spec => []CloseInv
<1>1. Init => CloseInv
  BY DEF Init, CloseInv, Before, Early, CorePcs, MainPcs
<1> QED
  BY <1>1, CloseStep, PTL DEF Spec

(* For any mask of any number of ports: the partner of a port's partner is   *)
(* the port, PairingIsInvolution (container_fn/monitor/main.c:623-645).      *)
THEOREM PairingsAreInvolutions == Spec => []PairingIsInvolution
<1>1. Init => PairInv
  <2>1. 0 \in Ports
    BY L2fwdAssumption DEF Ports
  <2> QED
    BY <2>1 DEF Init, PairInv, PairingIsInvolution, MainPcs
<1>2. CloseInv => core \in [Lcores -> CorePcs]
  BY DEF CloseInv
<1>3. PairInv => PairingIsInvolution
  BY DEF PairInv
<1> QED
  BY <1>1, <1>2, <1>3, PairStep, CloseInvHolds, PTL DEF Spec

(* For any number of ports and cores: main closes no port that a core may    *)
(* still poll, NoPortClosesUnderACore (container_fn/monitor/main.c:797-812). *)
THEOREM PortsCloseAfterTheirCores == Spec => []NoPortClosesUnderACore
<1>1. CloseInv => NoPortClosesUnderACore
  BY DEF CloseInv, NoPortClosesUnderACore, Before, Early, MainPcs
<1> QED
  BY <1>1, CloseInvHolds, PTL

-----------------------------------------------------------------------------
(* Types *)

MainTypes ==
    /\ program \in Programs
    /\ options \in 0 .. OptBound
    /\ given \subseteq Nat
    /\ mask \subseteq Bits
    /\ nqueue \in 1 .. MAX_RX_QUEUE_PER_LCORE - 1
    /\ todo \subseteq mask
    /\ rx_lcore_id \in Lcores \cup {0}
    /\ started \subseteq Ports /\ keyed \subseteq Ports
    /\ count \in 0 .. MAX_CHECK_TIME + 1 /\ print_flag \in BOOLEAN
    /\ force_quit \in BOOLEAN

LoopTypes ==
    /\ core \in [Lcores -> CorePcs]
    /\ qi \in [Lcores -> Nat]
    /\ pkts_burst \in [Lcores -> Seq(Packets)]
    /\ my_cnt \in [Lcores -> 0 .. MAX_PKT_BUFFER]
    /\ k \in [Lcores -> 0 .. MAX_PKT_BUFFER]
    /\ _pass \in [Lcores -> BOOLEAN]
    /\ tx_buffer \in Seq(Packets) /\ Len(tx_buffer) <= MAX_PKT_BUFFER
    /\ addr \in [Packets -> Ports \cup {NB_PORTS}]
    /\ rx \in [Ports -> Nat] /\ tx \in [Ports -> Nat]
    /\ arrived \subseteq Packets
    /\ fate \in [Packets -> Seq(Attempts)]
    /\ reported \subseteq SUBSET Packets

\* A core is where its counters say: it polls a port of its list, stores as
\* long as there is room, and the buffer has all it has stored, whoever stored
\* over it.
CoreIsSound(c) ==
    /\ core[c] = "top" => rx_port_list[c] # << >>
    /\ core[c] \in {"poll", "store", "forward", "send"}
         => qi[c] \in 1 .. Len(rx_port_list[c])
    /\ core[c] = "store" => pkts_burst[c] # << >>
    /\ core[c] = "forward" => k[c] < MAX_PKT_BUFFER
    /\ core[c] \in {"forward", "send"} => my_cnt[c] = MAX_PKT_BUFFER
    /\ core[c] \notin {"forward", "send"} => my_cnt[c] < MAX_PKT_BUFFER
    /\ my_cnt[c] <= Len(tx_buffer)

LoopInv == LoopTypes /\ \A c \in Lcores : CoreIsSound(c)

\* What the loop relies on of main.
Wired ==
    /\ rx_port_list \in [Lcores -> Seq(Ports)]
    /\ l2fwd_dst_ports \in [Ports -> Ports]

(* The port a core polls is one.                                             *)
LEMMA PolledPort ==
    ASSUME LoopInv, Wired, NEW c \in Enabled,
           core[c] \in {"poll", "store", "forward", "send"}
    PROVE  rx_port(c) \in Ports
<1>1. c \in Lcores
  BY L2fwdAssumption
<1>2. qi[c] \in 1 .. Len(rx_port_list[c])
  BY <1>1 DEF LoopInv, CoreIsSound
<1>3. rx_port_list[c] \in Seq(Ports)
  BY <1>1 DEF Wired
<1> QED
  BY <1>2, <1>3 DEF rx_port

\* Where a core is once it has gone on with what is left of a burst.
Proceeded(c, burst) ==
    /\ pkts_burst' \in [Lcores -> Seq(Packets)]
    /\ core' \in [Lcores -> CorePcs] /\ qi' \in [Lcores -> Nat]
    /\ core'[c] \in {"store", "poll", "top"}
    /\ core'[c] = "store" => qi'[c] = qi[c] /\ burst # << >>
    /\ core'[c] = "poll" => qi'[c] = qi[c] + 1 /\ qi[c] < Len(rx_port_list[c])
    /\ pkts_burst'[c] = burst
    /\ \A d \in Lcores \ {c} : /\ core'[d] = core[d] /\ qi'[d] = qi[d]
                               /\ pkts_burst'[d] = pkts_burst[d]

LEMMA ProceedGoesOn ==
    ASSUME LoopTypes, NEW c \in Lcores, NEW burst \in Seq(Packets),
           Proceed(c, burst)
    PROVE  Proceeded(c, burst)
<1>1. /\ pkts_burst' = [pkts_burst EXCEPT ![c] = burst]
      /\ core' = [core EXCEPT ![c] =
                    IF burst # <<>> THEN "store"
                    ELSE IF qi[c] < Len(rx_port_list[c]) THEN "poll" ELSE "top"]
      /\ qi' = [qi EXCEPT ![c] = IF burst = <<>> THEN @ + 1 ELSE @]
  BY DEF Proceed
<1>2. core \in [Lcores -> CorePcs] /\ qi \in [Lcores -> Nat]
      /\ pkts_burst \in [Lcores -> Seq(Packets)]
  BY DEF LoopTypes
<1>3. pkts_burst' \in [Lcores -> Seq(Packets)] /\ pkts_burst'[c] = burst
  BY <1>1, <1>2
<1>4. core' \in [Lcores -> CorePcs] /\ qi' \in [Lcores -> Nat]
  BY <1>1, <1>2 DEF CorePcs
<1>5. /\ core'[c] \in {"store", "poll", "top"}
      /\ core'[c] = "store" => qi'[c] = qi[c] /\ burst # << >>
      /\ core'[c] = "poll" => qi'[c] = qi[c] + 1 /\ qi[c] < Len(rx_port_list[c])
  BY <1>1, <1>2
<1>6. \A d \in Lcores \ {c} : /\ core'[d] = core[d] /\ qi'[d] = qi[d]
                              /\ pkts_burst'[d] = pkts_burst[d]
  BY <1>1, <1>2
<1> QED
  BY <1>3, <1>4, <1>5, <1>6 DEF Proceeded

\* Only the core c moves, and the buffer does not shrink.
OnlyMoves(c) ==
    /\ \A d \in Lcores \ {c} : /\ core'[d] = core[d] /\ qi'[d] = qi[d]
                               /\ pkts_burst'[d] = pkts_burst[d]
                               /\ my_cnt'[d] = my_cnt[d] /\ k'[d] = k[d]
    /\ Len(tx_buffer') >= Len(tx_buffer)

(* The ports a core polls do not change.                                     *)
LEMMA CoreIsSoundAfter ==
    ASSUME LoopInv, NEW c \in Lcores, rx_port_list' = rx_port_list,
           LoopTypes', CoreIsSound(c)', OnlyMoves(c)
    PROVE  LoopInv'
<1> USE DEF OnlyMoves
<1> SUFFICES ASSUME NEW d \in Lcores, d # c
             PROVE  CoreIsSound(d)'
  BY DEF LoopInv
<1>1. CoreIsSound(d) /\ my_cnt[d] \in Nat
  BY DEF LoopInv, LoopTypes
<1>2. Len(tx_buffer) \in Nat /\ Len(tx_buffer') \in Nat
  BY DEF LoopInv, LoopTypes
<1>3. my_cnt'[d] <= Len(tx_buffer')
  BY <1>1, <1>2 DEF CoreIsSound
<1> QED
  BY <1>1, <1>3 DEF CoreIsSound

LEMMA TopKeepsLoop ==
    ASSUME LoopInv, Wired, rx_port_list' = rx_port_list,
           NEW c \in Enabled, Top(c)
    PROVE  LoopInv'
<1>1. c \in Lcores
  BY L2fwdAssumption
<1>2. /\ core[c] = "top"
      /\ core' = [core EXCEPT ![c] = IF force_quit THEN "done" ELSE "poll"]
      /\ qi' = [qi EXCEPT ![c] = 1]
      /\ UNCHANGED <<pkts_burst, my_cnt, k, _pass, tx_buffer, addr, rx, tx,
                     arrived, fate, reported>>
  BY DEF Top
<1>3. LoopTypes'
  BY <1>1, <1>2 DEF LoopInv, LoopTypes, CorePcs
<1>4. /\ core'[c] \in {"done", "poll"} /\ qi'[c] = 1
      /\ \A d \in Lcores \ {c} : core'[d] = core[d] /\ qi'[d] = qi[d]
  BY <1>1, <1>2 DEF LoopInv, LoopTypes
<1>5. 1 \in 1 .. Len(rx_port_list[c])
  <2>1. rx_port_list[c] \in Seq(Ports) /\ rx_port_list[c] # << >>
    BY <1>1, <1>2 DEF LoopInv, CoreIsSound, Wired
  <2> QED
    BY <2>1
<1>6. CoreIsSound(c)'
  BY <1>1, <1>2, <1>4, <1>5 DEF LoopInv, CoreIsSound
<1>7. OnlyMoves(c)
  <2>1. Len(tx_buffer) \in Nat
    BY DEF LoopInv, LoopTypes
  <2> QED
    BY <1>2, <1>4, <2>1 DEF OnlyMoves
<1> QED
  BY <1>1, <1>3, <1>6, <1>7, CoreIsSoundAfter

(* A burst is a sequence of packets that have not come before.               *)
LEMMA BurstIsNew ==
    ASSUME NEW burst \in Bursts
    PROVE  /\ burst \in Seq(Packets) /\ Len(burst) \in Nat
           /\ \A i \in DOMAIN burst : burst[i] \notin arrived
           /\ \A i, j \in DOMAIN burst : burst[i] = burst[j] => i = j
<1>1. PICK n \in 0 .. MAX_PKT_BURST : burst \in Injection(1 .. n, Packets \ arrived)
  BY DEF Bursts
<1>2. burst \in [1 .. n -> Packets \ arrived]
      /\ \A i, j \in 1 .. n : burst[i] = burst[j] => i = j
  BY <1>1 DEF Injection, IsInjective
<1>3. burst \in Seq(Packets) /\ Len(burst) = n /\ n \in Nat
  <2>1. burst \in [1 .. n -> Packets]
    BY <1>2
  <2>2. n \in Nat
    BY L2fwdAssumption
  <2> QED
    BY <2>1, <2>2
<1> QED
  BY <1>2, <1>3

LEMMA PollKeepsLoop ==
    ASSUME LoopInv, Wired, rx_port_list' = rx_port_list,
           NEW c \in Enabled, Poll(c)
    PROVE  LoopInv'
<1>1. c \in Lcores
  BY L2fwdAssumption
<1>2. core[c] = "poll" /\ rx_port(c) \in Ports
  BY PolledPort DEF Poll
<1>3. PICK burst \in Bursts :
        /\ rx' = [rx EXCEPT ![rx_port(c)] = @ + Len(burst)]
        /\ arrived' = arrived \cup Range(burst)
        /\ Proceed(c, burst)
  BY DEF Poll
<1>4. UNCHANGED <<my_cnt, k, _pass, tx_buffer, addr, tx, fate, reported>>
  BY DEF Poll
<1>5. burst \in Seq(Packets) /\ Len(burst) \in Nat
  BY BurstIsNew
<1>6. Proceeded(c, burst)
  BY <1>1, <1>3, <1>5, ProceedGoesOn DEF LoopInv
<1>7. rx' \in [Ports -> Nat] /\ arrived' \subseteq Packets
  <2>1. Range(burst) \subseteq Packets
    BY <1>5 DEF Range
  <2>2. rx' \in [Ports -> Nat]
    BY <1>2, <1>3, <1>5 DEF LoopInv, LoopTypes
  <2> QED
    BY <1>3, <2>1, <2>2 DEF LoopInv, LoopTypes
<1>8. LoopTypes'
  BY <1>4, <1>6, <1>7 DEF LoopInv, LoopTypes, Proceeded
<1>9. CoreIsSound(c)
  BY <1>1 DEF LoopInv
<1>10. qi[c] \in Nat /\ rx_port_list[c] \in Seq(Ports)
  BY <1>1 DEF LoopInv, LoopTypes, Wired
<1>11. rx_port_list[c] # << >> /\ Len(rx_port_list[c]) \in Nat
  BY <1>2, <1>9, <1>10 DEF CoreIsSound
<1>12. CoreIsSound(c)'
  BY <1>2, <1>4, <1>6, <1>9, <1>10, <1>11 DEF Proceeded, CoreIsSound
<1>13. OnlyMoves(c)
  <2>1. Len(tx_buffer) \in Nat
    BY DEF LoopInv, LoopTypes
  <2> QED
    BY <1>4, <1>6, <2>1 DEF OnlyMoves, Proceeded
<1> QED
  BY <1>1, <1>8, <1>12, <1>13, CoreIsSoundAfter

LEMMA ReplacedInSeq ==
    ASSUME NEW S, NEW s \in Seq(S), NEW i \in DOMAIN s, NEW e \in S
    PROVE  /\ [s EXCEPT ![i] = e] \in Seq(S)
           /\ Len([s EXCEPT ![i] = e]) = Len(s)
OBVIOUS

(* A packet goes over what is in its slot, or at the end of the buffer.      *)
LEMMA StoredAtSlot ==
    ASSUME tx_buffer \in Seq(Packets), NEW n \in Nat, n <= Len(tx_buffer),
           NEW m \in Packets
    PROVE  /\ Stored(n + 1, m) \in Seq(Packets)
           /\ Len(Stored(n + 1, m)) = IF n < Len(tx_buffer) THEN Len(tx_buffer)
                                                           ELSE n + 1
<1>1. Len(tx_buffer) \in Nat /\ DOMAIN tx_buffer = 1 .. Len(tx_buffer)
  OBVIOUS
<1> DEFINE to == Stored(n + 1, m)
<1>2. CASE n < Len(tx_buffer)
  <2>1. n + 1 \in DOMAIN tx_buffer
    BY <1>1, <1>2
  <2>2. to = [tx_buffer EXCEPT ![n + 1] = m]
    BY <2>1 DEF Stored
  <2>3. to \in Seq(Packets) /\ Len(to) = Len(tx_buffer)
    BY <2>1, <2>2, ReplacedInSeq
  <2> QED
    BY <1>2, <2>3 DEF to
<1>3. CASE n = Len(tx_buffer)
  <2>1. n + 1 \notin DOMAIN tx_buffer
    BY <1>1, <1>3
  <2>2. to = Append(tx_buffer, m)
    BY <2>1 DEF Stored
  <2> HIDE DEF to
  <2>3. to \in Seq(Packets) /\ Len(to) = n + 1
    BY <1>3, <2>2
  <2> QED
    BY <1>1, <1>3, <2>3 DEF to
<1>4. n < Len(tx_buffer) \/ n = Len(tx_buffer)
  <2>1. \A l \in Nat : n <= l => n < l \/ n = l
    OBVIOUS
  <2> QED
    BY <1>1, <2>1
<1> QED
  BY <1>2, <1>3, <1>4

LEMMA StoreKeepsLoop ==
    ASSUME LoopInv, Wired, rx_port_list' = rx_port_list,
           NEW c \in Enabled, Store(c)
    PROVE  LoopInv'
<1> DEFINE n == my_cnt[c]
           m == Head(pkts_burst[c])
           rest == Tail(pkts_burst[c])
<1>1. c \in Lcores
  BY L2fwdAssumption
<1>2. CoreIsSound(c) /\ LoopTypes /\ core[c] = "store"
  BY <1>1 DEF LoopInv, Store
<1>3. /\ n \in Nat /\ n < MAX_PKT_BUFFER /\ n <= Len(tx_buffer)
      /\ pkts_burst[c] \in Seq(Packets) /\ pkts_burst[c] # << >>
      /\ qi[c] \in 1 .. Len(rx_port_list[c]) /\ qi[c] \in Nat
      /\ rx_port_list[c] \in Seq(Ports)
      /\ MAX_PKT_BUFFER \in Nat
  BY <1>1, <1>2, L2fwdAssumption DEF CoreIsSound, LoopTypes, Wired
<1>4. m \in Packets /\ rest \in Seq(Packets)
  BY <1>3
<1>5. /\ tx_buffer' = Stored(n + 1, m)
      /\ my_cnt' = [my_cnt EXCEPT ![c] = n + 1]
      /\ UNCHANGED <<_pass, addr, rx, tx, arrived, fate, reported>>
  BY DEF Store
<1>6. /\ my_cnt' \in [Lcores -> 0 .. MAX_PKT_BUFFER] /\ my_cnt'[c] = n + 1
      /\ \A d \in Lcores \ {c} : my_cnt'[d] = my_cnt[d]
  <2>1. n + 1 \in 0 .. MAX_PKT_BUFFER
    BY <1>3
  <2> HIDE DEF n
  <2> QED
    BY <1>1, <1>2, <1>5, <2>1 DEF LoopTypes
<1>7. /\ tx_buffer' \in Seq(Packets) /\ Len(tx_buffer') <= MAX_PKT_BUFFER
      /\ Len(tx_buffer') >= Len(tx_buffer) /\ n + 1 <= Len(tx_buffer')
  <2>1. /\ tx_buffer' \in Seq(Packets)
        /\ Len(tx_buffer') = IF n < Len(tx_buffer) THEN Len(tx_buffer) ELSE n + 1
    BY <1>2, <1>3, <1>4, <1>5, StoredAtSlot DEF LoopTypes
  <2>2. Len(tx_buffer) \in Nat /\ Len(tx_buffer) <= MAX_PKT_BUFFER
    BY <1>2 DEF LoopTypes
  <2> QED
    BY <1>3, <2>1, <2>2
<1> HIDE DEF n, m, rest
<1>8. CASE n + 1 = MAX_PKT_BUFFER
  <2>1. /\ core' = [core EXCEPT ![c] = "forward"]
        /\ k' = [k EXCEPT ![c] = 0]
        /\ pkts_burst' = [pkts_burst EXCEPT ![c] = rest]
        /\ qi' = qi
    BY <1>6, <1>8 DEF Store, rest
  <2>2. /\ core' \in [Lcores -> CorePcs] /\ core'[c] = "forward"
        /\ k' \in [Lcores -> 0 .. MAX_PKT_BUFFER] /\ k'[c] = 0
        /\ pkts_burst' \in [Lcores -> Seq(Packets)]
        /\ \A d \in Lcores \ {c} : /\ core'[d] = core[d] /\ k'[d] = k[d]
                                   /\ pkts_burst'[d] = pkts_burst[d]
    <3>1. 0 \in 0 .. MAX_PKT_BUFFER
      BY <1>3
    <3>2. /\ core' \in [Lcores -> CorePcs] /\ core'[c] = "forward"
          /\ \A d \in Lcores \ {c} : core'[d] = core[d]
      BY <1>1, <1>2, <2>1 DEF LoopTypes, CorePcs
    <3>3. /\ k' \in [Lcores -> 0 .. MAX_PKT_BUFFER] /\ k'[c] = 0
          /\ \A d \in Lcores \ {c} : k'[d] = k[d]
      BY <1>1, <1>2, <2>1, <3>1 DEF LoopTypes
    <3>4. /\ pkts_burst' \in [Lcores -> Seq(Packets)]
          /\ \A d \in Lcores \ {c} : pkts_burst'[d] = pkts_burst[d]
      BY <1>1, <1>2, <1>4, <2>1 DEF LoopTypes
    <3> QED
      BY <3>2, <3>3, <3>4
  <2>3. LoopTypes'
    BY <1>2, <1>5, <1>6, <1>7, <2>1, <2>2 DEF LoopTypes
  <2>4. CoreIsSound(c)'
    BY <1>3, <1>6, <1>7, <1>8, <2>1, <2>2 DEF CoreIsSound
  <2>5. OnlyMoves(c)
    BY <1>6, <1>7, <2>1, <2>2 DEF OnlyMoves
  <2> QED
    BY <1>1, <2>3, <2>4, <2>5, CoreIsSoundAfter
<1>9. CASE n + 1 # MAX_PKT_BUFFER
  <2>1. Proceed(c, rest) /\ k' = k
    BY <1>6, <1>9 DEF Store, rest
  <2>2. Proceeded(c, rest)
    BY <1>1, <1>2, <1>4, <2>1, ProceedGoesOn
  <2>3. LoopTypes'
    BY <1>2, <1>5, <1>6, <1>7, <2>1, <2>2 DEF LoopTypes, Proceeded
  <2>4. CoreIsSound(c)'
    <3>1. /\ core'[c] \in {"store", "poll", "top"} /\ pkts_burst'[c] = rest
          /\ core'[c] = "store" => qi'[c] = qi[c] /\ rest # << >>
          /\ core'[c] = "poll"
               => qi'[c] = qi[c] + 1 /\ qi[c] < Len(rx_port_list[c])
      BY <2>2 DEF Proceeded
    <3>2. my_cnt'[c] < MAX_PKT_BUFFER /\ my_cnt'[c] <= Len(tx_buffer')
      BY <1>3, <1>6, <1>7, <1>9
    <3>3. rx_port_list[c] # << >> /\ Len(rx_port_list[c]) \in Nat
      BY <1>3
    <3>4. core'[c] \in {"store", "poll"} => qi'[c] \in 1 .. Len(rx_port_list[c])
      BY <1>3, <3>1, <3>3
    <3> QED
      BY <3>1, <3>2, <3>3, <3>4 DEF CoreIsSound
  <2>5. OnlyMoves(c)
    BY <1>6, <1>7, <2>1, <2>2 DEF OnlyMoves, Proceeded
  <2> QED
    BY <1>1, <2>3, <2>4, <2>5, CoreIsSoundAfter
<1> QED
  BY <1>8, <1>9

LEMMA ForwardKeepsLoop ==
    ASSUME LoopInv, Wired, rx_port_list' = rx_port_list,
           NEW c \in Enabled, NEW U, NEW P, Forward(c, U, P)
    PROVE  LoopInv'
<1> DEFINE n == k[c]
           m == tx_buffer[n + 1]
           to == l2fwd_dst_ports[rx_port(c)]
<1>1. c \in Lcores
  BY L2fwdAssumption
<1>2. CoreIsSound(c) /\ LoopTypes /\ core[c] = "forward"
  BY <1>1 DEF LoopInv, Forward
<1>3. /\ n \in Nat /\ n < MAX_PKT_BUFFER /\ my_cnt[c] = MAX_PKT_BUFFER
      /\ MAX_PKT_BUFFER \in Nat /\ MAX_PKT_BUFFER <= Len(tx_buffer)
      /\ qi[c] \in 1 .. Len(rx_port_list[c])
  BY <1>1, <1>2, L2fwdAssumption DEF CoreIsSound, LoopTypes
<1>4. m \in Packets /\ Len(tx_buffer) \in Nat
  BY <1>2, <1>3 DEF LoopTypes
<1>5. to \in Ports
  <2>1. rx_port(c) \in Ports
    BY <1>2, PolledPort
  <2> QED
    BY <2>1 DEF Wired
<1>6. /\ addr' = [addr EXCEPT ![m] = to]
      /\ k' = [k EXCEPT ![c] = n + 1]
      /\ _pass' = [_pass EXCEPT ![c] = (Kind[m] \in P)]
      /\ core' = [core EXCEPT ![c] = IF k'[c] = MAX_PKT_BUFFER THEN "send" ELSE @]
      /\ UNCHANGED <<qi, pkts_burst, my_cnt, tx_buffer, rx, tx, arrived, fate,
                     reported>>
  BY DEF Forward
<1> HIDE DEF m, n, to
<1>7. /\ k' \in [Lcores -> 0 .. MAX_PKT_BUFFER] /\ k'[c] = n + 1
      /\ \A d \in Lcores \ {c} : k'[d] = k[d]
  <2>1. n + 1 \in 0 .. MAX_PKT_BUFFER
    BY <1>3
  <2> QED
    BY <1>1, <1>2, <1>6, <2>1 DEF LoopTypes
<1>8. addr' \in [Packets -> Ports \cup {NB_PORTS}]
  BY <1>2, <1>4, <1>5, <1>6 DEF LoopTypes
<1>9. _pass' \in [Lcores -> BOOLEAN]
  <2> DEFINE says == Kind[m] \in P
  <2>1. _pass' = [_pass EXCEPT ![c] = says] /\ says \in BOOLEAN
    BY <1>6
  <2> HIDE DEF says
  <2> QED
    BY <1>2, <2>1 DEF LoopTypes
<1>10. /\ core' \in [Lcores -> CorePcs]
       /\ core'[c] = IF n + 1 = MAX_PKT_BUFFER THEN "send" ELSE "forward"
       /\ \A d \in Lcores \ {c} : core'[d] = core[d]
  BY <1>1, <1>2, <1>6, <1>7 DEF LoopTypes, CorePcs
<1>11. LoopTypes'
  BY <1>2, <1>6, <1>7, <1>8, <1>9, <1>10 DEF LoopTypes
<1>12. CoreIsSound(c)'
  BY <1>2, <1>3, <1>6, <1>7, <1>10 DEF CoreIsSound
<1>13. OnlyMoves(c)
  BY <1>4, <1>6, <1>7, <1>10 DEF OnlyMoves
<1> QED
  BY <1>1, <1>11, <1>12, <1>13, CoreIsSoundAfter

LEMMA SendKeepsLoop ==
    ASSUME LoopInv, Wired, rx_port_list' = rx_port_list,
           NEW c \in Enabled, NEW report, Send(c, report)
    PROVE  LoopInv'
<1> DEFINE burst == pkts_burst[c]
<1>1. c \in Lcores
  BY L2fwdAssumption
<1>2. CoreIsSound(c) /\ LoopTypes /\ core[c] = "send"
  BY <1>1 DEF LoopInv, Send
<1>3. rx_port(c) \in Ports
  BY <1>2, PolledPort
<1>4. PICK sent \in 0 .. MAX_PKT_BUFFER :
        /\ fate' = [m \in Packets |->
                      LET at == {i \in 1 .. MAX_PKT_BUFFER : tx_buffer[i] = m}
                      IN  IF at = {} THEN fate[m]
                          ELSE Append(fate[m], [port |-> TxPort(c), addr |-> addr[m],
                                                sent |-> Min(at) <= sent])]
        /\ tx' = [tx EXCEPT ![rx_port(c)] = @ + Counted(sent)]
        /\ my_cnt' = [my_cnt EXCEPT ![c] = Left(sent)]
  BY DEF Send
<1>5. /\ reported' = IF report THEN reported \cup {Range(tx_buffer)} ELSE reported
      /\ Proceed(c, burst)
      /\ UNCHANGED <<k, _pass, tx_buffer, addr, rx, arrived>>
  BY DEF Send
<1>6. fate' \in [Packets -> Seq(Attempts)]
  <2> SUFFICES ASSUME NEW m \in Packets
               PROVE  fate'[m] \in Seq(Attempts)
    BY <1>4
  <2> DEFINE at == {i \in 1 .. MAX_PKT_BUFFER : tx_buffer[i] = m}
             attempt == [port |-> TxPort(c), addr |-> addr[m],
                         sent |-> Min(at) <= sent]
  <2>1. fate[m] \in Seq(Attempts) /\ addr[m] \in Ports \cup {NB_PORTS}
    BY <1>2 DEF LoopTypes
  <2>2. fate'[m] = IF at = {} THEN fate[m] ELSE Append(fate[m], attempt)
    BY <1>4
  <2>3. attempt \in Attempts
    <3>1. (Min(at) <= sent) \in BOOLEAN
      OBVIOUS
    <3> QED
      BY <1>3, <2>1, <3>1 DEF Attempts, TxPort
  <2> HIDE DEF at, attempt
  <2> QED
    BY <2>1, <2>2, <2>3
<1>7. tx' \in [Ports -> Nat]
  <2>1. sent \in Nat
    BY L2fwdAssumption
  <2> QED
    BY <1>2, <1>3, <1>4, <2>1 DEF Counted, LoopTypes
<1>8. /\ my_cnt' \in [Lcores -> 0 .. MAX_PKT_BUFFER] /\ my_cnt'[c] = 0
      /\ \A d \in Lcores \ {c} : my_cnt'[d] = my_cnt[d]
  <2>1. 0 \in 0 .. MAX_PKT_BUFFER
    BY L2fwdAssumption
  <2> QED
    BY <1>1, <1>2, <1>4, <2>1 DEF LoopTypes, Left
<1>9. Proceeded(c, burst)
  <2>1. burst \in Seq(Packets)
    BY <1>1, <1>2 DEF LoopTypes
  <2> QED
    BY <1>1, <1>2, <1>5, <2>1, ProceedGoesOn
<1>10. reported' \subseteq SUBSET Packets
  <2>1. Range(tx_buffer) \subseteq Packets
    BY <1>2 DEF LoopTypes, Range
  <2> QED
    BY <1>2, <1>5, <2>1 DEF LoopTypes
<1>11. LoopTypes'
  BY <1>2, <1>5, <1>6, <1>7, <1>8, <1>9, <1>10 DEF LoopTypes, Proceeded
<1>12. CoreIsSound(c)'
  <2>1. /\ core'[c] \in {"store", "poll", "top"} /\ pkts_burst'[c] = burst
        /\ core'[c] = "store" => qi'[c] = qi[c] /\ burst # << >>
        /\ core'[c] = "poll"
             => qi'[c] = qi[c] + 1 /\ qi[c] < Len(rx_port_list[c])
    BY <1>9 DEF Proceeded
  <2>2. /\ qi[c] \in 1 .. Len(rx_port_list[c]) /\ rx_port_list[c] \in Seq(Ports)
        /\ Len(tx_buffer) \in Nat /\ MAX_PKT_BUFFER \in Nat \ {0}
    BY <1>1, <1>2, L2fwdAssumption DEF CoreIsSound, LoopTypes, Wired
  <2>3. rx_port_list[c] # << >> /\ Len(rx_port_list[c]) \in Nat
    BY <2>2
  <2>4. core'[c] \in {"store", "poll"} => qi'[c] \in 1 .. Len(rx_port_list[c])
    BY <2>1, <2>2, <2>3
  <2> QED
    BY <1>5, <1>8, <2>1, <2>2, <2>3, <2>4 DEF CoreIsSound
<1>13. OnlyMoves(c)
  <2>1. Len(tx_buffer) \in Nat
    BY <1>2 DEF LoopTypes
  <2> QED
    BY <1>5, <1>8, <1>9, <2>1 DEF OnlyMoves, Proceeded
<1> QED
  BY <1>1, <1>11, <1>12, <1>13, CoreIsSoundAfter

(* Every step of a core's loop keeps all cores sound.                        *)
LEMMA LoopStep ==
    ASSUME LoopInv, Wired, NEW c \in Enabled, l2fwd_main_loop(c)
    PROVE  LoopInv' /\ Wired' /\ InLoop
<1>1. InLoop /\ \/ Receive(c)
                \/ \E U, P : Forward(c, U, P)
                \/ \E r : Send(c, r)
  BY DEF l2fwd_main_loop, MonitorLoop, IdsLoop, FirewallLoop, AesLoop, MonitorForward,
         IdsForward, FirewallForward, AesForward
<1>2. rx_port_list' = rx_port_list /\ l2fwd_dst_ports' = l2fwd_dst_ports
  BY <1>1 DEF InLoop, confVars
<1>3. ASSUME Top(c)
      PROVE  LoopInv'
  BY <1>2, <1>3, TopKeepsLoop
<1>4. ASSUME Poll(c)
      PROVE  LoopInv'
  BY <1>2, <1>4, PollKeepsLoop
<1>5. ASSUME Store(c)
      PROVE  LoopInv'
  BY <1>2, <1>5, StoreKeepsLoop
<1>6. ASSUME NEW U, NEW P, Forward(c, U, P)
      PROVE  LoopInv'
  BY <1>2, <1>6, ForwardKeepsLoop
<1>7. ASSUME NEW r, Send(c, r)
      PROVE  LoopInv'
  BY <1>2, <1>7, SendKeepsLoop
<1>8. LoopInv'
  BY <1>1, <1>3, <1>4, <1>5, <1>6, <1>7 DEF Receive
<1> QED
  BY <1>1, <1>2, <1>8 DEF Wired

-----------------------------------------------------------------------------
(* The ports and their places *)

\* The port is in the list of a core the program was given.
HasPlace(p) == \E c \in Enabled : \E i \in DOMAIN rx_port_list[c] :
                  rx_port_list[c][i] = p

\* No two places hold the same port.
PlacesDiffer ==
    \A c, d \in Lcores :
        \A i \in DOMAIN rx_port_list[c], j \in DOMAIN rx_port_list[d] :
            rx_port_list[c][i] = rx_port_list[d][j] => c = d /\ i = j

ListsAreSound ==
    /\ rx_port_list \in [Lcores -> Seq(Ports)]
    /\ \A c \in Lcores : Len(rx_port_list[c]) <= nqueue
    /\ \A c \in Lcores \ Enabled : rx_port_list[c] = << >>
    /\ PlacesDiffer

Configuring == {"args", "pair", "assign"}

\* What each phase of main leaves to the next.
PhaseIsSound ==
    /\ pc \in MainPcs
    /\ pc = "args" => todo = {}
    /\ pc \in {"args", "pair"} => \A c \in Lcores : rx_port_list[c] = << >>
    /\ pc \in Configuring => started = {}
    /\ pc \notin {"args", "exit"} => mask \subseteq Ports
    /\ pc = "assign" => \A p \in mask : HasPlace(p) <=> p \notin todo
    /\ pc \notin Configuring \cup {"exit"} => \A p \in mask : HasPlace(p)

\* The mask of a malformed argument has bits without a port, so no port starts
\* on it.
MaskIsSound ==
    /\ mask \subseteq Ports => mask = given \cap Bits
    /\ started \subseteq mask
    /\ started # {} => mask \subseteq Ports

ServedInv == MainTypes /\ ListsAreSound /\ PhaseIsSound /\ MaskIsSound

(* What main leaves alone: the cores' state, but for the launch.             *)
LEMMA MainKeeps ==
    ASSUME main
    PROVE  /\ program' = program /\ force_quit' = force_quit
           /\ Launch \/ UNCHANGED loopVars
           /\ keyed' = keyed \/ \E p \in Ports : keyed' = {p}
<1>1. CASE \/ \E arg \in MaskArgs : OptPortmask(arg)
           \/ \E n \in 0 .. MAX_RX_QUEUE_PER_LCORE : OptNqueue(n)
           \/ OptOther
  BY <1>1 DEF OptPortmask, OptNqueue, OptOther, Option
<1>2. CASE Launch
  BY <1>2 DEF Launch
<1>3. CASE /\ \/ EndArgs \/ PairPort \/ EndPairing \/ AssignPort \/ CreatePool
              \/ EndPorts \/ CheckLinks \/ WaitLcores \/ ClosePort \/ Bye
           /\ UNCHANGED <<program, force_quit, loopVars>>
  BY <1>3 DEF EndArgs, PairPort, EndPairing, AssignPort, CreatePool, EndPorts,
     CheckLinks, WaitLcores, ClosePort, Bye
<1>4. CASE (InitPort \/ AesInitPort) /\ UNCHANGED <<program, force_quit, loopVars>>
  BY <1>4 DEF InitPort, AesInitPort, PortFails
<1> QED
  BY <1>1, <1>2, <1>3, <1>4 DEF main, MonitorMain, IdsMain, FirewallMain, AesMain, Main

(* main does not disturb a core that runs: it fills the lists while all are  *)
(* off.                                                                      *)
LEMMA MainKeepsLoop ==
    ASSUME LoopInv, CloseInv, main
    PROVE  LoopInv'
<1>1. CASE Launch
  <2>1. \A c \in Lcores : core[c] = "off"
    BY <1>1 DEF Launch, CloseInv, Before
  <2>2. /\ core' = [c \in Lcores |-> IF c \notin Enabled THEN "off"
                                    ELSE IF rx_port_list[c] = <<>> THEN "done" ELSE "top"]
        /\ UNCHANGED <<rx_port_list, qi, pkts_burst, my_cnt, k, _pass, tx_buffer, addr,
                       rx, tx, arrived, fate, reported>>
    BY <1>1 DEF Launch, confVars
  <2>3. LoopTypes'
    BY <2>2 DEF LoopInv, LoopTypes, CorePcs
  <2>4. ASSUME NEW c \in Lcores
        PROVE  CoreIsSound(c)'
    <3>1. CoreIsSound(c) /\ core[c] = "off"
      BY <2>1 DEF LoopInv
    <3>2. core'[c] \in {"off", "done", "top"}
          /\ (core'[c] = "top" => rx_port_list[c] # << >>)
      BY <2>2
    <3> QED
      BY <2>2, <3>1, <3>2 DEF CoreIsSound
  <2> QED
    BY <2>3, <2>4 DEF LoopInv
<1>2. CASE UNCHANGED loopVars /\ rx_port_list' = rx_port_list
  BY <1>2 DEF loopVars, LoopInv, LoopTypes, CoreIsSound
<1>3. CASE UNCHANGED loopVars /\ pc = "assign"
  <2>1. \A c \in Lcores : core[c] = "off"
    BY <1>3 DEF CloseInv, Before
  <2>2. LoopTypes'
    BY <1>3 DEF loopVars, LoopInv, LoopTypes
  <2>3. ASSUME NEW c \in Lcores
        PROVE  CoreIsSound(c)'
    BY <1>3, <2>1 DEF loopVars, LoopInv, CoreIsSound
  <2> QED
    BY <2>2, <2>3 DEF LoopInv
<1>4. rx_port_list' = rx_port_list \/ pc = "assign"
  BY MainSteps DEF OptPortmask, OptNqueue, OptOther, Option, EndArgs, PairPort,
     EndPairing, AssignPort, CreatePool, PortFails, StartPort, EndPorts, CheckLinks,
     WaitLcores, ClosePort, Bye, Launch, confVars
<1> QED
  BY <1>1, <1>2, <1>3, <1>4, MainKeeps

(* The options, in any order and number.                                     *)
LEMMA OptionsAreServed ==
    ASSUME ServedInv, main,
           \/ \E arg \in MaskArgs : OptPortmask(arg)
           \/ \E n \in 0 .. MAX_RX_QUEUE_PER_LCORE : OptNqueue(n)
           \/ OptOther
    PROVE  ServedInv'
<1> USE DEF ServedInv
<1>1. /\ pc = "args" /\ pc' \in {"args", "exit"} /\ todo = {} /\ started = {}
      /\ options < OptBound /\ options' = options + 1
      /\ UNCHANGED <<program, todo, rx_lcore_id, rx_port_list, started, keyed, count,
                     print_flag, force_quit>>
  <2>1. Option /\ pc' \in {pc, "exit"}
    BY DEF OptPortmask, OptNqueue, OptOther
  <2>2. pc = "args"
    BY <2>1 DEF Option
  <2>3. todo = {} /\ started = {}
    BY <2>2 DEF PhaseIsSound, Configuring
  <2> QED
    BY <2>1, <2>2, <2>3 DEF Option
<1>2. \A c \in Lcores : rx_port_list[c] = << >>
  BY <1>1 DEF PhaseIsSound
<1>3. given' \subseteq Nat /\ mask' \subseteq Bits
      /\ (mask' \subseteq Ports => mask' = given' \cap Bits)
  <2>1. CASE UNCHANGED <<given, mask>>
    BY <2>1 DEF MainTypes, MaskIsSound
  <2>2. ASSUME NEW arg \in MaskArgs, given' = arg, mask' = ParsePortmask(arg)
        PROVE  given' \subseteq Nat /\ mask' \subseteq Bits
               /\ (mask' \subseteq Ports => mask' = given' \cap Bits)
    <3>1. NB_PORTS \in Bits /\ NB_PORTS \notin Ports
      BY L2fwdAssumption DEF Bits, Ports
    <3>2. arg \subseteq Nat
      BY L2fwdAssumption
    <3> QED
      BY <2>2, <3>1, <3>2 DEF ParsePortmask
  <2> QED
    BY <2>1, <2>2 DEF OptPortmask, OptNqueue, OptOther
<1>4. nqueue' \in 1 .. MAX_RX_QUEUE_PER_LCORE - 1
  <2>1. CASE nqueue' = nqueue
    BY <2>1 DEF MainTypes
  <2>2. ASSUME NEW n \in 0 .. MAX_RX_QUEUE_PER_LCORE, ParseNqueue(n) # 0,
               nqueue' = ParseNqueue(n)
        PROVE  nqueue' \in 1 .. MAX_RX_QUEUE_PER_LCORE - 1
    BY <2>2, L2fwdAssumption DEF ParseNqueue
  <2> QED
    BY <2>1, <2>2 DEF OptPortmask, OptNqueue, OptOther
<1>5. MainTypes'
  <2>1. options' \in 0 .. OptBound
    BY <1>1, L2fwdAssumption DEF MainTypes
  <2> QED
    BY <1>1, <1>3, <1>4, <2>1 DEF MainTypes
<1>6. ListsAreSound'
  <2>1. \A c \in Lcores : Len(rx_port_list'[c]) = 0
    BY <1>1, <1>2
  <2>2. 0 <= nqueue'
    BY <1>4
  <2>3. PlacesDiffer'
    BY <1>1, <1>2 DEF PlacesDiffer
  <2> QED
    BY <1>1, <2>1, <2>2, <2>3 DEF ListsAreSound
<1>7. PhaseIsSound'
  BY <1>1, <1>2 DEF PhaseIsSound, Configuring, MainPcs
<1> QED
  BY <1>1, <1>3, <1>5, <1>6, <1>7 DEF MaskIsSound

(* A step that changes neither the mask nor the lists goes from one phase to *)
(* another that asks no more.                                                *)
LEMMA PhaseStep ==
    ASSUME ServedInv, MainTypes',
           UNCHANGED <<given, mask, nqueue, rx_port_list>>,
           pc' \in MainPcs \ {"args", "pair", "assign"},
           pc \in {"args", "pair"} => pc' = "exit",
           pc = "exit" => pc' = "exit",
           pc = "assign" => pc' = "exit" \/ todo = {},
           started' \subseteq mask,
           started' # {} => mask \subseteq Ports
    PROVE  ServedInv'
<1>1. ListsAreSound'
  BY DEF ServedInv, ListsAreSound, PlacesDiffer
<1>2. PhaseIsSound'
  BY DEF ServedInv, PhaseIsSound, HasPlace, Configuring, MainPcs
<1>3. MaskIsSound'
  BY DEF ServedInv, MaskIsSound
<1> QED
  BY <1>1, <1>2, <1>3 DEF ServedInv

(* The port visited goes to the end of a list that has room.                 *)
LEMMA AssignIsServed ==
    ASSUME ServedInv, AssignPort, program' = program, force_quit' = force_quit
    PROVE  ServedInv'
<1> DEFINE port == Min(todo)
           room == {c \in rx_lcore_id .. RTE_MAX_LCORE - 1 : HasRoom(c)}
           d == Min(room)
<1>1. /\ pc = "assign" /\ todo # {} /\ mask \subseteq Ports /\ todo \subseteq mask
      /\ UNCHANGED <<options, given, mask, nqueue, l2fwd_dst_ports, last_port, odd,
                     started, keyed, count, print_flag>>
  BY DEF AssignPort, ServedInv, PhaseIsSound, MainTypes
<1>2. port \in todo /\ port \in Ports
  <2>1. todo \subseteq Nat
    BY <1>1 DEF Ports
  <2> QED
    BY <1>1, <2>1, LeastPort
<1>3. CASE room = {}
  <2>1. pc' = "exit" /\ UNCHANGED <<todo, rx_lcore_id, rx_port_list>>
    BY <1>3 DEF AssignPort
  <2>2. MainTypes'
    BY <1>1, <2>1 DEF ServedInv, MainTypes
  <2> QED
    BY <1>1, <2>1, <2>2, PhaseStep DEF ServedInv, MaskIsSound, MainPcs
<1>4. CASE room # {}
  <2>1. /\ rx_lcore_id' = d
        /\ rx_port_list' = [rx_port_list EXCEPT ![d] = Append(@, port)]
        /\ todo' = todo \ {port} /\ pc' = pc
    BY <1>4 DEF AssignPort
  <2>2. d \in Enabled /\ d \in Lcores /\ Len(rx_port_list[d]) # nqueue
    <3>1. rx_lcore_id \in Nat
      BY DEF ServedInv, MainTypes, Lcores
    <3>2. room \subseteq Nat
      BY <3>1, L2fwdAssumption
    <3>3. d \in room
      BY <1>4, <3>2, LeastPort
    <3> QED
      BY <3>3, L2fwdAssumption DEF HasRoom
  <2>3. /\ rx_port_list \in [Lcores -> Seq(Ports)]
        /\ \A c \in Lcores : Len(rx_port_list[c]) <= nqueue
        /\ \A c \in Lcores \ Enabled : rx_port_list[c] = << >>
        /\ PlacesDiffer /\ nqueue \in Nat
    BY L2fwdAssumption DEF ServedInv, ListsAreSound, MainTypes
  <2>4. \A p \in mask : HasPlace(p) <=> p \notin todo
    BY <1>1 DEF ServedInv, PhaseIsSound
  <2>5. \A c \in Lcores : \A i \in DOMAIN rx_port_list[c] :
           rx_port_list[c][i] # port
    <3>1. ~ HasPlace(port)
      BY <1>1, <1>2, <2>4
    <3> SUFFICES ASSUME NEW c \in Lcores, NEW i \in DOMAIN rx_port_list[c]
                 PROVE  rx_port_list[c][i] # port
      OBVIOUS
    <3>2. c \in Enabled
      BY <2>3
    <3> QED
      BY <3>1, <3>2 DEF HasPlace
  <2> HIDE DEF port, d
  <2> DEFINE last == Len(rx_port_list[d]) + 1
  <2>6. /\ rx_port_list[d] \in Seq(Ports)
        /\ Len(rx_port_list[d]) \in Nat /\ Len(rx_port_list[d]) < nqueue
    <3>1. rx_port_list[d] \in Seq(Ports) /\ Len(rx_port_list[d]) <= nqueue
      BY <2>2, <2>3
    <3> QED
      BY <2>2, <2>3, <3>1
  <2>7. /\ rx_port_list'[d] = Append(rx_port_list[d], port)
        /\ \A c \in Lcores \ {d} : rx_port_list'[c] = rx_port_list[c]
        /\ rx_port_list' \in [Lcores -> Seq(Ports)]
    <3>1. Append(rx_port_list[d], port) \in Seq(Ports)
      BY <1>2, <2>6
    <3> QED
      BY <2>1, <2>2, <2>3, <3>1
  <2>8. /\ DOMAIN rx_port_list'[d] = DOMAIN rx_port_list[d] \cup {last}
        /\ last \notin DOMAIN rx_port_list[d]
        /\ rx_port_list'[d][last] = port
        /\ \A i \in DOMAIN rx_port_list[d] : rx_port_list'[d][i] = rx_port_list[d][i]
        /\ Len(rx_port_list'[d]) <= nqueue
    BY <1>2, <2>3, <2>6, <2>7
  <2> HIDE DEF last
  <2>9. PlacesDiffer'
    <3> SUFFICES ASSUME NEW a \in Lcores, NEW b \in Lcores,
                        NEW i \in DOMAIN rx_port_list'[a],
                        NEW j \in DOMAIN rx_port_list'[b],
                        rx_port_list'[a][i] = rx_port_list'[b][j]
                 PROVE  a = b /\ i = j
      BY DEF PlacesDiffer
    <3>1. (a = d /\ i = last) \/ (/\ i \in DOMAIN rx_port_list[a]
                                  /\ rx_port_list'[a][i] = rx_port_list[a][i])
      BY <2>7, <2>8
    <3>2. (b = d /\ j = last) \/ (/\ j \in DOMAIN rx_port_list[b]
                                  /\ rx_port_list'[b][j] = rx_port_list[b][j])
      BY <2>7, <2>8
    <3> QED
      BY <2>3, <2>5, <2>8, <3>1, <3>2 DEF PlacesDiffer
  <2>10. ListsAreSound'
    <3>1. \A c \in Lcores : Len(rx_port_list'[c]) <= nqueue
      BY <2>3, <2>7, <2>8
    <3>2. \A c \in Lcores \ Enabled : rx_port_list'[c] = << >>
      BY <2>2, <2>3, <2>7
    <3> QED
      BY <1>1, <2>7, <2>9, <3>1, <3>2 DEF ListsAreSound
  <2>11. \A p \in mask : HasPlace(p)' <=> HasPlace(p) \/ p = port
    <3> TAKE p \in mask
    <3>1. ASSUME HasPlace(p)'
          PROVE  HasPlace(p) \/ p = port
      <4>1. PICK c \in Enabled : \E i \in DOMAIN rx_port_list'[c] :
               rx_port_list'[c][i] = p
        BY <3>1 DEF HasPlace
      <4>2. PICK i \in DOMAIN rx_port_list'[c] : rx_port_list'[c][i] = p
        BY <4>1
      <4>3. c \in Lcores
        BY L2fwdAssumption
      <4> QED
        BY <2>7, <2>8, <4>2, <4>3 DEF HasPlace
    <3>2. ASSUME HasPlace(p)
          PROVE  HasPlace(p)'
      <4>1. PICK c \in Enabled : \E i \in DOMAIN rx_port_list[c] :
               rx_port_list[c][i] = p
        BY <3>2 DEF HasPlace
      <4>2. PICK i \in DOMAIN rx_port_list[c] : rx_port_list[c][i] = p
        BY <4>1
      <4>3. c \in Lcores
        BY L2fwdAssumption
      <4>4. i \in DOMAIN rx_port_list'[c] /\ rx_port_list'[c][i] = p
        BY <2>7, <2>8, <4>2, <4>3
      <4> QED
        BY <4>4 DEF HasPlace
    <3>3. p = port => HasPlace(p)'
      BY <2>2, <2>8 DEF HasPlace
    <3> QED
      BY <3>1, <3>2, <3>3
  <2>12. PhaseIsSound'
    BY <1>1, <1>2, <2>1, <2>4, <2>11 DEF PhaseIsSound, ServedInv, Configuring, MainPcs
  <2>13. MainTypes'
    BY <1>1, <2>1, <2>2 DEF ServedInv, MainTypes
  <2> QED
    BY <1>1, <2>10, <2>12, <2>13 DEF ServedInv, MaskIsSound
<1> QED
  BY <1>3, <1>4

LEMMA ServedStep ==
    ASSUME ServedInv, CloseInv, [Next]_vars
    PROVE  ServedInv'
<1> USE DEF ServedInv
<1>1. CASE UNCHANGED vars
  BY <1>1 DEF vars, confVars, mainVars, MainTypes, ListsAreSound, PlacesDiffer,
     PhaseIsSound, HasPlace, MaskIsSound
<1>2. CASE signal_handler
  <2>1. MainTypes'
    BY <1>2 DEF signal_handler, confVars, mainVars, MainTypes
  <2>2. UNCHANGED <<pc, todo, started, given, mask, nqueue, rx_port_list>>
    BY <1>2 DEF signal_handler, confVars, mainVars
  <2> QED
    BY <2>1, <2>2 DEF ListsAreSound, PlacesDiffer, PhaseIsSound, HasPlace, MaskIsSound
<1>3. ASSUME NEW c \in Enabled, l2fwd_main_loop(c)
      PROVE  ServedInv'
  <2>1. InLoop /\ pc' \in {"loop", "crash"}
    <3>1. InLoop
      BY <1>3 DEF l2fwd_main_loop, MonitorLoop, IdsLoop, FirewallLoop, AesLoop
    <3> QED
      BY <1>3, <3>1, CoreStep DEF CloseInv
  <2>2. pc = "loop" /\ MainTypes'
    BY <2>1 DEF InLoop, confVars, MainTypes
  <2>3. UNCHANGED <<given, mask, nqueue, rx_port_list, started>>
    BY <2>1 DEF InLoop, confVars
  <2> QED
    BY <2>1, <2>2, <2>3, PhaseStep DEF MaskIsSound, MainPcs
<1>4. CASE main
  <2>0. program' = program /\ force_quit' = force_quit
        /\ (keyed' = keyed \/ \E p \in Ports : keyed' = {p})
    BY <1>4, MainKeeps
  <2>1. CASE \/ \E arg \in MaskArgs : OptPortmask(arg)
             \/ \E n \in 0 .. MAX_RX_QUEUE_PER_LCORE : OptNqueue(n)
             \/ OptOther
    BY <1>4, <2>1, OptionsAreServed
  <2>2. CASE AssignPort
    BY <2>0, <2>2, AssignIsServed
  <2>3. CASE EndArgs
    <3>1. /\ pc = "args" /\ started = {} /\ todo = {}
          /\ UNCHANGED <<options, given, mask, nqueue, rx_lcore_id, rx_port_list,
                         started, keyed, count, print_flag>>
          /\ \/ pc' = "pair" /\ todo' = mask /\ mask \subseteq Ports
             \/ pc' = "exit" /\ todo' = todo
      BY <2>3 DEF EndArgs, Enter, confVars, PhaseIsSound, Configuring
    <3>2. MainTypes'
      BY <2>0, <3>1 DEF MainTypes
    <3>3. ListsAreSound' /\ MaskIsSound'
      BY <3>1 DEF ListsAreSound, PlacesDiffer, MaskIsSound
    <3>4. PhaseIsSound'
      BY <3>1 DEF PhaseIsSound, Configuring, MainPcs
    <3> QED
      BY <3>2, <3>3, <3>4
  <2>4. CASE PairPort \/ EndPairing
    <3>1. /\ pc = "pair" /\ started = {} /\ mask \subseteq Ports
          /\ UNCHANGED <<options, given, mask, nqueue, rx_lcore_id, rx_port_list,
                         started, keyed, count, print_flag>>
          /\ \/ pc' = "pair" /\ todo' \subseteq todo
             \/ pc' = "assign" /\ todo' = mask
      BY <2>4 DEF PairPort, EndPairing, Enter, PhaseIsSound, Configuring
    <3>2. MainTypes'
      BY <2>0, <3>1 DEF MainTypes
    <3>3. ListsAreSound' /\ MaskIsSound'
      BY <3>1 DEF ListsAreSound, PlacesDiffer, MaskIsSound
    <3>4. \A p \in mask : ~ HasPlace(p)'
      <4>1. \A c \in Enabled : DOMAIN rx_port_list'[c] = {}
        BY <3>1, L2fwdAssumption DEF PhaseIsSound
      <4> QED
        BY <4>1 DEF HasPlace
    <3>5. PhaseIsSound'
      BY <3>1, <3>4 DEF PhaseIsSound, Configuring, MainPcs
    <3> QED
      BY <3>2, <3>3, <3>5
  <2>5. CASE CreatePool
    <3>1. /\ pc = "assign" /\ todo = {} /\ pc' \in {"ports", "exit"}
          /\ todo' \in {todo, mask}
          /\ UNCHANGED <<confVars, started, keyed, count, print_flag>>
      BY <2>5 DEF CreatePool, Enter
    <3>2. MainTypes'
      BY <2>0, <3>1 DEF MainTypes, confVars
    <3> QED
      BY <3>1, <3>2, PhaseStep DEF MaskIsSound, MainPcs, confVars
  <2>6. ASSUME NEW p \in Ports, StartPort(p)
        PROVE  ServedInv'
    <3>1. /\ pc = "ports" /\ pc' = "ports" /\ todo # {} /\ p = Min(todo)
          /\ todo' = todo \ {p} /\ started' = started \cup {p}
          /\ UNCHANGED <<confVars, count, print_flag>>
      BY <2>6 DEF StartPort
    <3>2. p \in mask /\ mask \subseteq Ports
      <4>1. todo \subseteq Nat /\ todo \subseteq mask /\ mask \subseteq Ports
        BY <3>1 DEF PhaseIsSound, MainTypes, Ports
      <4>2. p \in todo
        BY <3>1, <4>1, LeastPort
      <4> QED
        BY <4>1, <4>2
    <3>3. MainTypes'
      BY <2>0, <3>1, <3>2 DEF MainTypes, confVars
    <3> QED
      BY <3>1, <3>2, <3>3, PhaseStep DEF MaskIsSound, MainPcs, confVars
  <2>7. CASE PortFails \/ EndPorts \/ CheckLinks
    <3>1. /\ pc \in {"ports", "links"} /\ pc' \in {"exit", "links", "launch"}
          /\ count' \in {count, count + 1} /\ (count' = count \/ count <= MAX_CHECK_TIME)
          /\ print_flag' \in BOOLEAN
          /\ UNCHANGED <<todo, confVars, started, keyed>>
      <4>1. count \in Nat /\ MAX_CHECK_TIME \in Nat /\ print_flag \in BOOLEAN
        BY L2fwdAssumption DEF MainTypes
      <4>2. CASE PortFails \/ EndPorts
        BY <4>1, <4>2 DEF PortFails, EndPorts
      <4>3. CASE CheckLinks
        <5>1. CASE force_quit \/ print_flag \/ count > MAX_CHECK_TIME
          BY <4>1, <4>3, <5>1 DEF CheckLinks
        <5>2. CASE ~ (force_quit \/ print_flag \/ count > MAX_CHECK_TIME)
          <6>1. /\ pc = "links" /\ pc' = pc /\ count' = count + 1
                /\ UNCHANGED <<todo, confVars, started, keyed>>
            BY <4>3, <5>2 DEF CheckLinks
          <6>2. print_flag' \in BOOLEAN
            BY <4>3, <5>2 DEF CheckLinks
          <6>3. count <= MAX_CHECK_TIME
            BY <4>1, <5>2
          <6> QED
            BY <6>1, <6>2, <6>3
        <5> QED
          BY <5>1, <5>2
      <4> QED
        BY <2>7, <4>2, <4>3
    <3>2. count' \in 0 .. MAX_CHECK_TIME + 1
      BY <3>1, L2fwdAssumption DEF MainTypes
    <3>3. MainTypes'
      BY <2>0, <3>1, <3>2 DEF MainTypes, confVars
    <3> QED
      BY <3>1, <3>3, PhaseStep DEF MaskIsSound, MainPcs, confVars
  <2>8. CASE Launch \/ WaitLcores \/ ClosePort \/ Bye
    <3>1. /\ pc \in {"launch", "loop", "close"} /\ pc' \in {"loop", "close", "end"}
          /\ todo' \subseteq mask /\ started' \subseteq started
          /\ UNCHANGED <<confVars, keyed, count, print_flag>>
      <4>1. todo \subseteq mask
        BY DEF MainTypes
      <4> QED
        BY <2>8, <4>1 DEF Launch, WaitLcores, ClosePort, Bye, Enter
    <3>2. MainTypes'
      BY <2>0, <3>1 DEF MainTypes, confVars
    <3> QED
      BY <3>1, <3>2, PhaseStep DEF MaskIsSound, MainPcs, confVars
  <2> QED
    BY <1>4, <2>1, <2>2, <2>3, <2>4, <2>5, <2>6, <2>7, <2>8, MainSteps
<1> QED
  BY <1>1, <1>2, <1>3, <1>4 DEF Next

\* Everything that holds of main and of the cores together.
L2fwdInv == PairInv /\ CloseInv /\ ServedInv /\ LoopInv

LEMMA L2fwdInit ==
    ASSUME Init
    PROVE  L2fwdInv
<1> USE DEF Init
<1>1. 0 \in Ports
  BY L2fwdAssumption DEF Ports
<1>2. PairInv
  BY <1>1 DEF PairInv, PairingIsInvolution, MainPcs
<1>3. CloseInv
  BY DEF CloseInv, Before, Early, CorePcs, MainPcs
<1>4. MainTypes
  <2>1. 1 \in 1 .. MAX_RX_QUEUE_PER_LCORE - 1
    BY L2fwdAssumption
  <2>2. 0 \in 0 .. OptBound /\ 0 \in 0 .. MAX_CHECK_TIME + 1
    BY L2fwdAssumption
  <2>3. print_flag \in BOOLEAN /\ force_quit \in BOOLEAN
    OBVIOUS
  <2> QED
    BY <2>1, <2>2, <2>3 DEF MainTypes
<1>5. ListsAreSound
  BY DEF ListsAreSound, PlacesDiffer
<1>6. PhaseIsSound /\ MaskIsSound
  BY DEF PhaseIsSound, MaskIsSound, MainPcs
<1>7. LoopTypes
  <2>1. 0 \in 0 .. MAX_PKT_BUFFER
    BY L2fwdAssumption
  <2> QED
    BY <2>1 DEF LoopTypes, CorePcs
<1>8. \A c \in Lcores : CoreIsSound(c)
  BY L2fwdAssumption DEF CoreIsSound
<1> QED
  BY <1>2, <1>3, <1>4, <1>5, <1>6, <1>7, <1>8 DEF L2fwdInv, ServedInv, LoopInv

LEMMA L2fwdStep ==
    ASSUME L2fwdInv, [Next]_vars
    PROVE  L2fwdInv'
<1> USE DEF L2fwdInv
<1>1. PairInv' /\ CloseInv' /\ ServedInv'
  BY PairStep, CloseStep, ServedStep DEF CloseInv
<1>2. Wired
  BY DEF Wired, PairInv, CloseInv
<1>3. LoopInv'
  <2>1. CASE main
    BY <2>1, MainKeepsLoop
  <2>2. CASE UNCHANGED vars \/ signal_handler
    BY <2>2 DEF vars, signal_handler, confVars, loopVars, LoopInv, LoopTypes, CoreIsSound
  <2>3. ASSUME NEW c \in Enabled, l2fwd_main_loop(c)
        PROVE  LoopInv'
    BY <1>2, <2>3, LoopStep
  <2> QED
    BY <2>1, <2>2, <2>3 DEF Next
<1> QED
  BY <1>1, <1>3

(* A port of the mask that has a place has exactly one.                      *)
LEMMA OnePlace ==
    ASSUME ListsAreSound, nqueue \in Nat, NEW p, HasPlace(p)
    PROVE  Cardinality({at \in Enabled \X (1 .. nqueue) :
               at[2] \in DOMAIN rx_port_list[at[1]]
               /\ rx_port_list[at[1]][at[2]] = p}) = 1
<1> DEFINE places == {at \in Enabled \X (1 .. nqueue) :
               at[2] \in DOMAIN rx_port_list[at[1]]
               /\ rx_port_list[at[1]][at[2]] = p}
<1>1. PICK c \in Enabled : \E i \in DOMAIN rx_port_list[c] : rx_port_list[c][i] = p
  BY DEF HasPlace
<1>2. PICK i \in DOMAIN rx_port_list[c] : rx_port_list[c][i] = p
  BY <1>1
<1>3. Enabled \subseteq Lcores
  BY L2fwdAssumption
<1>4. i \in 1 .. nqueue
  <2>1. rx_port_list[c] \in Seq(Ports) /\ Len(rx_port_list[c]) <= nqueue
    BY <1>3 DEF ListsAreSound
  <2> QED
    BY <1>2, <2>1
<1>5. <<c, i>> \in places
  BY <1>2, <1>4
<1>6. ASSUME NEW at \in places
      PROVE  at = <<c, i>>
  <2>1. PICK d \in Enabled, j \in 1 .. nqueue : at = <<d, j>>
    BY <1>6
  <2>2. j \in DOMAIN rx_port_list[d] /\ rx_port_list[d][j] = p
    BY <1>6, <2>1
  <2>3. d = c /\ j = i
    BY <1>2, <1>3, <2>2 DEF ListsAreSound, PlacesDiffer
  <2> QED
    BY <2>1, <2>3
<1>7. places = {<<c, i>>}
  BY <1>5, <1>6
<1> QED
  BY <1>7, FS_Singleton

(* For any options, ports and lcores: the state is well-typed, whatever the  *)
(* cores store over each other; the ports that run are those the last -p     *)
(* names; and each has its place in the list of one core, PortsAreServed     *)
(* (container_fn/monitor/main.c:369-382, 608-671).                           *)
THEOREM PortsStayServed == Spec => []PortsAreServed
<1>1. L2fwdInv => PortsAreServed
  <2> SUFFICES ASSUME L2fwdInv
               PROVE  PortsAreServed
    OBVIOUS
  <2> USE DEF L2fwdInv
  <2>1. TypeOK
    BY DEF TypeOK, PairInv, CloseInv, ServedInv, MainTypes, LoopInv, LoopTypes
  <2>2. OnlyAskedPortsRun
    <3>1. started \subseteq given
      BY DEF ServedInv, MaskIsSound
    <3>2. ASSUME pc = "loop"
          PROVE  started \cup {b \in given : b >= MASK_BITS} = given
      <4>1. mask \subseteq started /\ mask = given \cap Bits
        BY <3>2 DEF ServedInv, CloseInv, PhaseIsSound, MaskIsSound
      <4>2. \A b \in given : b \in Bits \/ b >= MASK_BITS
        BY L2fwdAssumption DEF ServedInv, MainTypes, Bits
      <4> QED
        BY <3>1, <4>1, <4>2
    <3> QED
      BY <3>1, <3>2 DEF OnlyAskedPortsRun
  <2>3. EveryPortHasOneCore
    <3> SUFFICES ASSUME pc \in {"links", "launch", "loop", "close", "end", "crash"}
                 PROVE  /\ nqueue < MAX_RX_QUEUE_PER_LCORE
                        /\ \A c \in Lcores : Len(rx_port_list[c]) <= nqueue
                        /\ \A c \in Lcores \ Enabled : rx_port_list[c] = <<>>
                        /\ \A p \in mask :
                              Cardinality({at \in Enabled \X (1 .. nqueue) :
                                  at[2] \in DOMAIN rx_port_list[at[1]]
                                  /\ rx_port_list[at[1]][at[2]] = p}) = 1
      BY DEF EveryPortHasOneCore
    <3>1. nqueue \in Nat /\ nqueue < MAX_RX_QUEUE_PER_LCORE
      BY L2fwdAssumption DEF ServedInv, MainTypes
    <3>2. \A p \in mask : HasPlace(p)
      BY DEF ServedInv, PhaseIsSound, Configuring
    <3>3. ListsAreSound
      BY DEF ServedInv
    <3>4. \A p \in mask :
             Cardinality({at \in Enabled \X (1 .. nqueue) :
                 at[2] \in DOMAIN rx_port_list[at[1]]
                 /\ rx_port_list[at[1]][at[2]] = p}) = 1
      BY <3>1, <3>2, <3>3, OnePlace
    <3> QED
      BY <3>1, <3>3, <3>4 DEF ListsAreSound
  <2> QED
    BY <2>1, <2>2, <2>3 DEF PortsAreServed
<1> QED
  BY <1>1, L2fwdInit, L2fwdStep, PTL DEF Spec

-----------------------------------------------------------------------------
(* Totals *)

(* As many units as numbers from 1 to n.                                     *)
LEMMA UnitsOfOne ==
    ASSUME NEW d, NEW n \in Nat
    PROVE  IsFiniteSet({d} \X (1 .. n)) /\ Cardinality({d} \X (1 .. n)) = n
<1>1. IsFiniteSet({d}) /\ Cardinality({d}) = 1
  BY FS_Singleton
<1>2. IsFiniteSet(1 .. n) /\ Cardinality(1 .. n) = IF 1 > n THEN 0 ELSE n - 1 + 1
  BY FS_Interval
<1>3. Cardinality(1 .. n) = n
  BY <1>2
<1>4. /\ IsFiniteSet({d} \X (1 .. n))
      /\ Cardinality({d} \X (1 .. n)) = Cardinality({d}) * Cardinality(1 .. n)
  BY <1>1, <1>2, FS_Product
<1>5. 1 * n = n
  OBVIOUS
<1> QED
  BY <1>1, <1>3, <1>4, <1>5

(* Two finite sets without a common element add up.                          *)
LEMMA ApartAddUp ==
    ASSUME NEW S, NEW T, IsFiniteSet(S), IsFiniteSet(T), S \cap T = {}
    PROVE  /\ IsFiniteSet(S \cup T)
           /\ Cardinality(S) \in Nat /\ Cardinality(T) \in Nat
           /\ Cardinality(S \cup T) = Cardinality(S) + Cardinality(T)
<1>1. Cardinality(S) \in Nat /\ Cardinality(T) \in Nat
  BY FS_CardinalityType
<1>2. Cardinality(S \cap T) = 0
  BY FS_EmptySet
<1>3. IsFiniteSet(S \cup T)
      /\ Cardinality(S \cup T) = Cardinality(S) + Cardinality(T) - Cardinality(S \cap T)
  BY FS_Union
<1> QED
  BY <1>1, <1>2, <1>3

\* A function to the natural numbers.
Counts(f) == \A x \in DOMAIN f : f[x] \in Nat

(* A total changes by what the one value changes.                            *)
LEMMA TotalChanged ==
    ASSUME NEW f, NEW g, Counts(f), Counts(g), NEW d,
           d \in DOMAIN f, DOMAIN g = DOMAIN f,
           \A x \in DOMAIN f : x # d => g[x] = f[x],
           IsFiniteSet(Units(f))
    PROVE  /\ IsFiniteSet(Units(g)) /\ Total(f) \in Nat /\ Total(g) \in Nat
           /\ Total(g) + f[d] = Total(f) + g[d]
<1> DEFINE rest == {u \in Units(f) : u[1] # d}
<1>1. f[d] \in Nat /\ g[d] \in Nat
  BY DEF Counts
<1>2. Units(f) = rest \cup ({d} \X (1 .. f[d]))
  BY DEF Units
<1>3. Units(g) = rest \cup ({d} \X (1 .. g[d]))
  BY DEF Units
<1>4. rest \cap ({d} \X (1 .. f[d])) = {} /\ rest \cap ({d} \X (1 .. g[d])) = {}
  OBVIOUS
<1>5. IsFiniteSet(rest)
  BY FS_Subset
<1> HIDE DEF rest
<1>6. /\ Cardinality(rest) \in Nat
      /\ Cardinality(Units(f)) = Cardinality(rest) + f[d]
  <2> DEFINE own == {d} \X (1 .. f[d])
  <2>1. IsFiniteSet(own) /\ Cardinality(own) = f[d]
    BY <1>1, UnitsOfOne
  <2>2. Units(f) = rest \cup own /\ rest \cap own = {}
    BY <1>2, <1>4
  <2> HIDE DEF own
  <2> QED
    BY <1>5, <2>1, <2>2, ApartAddUp
<1>7. /\ IsFiniteSet(Units(g))
      /\ Cardinality(Units(g)) = Cardinality(rest) + g[d]
  <2> DEFINE own == {d} \X (1 .. g[d])
  <2>1. IsFiniteSet(own) /\ Cardinality(own) = g[d]
    BY <1>1, UnitsOfOne
  <2>2. Units(g) = rest \cup own /\ rest \cap own = {}
    BY <1>3, <1>4
  <2> HIDE DEF own
  <2> QED
    BY <1>5, <2>1, <2>2, ApartAddUp
<1>8. Total(f) = Cardinality(rest) + f[d] /\ Total(g) = Cardinality(rest) + g[d]
  BY <1>6, <1>7 DEF Total
<1>9. /\ Total(f) \in Nat /\ Total(g) \in Nat
      /\ Total(g) + f[d] = Total(f) + g[d]
  BY <1>1, <1>6, <1>8
<1> QED
  BY <1>7, <1>9

(* A total grows by the number of values that are raised.                    *)
LEMMA TotalRaised ==
    ASSUME NEW f, NEW g, Counts(f), Counts(g), DOMAIN g = DOMAIN f,
           IsFiniteSet(Units(f)), NEW M, M \subseteq DOMAIN f, IsFiniteSet(M),
           \A x \in DOMAIN f : g[x] = IF x \in M THEN f[x] + 1 ELSE f[x]
    PROVE  /\ IsFiniteSet(Units(g))
           /\ Total(f) \in Nat /\ Total(g) = Total(f) + Cardinality(M)
<1> DEFINE new == {<<x, g[x]>> : x \in M}
           to == [x \in M |-> <<x, g[x]>>]
<1>1. to \in Bijection(M, new)
  BY DEF Bijection, Injection, Surjection, IsInjective
<1>2. ExistsBijection(M, new)
  BY <1>1 DEF ExistsBijection
<1>3. IsFiniteSet(new) /\ Cardinality(new) = Cardinality(M)
  BY <1>2, FS_Bijection
<1>4. \A x \in DOMAIN f : f[x] \in Nat /\ g[x] \in Nat
  BY DEF Counts
<1>5. \A x \in DOMAIN f : 1 .. g[x] = (1 .. f[x]) \cup (IF x \in M THEN {g[x]} ELSE {})
  <2> TAKE x \in DOMAIN f
  <2>1. f[x] \in Nat /\ g[x] \in Nat
    BY <1>4
  <2> QED
    BY <2>1
<1>6. Units(g) = Units(f) \cup new
  <2>1. ASSUME NEW u \in Units(g)
        PROVE  u \in Units(f) \cup new
    <3>1. PICK x \in DOMAIN f : u \in {x} \X (1 .. g[x])
      BY <1>4 DEF Units
    <3>2. PICK n \in 1 .. g[x] : u = <<x, n>>
      BY <3>1
    <3>3. n \in 1 .. f[x] \/ (x \in M /\ n = g[x])
      BY <1>5, <3>2
    <3> QED
      BY <1>4, <3>2, <3>3 DEF Units
  <2>2. ASSUME NEW u \in Units(f)
        PROVE  u \in Units(g)
    <3>1. PICK x \in DOMAIN f : u \in {x} \X (1 .. f[x])
      BY <1>4 DEF Units
    <3>2. PICK n \in 1 .. f[x] : u = <<x, n>>
      BY <3>1
    <3>3. n \in 1 .. g[x]
      BY <1>4, <1>5, <3>2
    <3> QED
      BY <1>4, <3>2, <3>3 DEF Units
  <2>3. ASSUME NEW u \in new
        PROVE  u \in Units(g)
    <3>1. PICK x \in M : u = <<x, g[x]>>
      OBVIOUS
    <3>2. x \in DOMAIN f /\ g[x] \in 1 .. g[x]
      BY <1>4, <1>5
    <3> QED
      BY <1>4, <3>1, <3>2 DEF Units
  <2> QED
    BY <2>1, <2>2, <2>3
<1>7. Units(f) \cap new = {}
  <2> SUFFICES ASSUME NEW x \in M, <<x, g[x]>> \in Units(f)
               PROVE  FALSE
    OBVIOUS
  <2>1. PICK y \in DOMAIN f : <<x, g[x]>> \in {y} \X (1 .. f[y])
    BY <1>4 DEF Units
  <2>2. x \in DOMAIN f /\ g[x] \in 1 .. f[x]
    BY <2>1
  <2>3. f[x] \in Nat /\ g[x] = f[x] + 1
    BY <1>4, <2>2
  <2> QED
    BY <2>2, <2>3
<1> HIDE DEF new
<1>8. /\ IsFiniteSet(Units(g)) /\ Cardinality(Units(f)) \in Nat
      /\ Cardinality(Units(g)) = Cardinality(Units(f)) + Cardinality(new)
  <2> DEFINE old == Units(f)
             all == Units(g)
  <2>1. all = old \cup new /\ old \cap new = {} /\ IsFiniteSet(old)
    BY <1>6, <1>7
  <2> HIDE DEF old, all
  <2>2. /\ IsFiniteSet(all) /\ Cardinality(old) \in Nat
        /\ Cardinality(all) = Cardinality(old) + Cardinality(new)
    BY <1>3, <2>1, ApartAddUp
  <2> QED
    BY <2>2 DEF old, all
<1> QED
  BY <1>3, <1>8 DEF Total

-----------------------------------------------------------------------------
(* The packets *)

Holding == {"store", "forward", "send"}

\* No packet is twice in the bursts and the buffer, whatever is stored over
\* what, and all of them have arrived.  A core that holds no burst has none.
Apart ==
    /\ \A c \in Lcores : \A i \in DOMAIN pkts_burst[c] :
          /\ pkts_burst[c][i] \in arrived
          /\ \A d \in Lcores : \A j \in DOMAIN pkts_burst[d] :
                pkts_burst[c][i] = pkts_burst[d][j] => c = d /\ i = j
          /\ \A j \in DOMAIN tx_buffer : tx_buffer[j] # pkts_burst[c][i]
    /\ \A i \in DOMAIN tx_buffer :
          /\ tx_buffer[i] \in arrived
          /\ \A j \in DOMAIN tx_buffer : tx_buffer[i] = tx_buffer[j] => i = j
    /\ \A c \in Lcores : Len(pkts_burst[c]) <= MAX_PKT_BURST
    /\ \A c \in Lcores : core[c] \notin Holding => pkts_burst[c] = << >>

\* The counters agree, for any number of cores.
CountInv ==
    /\ IsFiniteSet(Units(rx)) /\ IsFiniteSet(Units(tx))
    /\ IsFiniteSet(Units(Handed)) /\ IsFiniteSet(Units(Sent))
    /\ IsFiniteSet(Units(my_cnt)) /\ IsFiniteSet(Units(InBursts))
    /\ PacketsAreCounted

\* No packet has come.
Untouched ==
    /\ arrived = {} /\ reported = {}
    /\ \A m \in Packets : fate[m] = << >>

InBurst(c, m) == \E i \in DOMAIN pkts_burst[c] : pkts_burst[c][i] = m
InSlot(c, m) == \E i \in 1 .. my_cnt[c] : tx_buffer[i] = m

\* What holds of the only core that polls: a packet is in one place;
HeldOnce(c) ==
    /\ \A m \in arrived :
          \/ InBurst(c, m) /\ ~ InSlot(c, m) /\ fate[m] = << >>
          \/ ~ InBurst(c, m) /\ InSlot(c, m) /\ fate[m] = << >>
          \/ ~ InBurst(c, m) /\ ~ InSlot(c, m) /\ Len(fate[m]) = 1
    /\ \A m \in Packets \ arrived : fate[m] = << >>

\* those of the batch it has looked at carry the partner's address;
Addressed(c) ==
    /\ core[c] \in {"forward", "send"}
         => \A i \in 1 .. k[c] : addr[tx_buffer[i]] = l2fwd_dst_ports[rx_port(c)]
    /\ \A m \in Packets : \A i \in DOMAIN fate[m] :
          fate[m][i].addr = l2fwd_dst_ports[fate[m][i].port]

\* and a message is printed when the last it has looked at deserves one.
Noticed(c) ==
    /\ core[c] = "send" => k[c] = MAX_PKT_BUFFER
    /\ pc = "loop" /\ core[c] \in {"forward", "send"} /\ k[c] > 0
         => /\ program = "ids" /\ _pass[c] => Kind[tx_buffer[k[c]]] = "marked"
            /\ program = "firewall" /\ ~ _pass[c] => Kind[tx_buffer[k[c]]] = "marked"
    /\ \A b \in reported : \E m \in b : Kind[m] = "marked"

LoneInv ==
    /\ pc \in Before \/ Pollers = {} => Untouched
    /\ \A c \in Enabled : Pollers = {c} => HeldOnce(c) /\ Addressed(c) /\ Noticed(c)

(* A core that goes on with packets left stores them.                        *)
LEMMA ProceedHolds ==
    ASSUME LoopTypes, NEW c \in Lcores, NEW burst \in Seq(Packets),
           Proceed(c, burst)
    PROVE  /\ core'[c] \notin Holding => burst = << >>
           /\ pkts_burst' = [pkts_burst EXCEPT ![c] = burst]
<1>1. /\ pkts_burst' = [pkts_burst EXCEPT ![c] = burst]
      /\ core' = [core EXCEPT ![c] =
                    IF burst # <<>> THEN "store"
                    ELSE IF qi[c] < Len(rx_port_list[c]) THEN "poll" ELSE "top"]
  BY DEF Proceed
<1>2. core \in [Lcores -> CorePcs]
  BY DEF LoopTypes
<1> QED
  BY <1>1, <1>2 DEF Holding

(* A step that leaves the packets where they are.                            *)
LEMMA ApartStays ==
    ASSUME Apart, UNCHANGED <<pkts_burst, tx_buffer, arrived>>,
           \A c \in Lcores : core'[c] \notin Holding
                => core[c] \notin Holding \/ pkts_burst[c] = << >>
    PROVE  Apart'
BY DEF Apart

LEMMA PollKeepsApart ==
    ASSUME LoopInv, Wired, Apart, NEW c \in Enabled, Poll(c)
    PROVE  Apart'
<1>1. c \in Lcores
  BY L2fwdAssumption
<1>2. core[c] = "poll" /\ UNCHANGED tx_buffer
  BY DEF Poll
<1>3. PICK burst \in Bursts : arrived' = arrived \cup Range(burst) /\ Proceed(c, burst)
  BY DEF Poll
<1>4. /\ burst \in Seq(Packets)
      /\ \A i \in DOMAIN burst : burst[i] \notin arrived
      /\ \A i, j \in DOMAIN burst : burst[i] = burst[j] => i = j
  BY BurstIsNew
<1>5. /\ pkts_burst'[c] = burst
      /\ \A d \in Lcores \ {c} : core'[d] = core[d] /\ pkts_burst'[d] = pkts_burst[d]
  BY <1>1, <1>3, <1>4, ProceedGoesOn DEF LoopInv, Proceeded
<1>6. core'[c] \notin Holding => burst = << >>
  BY <1>1, <1>3, <1>4, ProceedHolds DEF LoopInv
<1>7. \A i \in DOMAIN burst : burst[i] \in arrived'
  BY <1>3 DEF Range
<1>8. Len(burst) <= MAX_PKT_BURST
  <2>1. PICK n \in 0 .. MAX_PKT_BURST : burst \in Injection(1 .. n, Packets \ arrived)
    BY DEF Bursts
  <2>2. DOMAIN burst = 1 .. n /\ n \in Nat /\ n <= MAX_PKT_BURST
    BY <2>1, L2fwdAssumption DEF Injection
  <2>3. Len(burst) = n
    BY <1>4, <2>2
  <2> QED
    BY <2>2, <2>3
<1>9. ASSUME NEW a \in Lcores, NEW i \in DOMAIN pkts_burst'[a]
      PROVE  /\ pkts_burst'[a][i] \in arrived'
             /\ \A b \in Lcores : \A j \in DOMAIN pkts_burst'[b] :
                   pkts_burst'[a][i] = pkts_burst'[b][j] => a = b /\ i = j
             /\ \A j \in DOMAIN tx_buffer' : tx_buffer'[j] # pkts_burst'[a][i]
  <2>1. CASE a = c
    <3>1. i \in DOMAIN burst /\ pkts_burst'[a][i] = burst[i] /\ burst[i] \notin arrived
      BY <1>4, <1>5, <1>9, <2>1
    <3>2. \A j \in DOMAIN tx_buffer : tx_buffer[j] \in arrived
      BY DEF Apart
    <3>3. ASSUME NEW b \in Lcores, NEW j \in DOMAIN pkts_burst'[b],
                 pkts_burst'[a][i] = pkts_burst'[b][j]
          PROVE  a = b /\ i = j
      <4>1. CASE b = c
        BY <1>4, <1>5, <2>1, <3>1, <3>3, <4>1
      <4>2. CASE b # c
        <5>1. j \in DOMAIN pkts_burst[b] /\ pkts_burst'[b][j] = pkts_burst[b][j]
          BY <1>5, <4>2
        <5>2. pkts_burst[b][j] \in arrived
          BY <5>1 DEF Apart
        <5> QED
          BY <3>1, <3>3, <5>1, <5>2
      <4> QED
        BY <4>1, <4>2
    <3> QED
      BY <1>2, <1>7, <3>1, <3>2, <3>3
  <2>2. CASE a # c
    <3>1. i \in DOMAIN pkts_burst[a] /\ pkts_burst'[a][i] = pkts_burst[a][i]
      BY <1>5, <2>2
    <3>2. pkts_burst[a][i] \in arrived /\ \A j \in DOMAIN tx_buffer :
             tx_buffer[j] # pkts_burst[a][i]
      BY <3>1 DEF Apart
    <3>3. ASSUME NEW b \in Lcores, NEW j \in DOMAIN pkts_burst'[b],
                 pkts_burst'[a][i] = pkts_burst'[b][j]
          PROVE  a = b /\ i = j
      <4>1. CASE b = c
        BY <1>4, <1>5, <3>1, <3>2, <3>3, <4>1
      <4>2. CASE b # c
        <5>1. j \in DOMAIN pkts_burst[b] /\ pkts_burst'[b][j] = pkts_burst[b][j]
          BY <1>5, <4>2
        <5>2. pkts_burst[a][i] = pkts_burst[b][j]
          BY <3>1, <3>3, <5>1
        <5> QED
          BY <3>1, <5>1, <5>2 DEF Apart
      <4> QED
        BY <4>1, <4>2
    <3>4. pkts_burst'[a][i] \in arrived'
      BY <1>3, <3>1, <3>2
    <3>5. \A j \in DOMAIN tx_buffer' : tx_buffer'[j] # pkts_burst'[a][i]
      BY <1>2, <3>1, <3>2
    <3> QED
      BY <3>3, <3>4, <3>5
  <2> QED
    BY <2>1, <2>2
<1>10. \A i \in DOMAIN tx_buffer' :
          /\ tx_buffer'[i] \in arrived'
          /\ \A j \in DOMAIN tx_buffer' : tx_buffer'[i] = tx_buffer'[j] => i = j
  BY <1>2, <1>3 DEF Apart
<1>11. \A a \in Lcores : /\ Len(pkts_burst'[a]) <= MAX_PKT_BURST
                         /\ core'[a] \notin Holding => pkts_burst'[a] = << >>
  BY <1>5, <1>6, <1>8 DEF Apart
<1> QED
  BY <1>9, <1>10, <1>11 DEF Apart

\* What a place of the buffer holds when a packet has been stored in a slot.
Placed(slot, m) ==
    \A j \in DOMAIN tx_buffer' :
        \/ j = slot /\ tx_buffer'[j] = m
        \/ j # slot /\ j \in DOMAIN tx_buffer /\ tx_buffer'[j] = tx_buffer[j]

(* The first packet of the burst goes to the slot, the others stay.          *)
LEMMA StorePlaces ==
    ASSUME LoopInv, NEW c \in Enabled, Store(c)
    PROVE  /\ pkts_burst[c] \in Seq(Packets) /\ pkts_burst[c] # << >>
           /\ pkts_burst' = [pkts_burst EXCEPT ![c] = Tail(@)]
           /\ core'[c] \notin Holding => Tail(pkts_burst[c]) = << >>
           /\ \A d \in Lcores \ {c} : core'[d] = core[d]
           /\ my_cnt' = [my_cnt EXCEPT ![c] = @ + 1]
           /\ my_cnt[c] + 1 \in DOMAIN tx_buffer'
           /\ DOMAIN tx_buffer \subseteq DOMAIN tx_buffer'
           /\ Placed(my_cnt[c] + 1, Head(pkts_burst[c]))
<1> DEFINE n == my_cnt[c]
           m == Head(pkts_burst[c])
<1>1. c \in Lcores
  BY L2fwdAssumption
<1>2. CoreIsSound(c) /\ LoopTypes /\ core[c] = "store"
  BY <1>1 DEF LoopInv, Store
<1>3. /\ n \in Nat /\ n <= Len(tx_buffer)
      /\ pkts_burst[c] \in Seq(Packets) /\ pkts_burst[c] # << >>
  BY <1>1, <1>2, L2fwdAssumption DEF CoreIsSound, LoopTypes
<1>4. m \in Packets /\ Tail(pkts_burst[c]) \in Seq(Packets)
  BY <1>3
<1>5. tx_buffer' = Stored(n + 1, m) /\ my_cnt' = [my_cnt EXCEPT ![c] = @ + 1]
  BY DEF Store
<1>6. /\ pkts_burst' = [pkts_burst EXCEPT ![c] = Tail(@)]
      /\ core'[c] \notin Holding => Tail(pkts_burst[c]) = << >>
      /\ \A d \in Lcores \ {c} : core'[d] = core[d]
  <2>1. CASE my_cnt'[c] = MAX_PKT_BUFFER
    <3>1. core' = [core EXCEPT ![c] = "forward"]
          /\ pkts_burst' = [pkts_burst EXCEPT ![c] = Tail(@)]
      BY <2>1 DEF Store
    <3> QED
      BY <1>1, <1>2, <3>1 DEF LoopTypes, Holding
  <2>2. CASE my_cnt'[c] # MAX_PKT_BUFFER
    <3>1. Proceed(c, Tail(pkts_burst[c]))
      BY <2>2 DEF Store
    <3>2. /\ core'[c] \notin Holding => Tail(pkts_burst[c]) = << >>
          /\ pkts_burst' = [pkts_burst EXCEPT ![c] = Tail(pkts_burst[c])]
      BY <1>1, <1>2, <1>4, <3>1, ProceedHolds
    <3>3. \A d \in Lcores \ {c} : core'[d] = core[d]
      BY <1>1, <1>2, <1>4, <3>1, ProceedGoesOn DEF Proceeded
    <3> QED
      BY <3>2, <3>3
  <2> QED
    BY <2>1, <2>2
<1> HIDE DEF n, m
<1>7. tx_buffer \in Seq(Packets)
  BY <1>2 DEF LoopTypes
<1>8. /\ n + 1 \in DOMAIN tx_buffer' /\ DOMAIN tx_buffer \subseteq DOMAIN tx_buffer'
      /\ Placed(n + 1, m)
  <2>1. CASE n + 1 \in DOMAIN tx_buffer
    <3>1. tx_buffer' = [tx_buffer EXCEPT ![n + 1] = m]
      BY <1>5, <2>1 DEF Stored
    <3> QED
      BY <1>7, <2>1, <3>1 DEF Placed
  <2>2. CASE n + 1 \notin DOMAIN tx_buffer
    <3>1. tx_buffer' = Append(tx_buffer, m)
      BY <1>5, <2>2 DEF Stored
    <3>2. n = Len(tx_buffer) /\ DOMAIN tx_buffer = 1 .. Len(tx_buffer)
          /\ Len(tx_buffer) \in Nat
      BY <1>3, <1>7, <2>2
    <3>3. DOMAIN tx_buffer' = 1 .. Len(tx_buffer) + 1 /\ tx_buffer'[n + 1] = m
          /\ \A j \in 1 .. Len(tx_buffer) : tx_buffer'[j] = tx_buffer[j]
      BY <1>7, <3>1, <3>2
    <3> QED
      BY <3>2, <3>3 DEF Placed
  <2> QED
    BY <2>1, <2>2
<1> QED
  BY <1>3, <1>5, <1>6, <1>8 DEF n, m

(* The packet leaves its burst and takes a slot; what was in it is gone.     *)
LEMMA StoreKeepsApart ==
    ASSUME LoopInv, Apart, NEW c \in Enabled, Store(c)
    PROVE  Apart'
<1> DEFINE n == my_cnt[c]
           old == pkts_burst[c]
           m == Head(old)
           rest == Tail(old)
<1>1. c \in Lcores /\ pkts_burst \in [Lcores -> Seq(Packets)]
  BY L2fwdAssumption DEF LoopInv, LoopTypes
<1>2. /\ old \in Seq(Packets) /\ old # << >>
      /\ pkts_burst' = [pkts_burst EXCEPT ![c] = rest]
      /\ core'[c] \notin Holding => rest = << >>
      /\ \A d \in Lcores \ {c} : core'[d] = core[d]
      /\ Placed(n + 1, m)
  BY StorePlaces
<1>3. arrived' = arrived
  BY DEF Store
<1>4. /\ 1 \in DOMAIN old /\ m = old[1] /\ Len(rest) <= Len(old)
      /\ Len(old) \in Nat /\ Len(rest) \in Nat
      /\ \A i \in DOMAIN rest : /\ i \in Nat /\ i + 1 \in DOMAIN old
                                /\ i + 1 # 1 /\ rest[i] = old[i + 1]
  BY <1>2
<1> HIDE DEF n, old, m, rest
<1>5. \A d \in Lcores : pkts_burst'[d] = IF d = c THEN rest ELSE pkts_burst[d]
  BY <1>1, <1>2
<1> DEFINE was(d, i) == IF d = c THEN i + 1 ELSE i
<1>6. ASSUME NEW d \in Lcores, NEW i \in DOMAIN pkts_burst'[d]
      PROVE  /\ was(d, i) \in DOMAIN pkts_burst[d] /\ i \in Nat
             /\ pkts_burst'[d][i] = pkts_burst[d][was(d, i)]
             /\ d = c => was(d, i) # 1
  <2>1. CASE d = c
    BY <1>4, <1>5, <1>6, <2>1 DEF old
  <2>2. CASE d # c
    <3>1. pkts_burst[d] \in Seq(Packets) /\ i \in DOMAIN pkts_burst[d]
      BY <1>1, <1>5, <1>6, <2>2
    <3>2. i \in Nat
      BY <3>1
    <3> QED
      BY <1>5, <2>2, <3>1, <3>2
  <2> QED
    BY <2>1, <2>2
<1>7. ASSUME NEW d \in Lcores, NEW i \in DOMAIN pkts_burst'[d]
      PROVE  pkts_burst'[d][i] # m
  <2>1. was(d, i) \in DOMAIN pkts_burst[d] /\ d = c => was(d, i) # 1
    BY <1>6
  <2>2. pkts_burst[d][was(d, i)] = pkts_burst[c][1] => d = c /\ was(d, i) = 1
    BY <1>1, <1>4, <1>6 DEF Apart, old
  <2> QED
    BY <1>4, <1>6, <2>1, <2>2 DEF old
<1>8. m \in arrived /\ \A j \in DOMAIN tx_buffer : tx_buffer[j] # m
  BY <1>1, <1>4 DEF Apart, old
<1>9. ASSUME NEW a \in Lcores, NEW i \in DOMAIN pkts_burst'[a]
      PROVE  /\ pkts_burst'[a][i] \in arrived'
             /\ \A b \in Lcores : \A j \in DOMAIN pkts_burst'[b] :
                   pkts_burst'[a][i] = pkts_burst'[b][j] => a = b /\ i = j
             /\ \A j \in DOMAIN tx_buffer' : tx_buffer'[j] # pkts_burst'[a][i]
  <2>1. /\ was(a, i) \in DOMAIN pkts_burst[a] /\ i \in Nat
        /\ pkts_burst'[a][i] = pkts_burst[a][was(a, i)]
    BY <1>6
  <2>2. pkts_burst[a][was(a, i)] \in arrived /\ \A j \in DOMAIN tx_buffer :
           tx_buffer[j] # pkts_burst[a][was(a, i)]
    BY <2>1 DEF Apart
  <2>3. ASSUME NEW b \in Lcores, NEW j \in DOMAIN pkts_burst'[b],
               pkts_burst'[a][i] = pkts_burst'[b][j]
        PROVE  a = b /\ i = j
    <3>1. /\ was(b, j) \in DOMAIN pkts_burst[b] /\ j \in Nat
          /\ pkts_burst'[b][j] = pkts_burst[b][was(b, j)]
      BY <1>6
    <3>2. pkts_burst[a][was(a, i)] = pkts_burst[b][was(b, j)]
      BY <2>1, <2>3, <3>1
    <3>3. a = b /\ was(a, i) = was(b, j)
      <4> HIDE DEF was
      <4> QED
        BY <2>1, <3>1, <3>2 DEF Apart
    <3> QED
      BY <2>1, <3>1, <3>3
  <2>4. ASSUME NEW j \in DOMAIN tx_buffer'
        PROVE  tx_buffer'[j] # pkts_burst'[a][i]
    BY <1>2, <1>7, <2>1, <2>2 DEF Placed
  <2> QED
    BY <1>3, <2>1, <2>2, <2>3, <2>4
<1>10. ASSUME NEW i \in DOMAIN tx_buffer'
       PROVE  /\ tx_buffer'[i] \in arrived'
              /\ \A j \in DOMAIN tx_buffer' : tx_buffer'[i] = tx_buffer'[j] => i = j
  <2>1. \A j \in DOMAIN tx_buffer : tx_buffer[j] \in arrived
        /\ \A l \in DOMAIN tx_buffer : tx_buffer[j] = tx_buffer[l] => j = l
    BY DEF Apart
  <2> QED
    BY <1>2, <1>3, <1>8, <1>10, <2>1 DEF Placed
<1>11. \A a \in Lcores : Len(pkts_burst'[a]) <= MAX_PKT_BURST
  <2>1. \A a \in Lcores : Len(pkts_burst[a]) <= MAX_PKT_BURST
    BY DEF Apart
  <2>2. Len(rest) <= MAX_PKT_BURST
    <3>1. Len(old) <= MAX_PKT_BURST
      BY <1>1, <2>1 DEF old
    <3> QED
      BY <1>4, <3>1, L2fwdAssumption
  <2> QED
    BY <1>5, <2>1, <2>2
<1>12. \A a \in Lcores : core'[a] \notin Holding => pkts_burst'[a] = << >>
  BY <1>2, <1>5 DEF Apart
<1> QED
  BY <1>9, <1>10, <1>11, <1>12 DEF Apart

LEMMA ForwardKeepsApart ==
    ASSUME LoopInv, Apart, NEW c \in Enabled, NEW U, NEW P, Forward(c, U, P)
    PROVE  Apart'
<1>1. core \in [Lcores -> CorePcs]
  BY DEF LoopInv, LoopTypes
<1>2. /\ core[c] = "forward" /\ UNCHANGED <<pkts_burst, tx_buffer, arrived>>
      /\ core' = [core EXCEPT ![c] = IF k'[c] = MAX_PKT_BUFFER THEN "send" ELSE @]
  BY DEF Forward
<1>3. \A d \in Lcores : core'[d] \notin Holding => core[d] \notin Holding
  BY <1>1, <1>2 DEF Holding
<1> QED
  BY <1>2, <1>3, ApartStays

LEMMA SendKeepsApart ==
    ASSUME LoopInv, Apart, NEW c \in Enabled, NEW report, Send(c, report)
    PROVE  Apart' /\ UNCHANGED pkts_burst
<1>1. c \in Lcores /\ pkts_burst \in [Lcores -> Seq(Packets)]
  BY L2fwdAssumption DEF LoopInv, LoopTypes
<1>2. Proceed(c, pkts_burst[c]) /\ UNCHANGED <<tx_buffer, arrived>>
  BY DEF Send
<1>3. pkts_burst[c] \in Seq(Packets)
  BY <1>1
<1>4. /\ core'[c] \notin Holding => pkts_burst[c] = << >>
      /\ pkts_burst' = [pkts_burst EXCEPT ![c] = pkts_burst[c]]
  BY <1>1, <1>2, <1>3, ProceedHolds DEF LoopInv
<1>5. \A d \in Lcores \ {c} : core'[d] = core[d]
  BY <1>1, <1>2, <1>3, ProceedGoesOn DEF LoopInv, Proceeded
<1>6. pkts_burst' = pkts_burst
  BY <1>1, <1>4
<1>7. \A d \in Lcores : core'[d] \notin Holding
         => core[d] \notin Holding \/ pkts_burst[d] = << >>
  BY <1>4, <1>5
<1> QED
  BY <1>2, <1>6, <1>7, ApartStays

LEMMA TopKeepsApart ==
    ASSUME LoopInv, Apart, NEW c \in Enabled, Top(c)
    PROVE  Apart'
<1>1. core \in [Lcores -> CorePcs]
  BY DEF LoopInv, LoopTypes
<1>2. /\ core[c] = "top" /\ UNCHANGED <<pkts_burst, tx_buffer, arrived>>
      /\ core' = [core EXCEPT ![c] = IF force_quit THEN "done" ELSE "poll"]
  BY DEF Top
<1>3. \A d \in Lcores : core'[d] \notin Holding
         => core[d] \notin Holding \/ pkts_burst[d] = << >>
  BY <1>1, <1>2 DEF Holding
<1> QED
  BY <1>2, <1>3, ApartStays

LEMMA TotalIsNatural ==
    ASSUME NEW f, IsFiniteSet(Units(f))
    PROVE  Total(f) \in Nat
BY FS_CardinalityType DEF Total

\* The attempts that were sent.
SentOf(s) == {i \in DOMAIN s : s[i].sent}

LEMMA SentIsFinite ==
    ASSUME NEW s \in Seq(Attempts)
    PROVE  /\ Len(s) \in Nat /\ IsFiniteSet(SentOf(s)) /\ Cardinality(SentOf(s)) \in Nat
<1>1. Len(s) \in Nat /\ DOMAIN s = 1 .. Len(s)
  OBVIOUS
<1>2. IsFiniteSet(1 .. Len(s)) /\ SentOf(s) \in SUBSET (1 .. Len(s))
  BY <1>1, FS_Interval DEF SentOf
<1>3. IsFiniteSet(SentOf(s))
  BY <1>2, FS_Subset
<1> QED
  BY <1>1, <1>3, FS_CardinalityType

LEMMA CountTypes ==
    ASSUME LoopTypes
    PROVE  /\ Handed \in [Packets -> Nat] /\ Sent \in [Packets -> Nat]
           /\ InBursts \in [Lcores -> Nat] /\ my_cnt \in [Lcores -> Nat]
<1>1. \A m \in Packets : fate[m] \in Seq(Attempts)
  BY DEF LoopTypes
<1>2. \A m \in Packets : Len(fate[m]) \in Nat /\ Cardinality(SentOf(fate[m])) \in Nat
  BY <1>1, SentIsFinite
<1>3. \A c \in Lcores : Len(pkts_burst[c]) \in Nat
  BY DEF LoopTypes
<1>4. my_cnt \in [Lcores -> Nat]
  BY L2fwdAssumption DEF LoopTypes
<1> QED
  BY <1>2, <1>3, <1>4 DEF Handed, Sent, SentOf, InBursts

LEMMA CountStays ==
    ASSUME CountInv, UNCHANGED <<rx, tx, fate, my_cnt, pkts_burst>>
    PROVE  CountInv'
<1>1. Handed' = Handed /\ Sent' = Sent /\ InBursts' = InBursts
  BY DEF Handed, Sent, InBursts
<1> QED
  BY <1>1 DEF CountInv, PacketsAreCounted

(* Another burst of a core changes the number of packets in bursts.          *)
LEMMA BurstCounts ==
    ASSUME LoopTypes, NEW c \in Lcores, NEW burst \in Seq(Packets),
           IsFiniteSet(Units(InBursts)),
           pkts_burst' = [pkts_burst EXCEPT ![c] = burst]
    PROVE  /\ IsFiniteSet(Units(InBursts')) /\ Total(InBursts') \in Nat
           /\ Total(InBursts') + Len(pkts_burst[c]) = Total(InBursts) + Len(burst)
<1>1. InBursts \in [Lcores -> Nat] /\ InBursts[c] = Len(pkts_burst[c])
      /\ Len(burst) \in Nat
  BY CountTypes DEF InBursts
<1>2. InBursts' = [InBursts EXCEPT ![c] = Len(burst)]
  <2>1. \A d \in Lcores : pkts_burst'[d] = IF d = c THEN burst ELSE pkts_burst[d]
    BY DEF LoopTypes
  <2>2. \A d \in Lcores : Len(pkts_burst'[d]) = IF d = c THEN Len(burst) ELSE InBursts[d]
    BY <2>1 DEF InBursts
  <2> QED
    BY <2>2 DEF InBursts
<1>3. /\ Counts(InBursts) /\ Counts(InBursts') /\ DOMAIN InBursts = Lcores
      /\ DOMAIN InBursts' = DOMAIN InBursts /\ InBursts'[c] = Len(burst)
      /\ \A d \in DOMAIN InBursts : d # c => InBursts'[d] = InBursts[d]
  BY <1>1, <1>2 DEF Counts
<1>4. /\ IsFiniteSet(Units(InBursts')) /\ Total(InBursts') \in Nat
      /\ Total(InBursts') + InBursts[c] = Total(InBursts) + InBursts'[c]
  BY <1>3, TotalChanged
<1> QED
  BY <1>1, <1>3, <1>4

LEMMA PollCounts ==
    ASSUME LoopInv, Wired, Apart, CountInv, NEW c \in Enabled, Poll(c)
    PROVE  CountInv'
<1> DEFINE p == rx_port(c)
<1>1. c \in Lcores /\ LoopTypes
  BY L2fwdAssumption DEF LoopInv
<1>2. core[c] = "poll" /\ UNCHANGED <<my_cnt, tx, fate>> /\ p \in Ports
  BY PolledPort DEF Poll
<1> HIDE DEF p
<1>3. PICK burst \in Bursts :
         rx' = [rx EXCEPT ![p] = @ + Len(burst)] /\ Proceed(c, burst)
  BY DEF Poll, p
<1>4. burst \in Seq(Packets) /\ Len(burst) \in Nat
  BY BurstIsNew
<1> DEFINE n == Len(burst)
<1>5. pkts_burst' = [pkts_burst EXCEPT ![c] = burst]
  BY <1>3 DEF Proceed
<1>6. Len(pkts_burst[c]) = 0
  BY <1>1, <1>2 DEF Apart, Holding
<1>7. /\ IsFiniteSet(Units(rx)) /\ IsFiniteSet(Units(tx))
      /\ IsFiniteSet(Units(Handed)) /\ IsFiniteSet(Units(Sent))
      /\ IsFiniteSet(Units(my_cnt)) /\ IsFiniteSet(Units(InBursts))
      /\ Total(rx) = Total(Handed) + Total(my_cnt) + Total(InBursts)
      /\ Total(tx) = Total(Sent)
  BY DEF CountInv, PacketsAreCounted
<1>8. IsFiniteSet(Units(InBursts')) /\ Total(InBursts') \in Nat
      /\ Total(InBursts') + Len(pkts_burst[c]) = Total(InBursts) + n
  BY <1>1, <1>4, <1>5, <1>7, BurstCounts
<1> HIDE DEF n
<1>9. n \in Nat
  BY <1>4 DEF n
<1>10. /\ IsFiniteSet(Units(rx')) /\ Total(rx') \in Nat
       /\ Total(rx') + rx[p] = Total(rx) + (rx[p] + n) /\ rx[p] \in Nat
  <2>1. rx \in [Ports -> Nat] /\ rx[p] \in Nat /\ rx[p] + n \in Nat
    BY <1>1, <1>2, <1>9 DEF LoopTypes
  <2>2. rx' = [rx EXCEPT ![p] = rx[p] + n]
    BY <1>3 DEF n
  <2>3. /\ Counts(rx) /\ Counts(rx') /\ p \in DOMAIN rx
        /\ DOMAIN rx' = DOMAIN rx /\ rx'[p] = rx[p] + n
        /\ \A q \in DOMAIN rx : q # p => rx'[q] = rx[q]
    BY <1>2, <2>1, <2>2 DEF Counts
  <2>4. /\ IsFiniteSet(Units(rx')) /\ Total(rx') \in Nat
        /\ Total(rx') + rx[p] = Total(rx) + rx'[p]
    BY <1>7, <2>3, TotalChanged
  <2> QED
    BY <2>1, <2>3, <2>4
<1>11. /\ Total(rx) \in Nat /\ Total(Handed) \in Nat /\ Total(my_cnt) \in Nat
       /\ Total(InBursts) \in Nat
  BY <1>7, TotalIsNatural
<1>12. Handed' = Handed /\ Sent' = Sent
  BY <1>2 DEF Handed, Sent
<1>13. Total(rx') = Total(Handed) + Total(my_cnt) + Total(InBursts')
  <2>1. Total(InBursts') = Total(InBursts) + n
    BY <1>6, <1>8, <1>9, <1>11
  <2>2. Total(rx') = Total(rx) + n
    BY <1>9, <1>10, <1>11
  <2>3. Total(rx) = Total(Handed) + Total(my_cnt) + Total(InBursts)
    BY <1>7
  <2> QED
    BY <1>9, <1>11, <2>1, <2>2, <2>3
<1> QED
  BY <1>2, <1>7, <1>8, <1>10, <1>12, <1>13 DEF CountInv, PacketsAreCounted

LEMMA StoreCounts ==
    ASSUME LoopInv, CountInv, NEW c \in Enabled, Store(c)
    PROVE  CountInv'
<1> DEFINE old == pkts_burst[c]
           n == my_cnt[c]
<1>1. c \in Lcores /\ LoopTypes
  BY L2fwdAssumption DEF LoopInv
<1>2. UNCHANGED <<rx, tx, fate>>
  BY DEF Store
<1>3. /\ old \in Seq(Packets) /\ old # << >>
      /\ pkts_burst' = [pkts_burst EXCEPT ![c] = Tail(old)]
      /\ my_cnt' = [my_cnt EXCEPT ![c] = n + 1]
  BY StorePlaces
<1>4. /\ Tail(old) \in Seq(Packets) /\ Len(old) \in Nat
      /\ Len(Tail(old)) \in Nat /\ Len(old) = Len(Tail(old)) + 1
  BY <1>3
<1>5. my_cnt \in [Lcores -> Nat] /\ n \in Nat /\ n + 1 \in Nat
  BY <1>1, CountTypes
<1>6. /\ IsFiniteSet(Units(rx)) /\ IsFiniteSet(Units(tx))
      /\ IsFiniteSet(Units(Handed)) /\ IsFiniteSet(Units(Sent))
      /\ IsFiniteSet(Units(my_cnt)) /\ IsFiniteSet(Units(InBursts))
      /\ Total(rx) = Total(Handed) + Total(my_cnt) + Total(InBursts)
      /\ Total(tx) = Total(Sent)
  BY DEF CountInv, PacketsAreCounted
<1>7. IsFiniteSet(Units(InBursts')) /\ Total(InBursts') \in Nat
      /\ Total(InBursts') + Len(old) = Total(InBursts) + Len(Tail(old))
  BY <1>1, <1>3, <1>4, <1>6, BurstCounts
<1>8. /\ IsFiniteSet(Units(my_cnt')) /\ Total(my_cnt') \in Nat
      /\ Total(my_cnt') + n = Total(my_cnt) + (n + 1)
  <2>1. IsFiniteSet(Units(my_cnt))
    BY <1>6
  <2>2. /\ Counts(my_cnt) /\ Counts(my_cnt') /\ c \in DOMAIN my_cnt
        /\ DOMAIN my_cnt' = DOMAIN my_cnt /\ my_cnt'[c] = n + 1
        /\ \A d \in DOMAIN my_cnt : d # c => my_cnt'[d] = my_cnt[d]
    BY <1>1, <1>3, <1>5 DEF Counts
  <2>3. /\ IsFiniteSet(Units(my_cnt')) /\ Total(my_cnt') \in Nat
        /\ Total(my_cnt') + my_cnt[c] = Total(my_cnt) + my_cnt'[c]
    <3> HIDE DEF n
    <3> QED
      BY <2>1, <2>2, TotalChanged
  <2> QED
    BY <2>2, <2>3
<1>9. /\ Total(Handed) \in Nat /\ Total(my_cnt) \in Nat /\ Total(InBursts) \in Nat
  BY <1>6, TotalIsNatural
<1>10. Handed' = Handed /\ Sent' = Sent
  BY <1>2 DEF Handed, Sent
<1> HIDE DEF old, n
<1>11. Total(rx) = Total(Handed) + Total(my_cnt') + Total(InBursts')
  <2>1. Total(InBursts') + 1 = Total(InBursts)
    BY <1>4, <1>7, <1>9
  <2>2. Total(my_cnt') = Total(my_cnt) + 1
    BY <1>5, <1>8, <1>9
  <2>3. Total(rx) = Total(Handed) + Total(my_cnt) + Total(InBursts)
    BY <1>6
  <2> QED
    BY <1>7, <1>9, <2>1, <2>2, <2>3
<1> QED
  BY <1>2, <1>6, <1>7, <1>8, <1>10, <1>11 DEF CountInv, PacketsAreCounted

\* What is handed to the network card: the packets in the first n slots.
FirstSlots(n) == {tx_buffer[i] : i \in 1 .. n}

(* A core that sends has a full buffer of different packets.                 *)
LEMMA BatchIsFull ==
    ASSUME LoopInv, Apart, NEW c \in Enabled, core[c] = "send"
    PROVE  /\ DOMAIN tx_buffer = 1 .. MAX_PKT_BUFFER /\ my_cnt[c] = MAX_PKT_BUFFER
           /\ \A i \in 1 .. MAX_PKT_BUFFER : tx_buffer[i] \in Packets
           /\ \A i, j \in 1 .. MAX_PKT_BUFFER : tx_buffer[i] = tx_buffer[j] => i = j
<1>1. c \in Lcores
  BY L2fwdAssumption
<1>2. /\ my_cnt[c] = MAX_PKT_BUFFER /\ MAX_PKT_BUFFER <= Len(tx_buffer)
      /\ tx_buffer \in Seq(Packets) /\ Len(tx_buffer) <= MAX_PKT_BUFFER
      /\ MAX_PKT_BUFFER \in Nat
  BY <1>1, L2fwdAssumption DEF LoopInv, LoopTypes, CoreIsSound
<1>3. Len(tx_buffer) = MAX_PKT_BUFFER
  BY <1>2
<1>4. DOMAIN tx_buffer = 1 .. MAX_PKT_BUFFER
  BY <1>2, <1>3
<1> QED
  BY <1>2, <1>4 DEF Apart

LEMMA FirstSlotsCount ==
    ASSUME \A i, j \in 1 .. MAX_PKT_BUFFER : tx_buffer[i] = tx_buffer[j] => i = j,
           NEW n \in 0 .. MAX_PKT_BUFFER
    PROVE  IsFiniteSet(FirstSlots(n)) /\ Cardinality(FirstSlots(n)) = n
<1> DEFINE f == [i \in 1 .. n |-> tx_buffer[i]]
<1>1. n \in Nat /\ \A i \in 1 .. n : i \in 1 .. MAX_PKT_BUFFER
  BY L2fwdAssumption
<1>2. f \in [1 .. n -> FirstSlots(n)] /\ \A m \in FirstSlots(n) : \E i \in 1 .. n : f[i] = m
  BY DEF FirstSlots
<1>3. \A i, j \in 1 .. n : f[i] = f[j] => i = j
  BY <1>1
<1> HIDE DEF f
<1>4. f \in Bijection(1 .. n, FirstSlots(n))
  BY <1>2, <1>3 DEF Bijection, Injection, Surjection, IsInjective
<1>5. ExistsBijection(1 .. n, FirstSlots(n))
  BY <1>4 DEF ExistsBijection
<1>6. IsFiniteSet(1 .. n) /\ Cardinality(1 .. n) = IF 1 > n THEN 0 ELSE n - 1 + 1
  BY <1>1, FS_Interval
<1>7. Cardinality(1 .. n) = n
  BY <1>1, <1>6
<1> QED
  BY <1>5, <1>6, <1>7, FS_Bijection

\* What a packet in a slot is handed to the card as.
Attempt(c, i, sent) == [port |-> rx_port(c), addr |-> addr[tx_buffer[i]], sent |-> i <= sent]

(* Sending hands every packet of the buffer over once, the first of them     *)
(* are sent.                                                                 *)
LEMMA SendHands ==
    ASSUME LoopInv, Wired, Apart, NEW c \in Enabled, NEW report, Send(c, report)
    PROVE  \E sent \in 0 .. MAX_PKT_BUFFER :
              /\ tx' = [tx EXCEPT ![rx_port(c)] = @ + sent]
              /\ my_cnt' = [my_cnt EXCEPT ![c] = 0]
              /\ DOMAIN fate' = Packets
              /\ \A m \in Packets \ FirstSlots(MAX_PKT_BUFFER) : fate'[m] = fate[m]
              /\ \A i \in 1 .. MAX_PKT_BUFFER :
                    fate'[tx_buffer[i]] = Append(fate[tx_buffer[i]], Attempt(c, i, sent))
<1> DEFINE n == MAX_PKT_BUFFER
           at(m) == {i \in 1 .. n : tx_buffer[i] = m}
<1>1. PICK sent \in 0 .. n :
        /\ fate' = [m \in Packets |->
                      IF at(m) = {} THEN fate[m]
                      ELSE Append(fate[m], [port |-> TxPort(c), addr |-> addr[m],
                                            sent |-> Min(at(m)) <= sent])]
        /\ tx' = [tx EXCEPT ![rx_port(c)] = @ + Counted(sent)]
        /\ my_cnt' = [my_cnt EXCEPT ![c] = Left(sent)]
  BY DEF Send
<1>2. core[c] = "send"
  BY DEF Send
<1>3. /\ \A i \in 1 .. n : tx_buffer[i] \in Packets
      /\ \A i, j \in 1 .. n : tx_buffer[i] = tx_buffer[j] => i = j
  BY <1>2, BatchIsFull
<1>4. ASSUME NEW m \in Packets \ FirstSlots(n)
      PROVE  fate'[m] = fate[m]
  <2>1. at(m) = {}
    BY <1>4 DEF FirstSlots
  <2> QED
    BY <1>1, <2>1
<1>5. ASSUME NEW i \in 1 .. n
      PROVE  fate'[tx_buffer[i]] = Append(fate[tx_buffer[i]], Attempt(c, i, sent))
  <2> DEFINE m == tx_buffer[i]
  <2>1. m \in Packets /\ at(m) = {i} /\ i \in Nat
    BY <1>3, <1>5
  <2>2. Min(at(m)) = i
    <3>1. at(m) \subseteq Nat /\ at(m) # {}
      BY <2>1
    <3> HIDE DEF at
    <3>2. Min(at(m)) \in at(m)
      BY <3>1, LeastPort
    <3> QED
      BY <2>1, <3>2
  <2> HIDE DEF at
  <2> QED
    BY <1>1, <2>1, <2>2 DEF Attempt, TxPort
<1>6. /\ tx' = [tx EXCEPT ![rx_port(c)] = @ + sent]
      /\ my_cnt' = [my_cnt EXCEPT ![c] = 0]
      /\ DOMAIN fate' = Packets
  BY <1>1 DEF Counted, Left
<1> QED
  BY <1>4, <1>5, <1>6

LEMMA SentAppended ==
    ASSUME NEW s \in Seq(Attempts), NEW e \in Attempts
    PROVE  /\ IsFiniteSet(SentOf(s)) /\ Cardinality(SentOf(s)) \in Nat
           /\ Cardinality(SentOf(Append(s, e)))
                = IF e.sent THEN Cardinality(SentOf(s)) + 1 ELSE Cardinality(SentOf(s))
<1> DEFINE t == Append(s, e)
           new == Len(s) + 1
<1>1. Len(s) \in Nat /\ DOMAIN s = 1 .. Len(s) /\ DOMAIN t = 1 .. new
      /\ t[new] = e /\ \A i \in 1 .. Len(s) : t[i] = s[i]
  OBVIOUS
<1>2. SentOf(t) = IF e.sent THEN SentOf(s) \cup {new} ELSE SentOf(s)
  <2>1. DOMAIN t = DOMAIN s \cup {new} /\ new \notin DOMAIN s
    BY <1>1
  <2> HIDE DEF t, new
  <2>2. \A i \in DOMAIN s : t[i].sent = s[i].sent
    BY <1>1
  <2>3. t[new].sent = e.sent
    BY <1>1
  <2>4. ASSUME NEW i
        PROVE  i \in SentOf(t) <=> i \in SentOf(s) \/ (i = new /\ e.sent)
    <3>1. i \in SentOf(t) <=> (i \in DOMAIN s \/ i = new) /\ t[i].sent
      BY <2>1 DEF SentOf
    <3>2. i \in SentOf(s) <=> i \in DOMAIN s /\ s[i].sent
      BY DEF SentOf
    <3>3. CASE i \in DOMAIN s
      BY <2>1, <2>2, <3>1, <3>2, <3>3
    <3>4. CASE i = new
      BY <2>1, <2>3, <3>1, <3>2, <3>4
    <3> QED
      BY <3>1, <3>2, <3>3, <3>4
  <2> QED
    BY <2>4
<1>3. new \notin SentOf(s)
  BY <1>1 DEF SentOf
<1>4. IsFiniteSet(SentOf(s)) /\ Cardinality(SentOf(s)) \in Nat
  BY SentIsFinite
<1> HIDE DEF t, new
<1>5. Cardinality(SentOf(s) \cup {new}) = Cardinality(SentOf(s)) + 1
  BY <1>3, <1>4, FS_AddElement
<1> QED
  BY <1>2, <1>4, <1>5 DEF t

LEMMA SendCounts ==
    ASSUME LoopInv, LoopInv', Wired, Apart, CountInv,
           NEW c \in Enabled, NEW report, Send(c, report)
    PROVE  CountInv'
<1> DEFINE n == MAX_PKT_BUFFER
           p == rx_port(c)
<1>1. /\ c \in Lcores /\ LoopTypes /\ core[c] = "send" /\ rx' = rx
      /\ n \in Nat /\ InBursts' = InBursts
  <2>1. pkts_burst' = pkts_burst
    BY SendKeepsApart
  <2> QED
    BY <2>1, L2fwdAssumption DEF LoopInv, Send, InBursts
<1>2. /\ my_cnt[c] = n
      /\ \A i \in 1 .. n : tx_buffer[i] \in Packets
      /\ \A i, j \in 1 .. n : tx_buffer[i] = tx_buffer[j] => i = j
  BY <1>1, BatchIsFull
<1>3. PICK sent \in 0 .. n :
        /\ tx' = [tx EXCEPT ![p] = @ + sent]
        /\ my_cnt' = [my_cnt EXCEPT ![c] = 0]
        /\ DOMAIN fate' = Packets
        /\ \A m \in Packets \ FirstSlots(n) : fate'[m] = fate[m]
        /\ \A i \in 1 .. n :
              fate'[tx_buffer[i]] = Append(fate[tx_buffer[i]], Attempt(c, i, sent))
  BY SendHands
<1>4. p \in Ports
  BY <1>1, PolledPort
<1> HIDE DEF n, p
<1>5. sent \in Nat /\ 0 \in Nat /\ n \in Nat /\ n \in 0 .. n
  BY <1>1
<1>6. /\ IsFiniteSet(Units(rx)) /\ IsFiniteSet(Units(tx))
      /\ IsFiniteSet(Units(Handed)) /\ IsFiniteSet(Units(Sent))
      /\ IsFiniteSet(Units(my_cnt)) /\ IsFiniteSet(Units(InBursts))
      /\ Total(rx) = Total(Handed) + Total(my_cnt) + Total(InBursts)
      /\ Total(tx) = Total(Sent)
  BY DEF CountInv, PacketsAreCounted
<1>7. /\ IsFiniteSet(FirstSlots(n)) /\ Cardinality(FirstSlots(n)) = n
      /\ IsFiniteSet(FirstSlots(sent)) /\ Cardinality(FirstSlots(sent)) = sent
      /\ FirstSlots(n) \subseteq Packets /\ FirstSlots(sent) \subseteq FirstSlots(n)
  <2>1. /\ IsFiniteSet(FirstSlots(n)) /\ Cardinality(FirstSlots(n)) = n
        /\ IsFiniteSet(FirstSlots(sent)) /\ Cardinality(FirstSlots(sent)) = sent
    BY <1>2, <1>5, FirstSlotsCount DEF n
  <2>2. 1 .. sent \subseteq 1 .. n
    BY <1>5
  <2> QED
    BY <1>2, <2>1, <2>2 DEF FirstSlots
<1>8. ASSUME NEW i \in 1 .. n
      PROVE  LET m == tx_buffer[i]
             IN  /\ m \in Packets /\ fate[m] \in Seq(Attempts)
                 /\ Attempt(c, i, sent) \in Attempts
                 /\ Attempt(c, i, sent).sent <=> m \in FirstSlots(sent)
  <2> DEFINE m == tx_buffer[i]
  <2>1. m \in Packets
    BY <1>2
  <2>2. fate[m] \in Seq(Attempts) /\ addr[m] \in Ports \cup {NB_PORTS}
    BY <1>1, <2>1 DEF LoopTypes
  <2>3. (i <= sent) \in BOOLEAN
    OBVIOUS
  <2>4. Attempt(c, i, sent) \in Attempts
    BY <1>4, <2>2, <2>3 DEF Attempt, Attempts, p
  <2>5. i <= sent <=> m \in FirstSlots(sent)
    <3>1. ASSUME i <= sent
          PROVE  m \in FirstSlots(sent)
      BY <1>5, <3>1 DEF FirstSlots
    <3>2. ASSUME m \in FirstSlots(sent)
          PROVE  i <= sent
      <4>1. PICK j \in 1 .. sent : tx_buffer[j] = tx_buffer[i]
        BY <3>2 DEF FirstSlots
      <4>2. j \in 1 .. n
        BY <1>5
      <4>3. j = i
        BY <1>2, <4>1, <4>2
      <4> QED
        BY <1>5, <4>1, <4>3
    <3> QED
      BY <3>1, <3>2
  <2> QED
    BY <2>1, <2>2, <2>4, <2>5 DEF Attempt
<1>9. \A m \in Packets : fate[m] \in Seq(Attempts) /\ fate'[m] \in Seq(Attempts)
  BY DEF LoopInv, LoopTypes
<1>10. /\ Counts(Handed) /\ Counts(Sent) /\ Counts(Handed') /\ Counts(Sent')
       /\ DOMAIN Handed = Packets /\ DOMAIN Sent = Packets
       /\ DOMAIN Handed' = DOMAIN Handed /\ DOMAIN Sent' = DOMAIN Sent
  <2>1. \A s \in Seq(Attempts) : Len(s) \in Nat /\ Cardinality(SentOf(s)) \in Nat
    BY SentIsFinite
  <2> QED
    BY <1>9, <2>1 DEF Counts, Handed, Sent, SentOf
<1>11. ASSUME NEW m \in DOMAIN Handed
       PROVE  Handed'[m] = IF m \in FirstSlots(n) THEN Handed[m] + 1 ELSE Handed[m]
  <2>1. m \in Packets /\ Handed[m] = Len(fate[m]) /\ Handed'[m] = Len(fate'[m])
    BY <1>10 DEF Handed
  <2>2. CASE m \in FirstSlots(n)
    <3>1. PICK i \in 1 .. n : m = tx_buffer[i]
      BY <2>2 DEF FirstSlots
    <3>2. fate'[m] = Append(fate[m], Attempt(c, i, sent))
      BY <1>3, <3>1
    <3>3. Len(fate'[m]) = Len(fate[m]) + 1
      BY <1>9, <2>1, <3>2
    <3> QED
      BY <2>1, <2>2, <3>3
  <2>3. CASE m \notin FirstSlots(n)
    BY <1>3, <2>1, <2>3
  <2> QED
    BY <2>2, <2>3
<1>12. ASSUME NEW m \in DOMAIN Sent
       PROVE  Sent'[m] = IF m \in FirstSlots(sent) THEN Sent[m] + 1 ELSE Sent[m]
  <2>1. /\ m \in Packets /\ Sent[m] = Cardinality(SentOf(fate[m]))
        /\ Sent'[m] = Cardinality(SentOf(fate'[m]))
    BY <1>10 DEF Sent, SentOf
  <2>2. CASE m \in FirstSlots(n)
    <3>1. PICK i \in 1 .. n : m = tx_buffer[i]
      BY <2>2 DEF FirstSlots
    <3>2. fate'[m] = Append(fate[m], Attempt(c, i, sent))
      BY <1>3, <3>1
    <3>3. /\ fate[m] \in Seq(Attempts) /\ Attempt(c, i, sent) \in Attempts
          /\ Attempt(c, i, sent).sent <=> m \in FirstSlots(sent)
      BY <1>8, <3>1
    <3>4. Cardinality(SentOf(Append(fate[m], Attempt(c, i, sent))))
            = IF Attempt(c, i, sent).sent THEN Cardinality(SentOf(fate[m])) + 1
                                          ELSE Cardinality(SentOf(fate[m]))
      BY <3>3, SentAppended
    <3> QED
      BY <2>1, <3>2, <3>3, <3>4
  <2>3. CASE m \notin FirstSlots(n)
    <3>1. fate'[m] = fate[m]
      BY <1>3, <2>1, <2>3
    <3> QED
      BY <1>7, <2>1, <2>3, <3>1
  <2> QED
    BY <2>2, <2>3
<1>13. /\ IsFiniteSet(Units(Handed')) /\ Total(Handed) \in Nat
       /\ Total(Handed') = Total(Handed) + n
  <2>1. FirstSlots(n) \subseteq DOMAIN Handed /\ IsFiniteSet(Units(Handed))
    BY <1>6, <1>7, <1>10
  <2>2. /\ IsFiniteSet(Units(Handed')) /\ Total(Handed) \in Nat
        /\ Total(Handed') = Total(Handed) + Cardinality(FirstSlots(n))
    BY <1>7, <1>10, <1>11, <2>1, TotalRaised
  <2> QED
    BY <1>7, <2>2
<1>14. /\ IsFiniteSet(Units(Sent')) /\ Total(Sent) \in Nat
       /\ Total(Sent') = Total(Sent) + sent
  <2>1. FirstSlots(sent) \subseteq DOMAIN Sent /\ IsFiniteSet(Units(Sent))
    BY <1>6, <1>7, <1>10
  <2>2. /\ IsFiniteSet(Units(Sent')) /\ Total(Sent) \in Nat
        /\ Total(Sent') = Total(Sent) + Cardinality(FirstSlots(sent))
    BY <1>7, <1>10, <1>12, <2>1, TotalRaised
  <2> QED
    BY <1>7, <2>2
<1>15. /\ IsFiniteSet(Units(my_cnt')) /\ Total(my_cnt) \in Nat /\ Total(my_cnt') \in Nat
       /\ Total(my_cnt') + n = Total(my_cnt)
  <2>1. my_cnt \in [Lcores -> Nat]
    BY <1>1, CountTypes
  <2>2. /\ Counts(my_cnt) /\ Counts(my_cnt') /\ c \in DOMAIN my_cnt
        /\ DOMAIN my_cnt' = DOMAIN my_cnt /\ my_cnt'[c] = 0
        /\ \A d \in DOMAIN my_cnt : d # c => my_cnt'[d] = my_cnt[d]
    BY <1>1, <1>3, <2>1 DEF Counts
  <2>3. IsFiniteSet(Units(my_cnt))
    BY <1>6
  <2>4. /\ IsFiniteSet(Units(my_cnt')) /\ Total(my_cnt) \in Nat /\ Total(my_cnt') \in Nat
        /\ Total(my_cnt') + my_cnt[c] = Total(my_cnt) + my_cnt'[c]
    BY <2>2, <2>3, TotalChanged
  <2> QED
    BY <1>2, <2>2, <2>4
<1>16. /\ IsFiniteSet(Units(tx')) /\ Total(tx') = Total(tx) + sent
  <2>1. tx \in [Ports -> Nat] /\ tx[p] \in Nat /\ tx[p] + sent \in Nat
    BY <1>1, <1>4, <1>5 DEF LoopTypes
  <2>2. /\ Counts(tx) /\ Counts(tx') /\ p \in DOMAIN tx
        /\ DOMAIN tx' = DOMAIN tx /\ tx'[p] = tx[p] + sent
        /\ \A q \in DOMAIN tx : q # p => tx'[q] = tx[q]
    BY <1>3, <1>4, <2>1 DEF Counts
  <2>3. IsFiniteSet(Units(tx))
    BY <1>6
  <2>4. /\ IsFiniteSet(Units(tx')) /\ Total(tx) \in Nat /\ Total(tx') \in Nat
        /\ Total(tx') + tx[p] = Total(tx) + tx'[p]
    BY <2>2, <2>3, TotalChanged
  <2> QED
    BY <1>5, <2>1, <2>2, <2>4
<1>17. Total(rx) = Total(Handed') + Total(my_cnt') + Total(InBursts)
  <2>1. Total(rx) = Total(Handed) + Total(my_cnt) + Total(InBursts)
    BY <1>6
  <2>2. Total(InBursts) \in Nat
    BY <1>6, TotalIsNatural
  <2> QED
    BY <1>5, <1>13, <1>15, <2>1, <2>2
<1>18. Total(tx') = Total(Sent')
  BY <1>6, <1>14, <1>16
<1> QED
  BY <1>1, <1>6, <1>13, <1>14, <1>15, <1>16, <1>17, <1>18 DEF CountInv, PacketsAreCounted

-----------------------------------------------------------------------------
(* The only core that polls *)

(* A step that leaves the packets where they are.                            *)
LEMMA HeldStays ==
    ASSUME NEW c, HeldOnce(c), UNCHANGED <<pkts_burst, tx_buffer, my_cnt, fate, arrived>>
    PROVE  HeldOnce(c)'
BY DEF HeldOnce, InBurst, InSlot

LEMMA PollHolds ==
    ASSUME LoopInv, Apart, NEW c \in Enabled, HeldOnce(c), Poll(c)
    PROVE  HeldOnce(c)'
<1>1. c \in Lcores
  BY L2fwdAssumption
<1>2. core[c] = "poll" /\ UNCHANGED <<tx_buffer, my_cnt, fate>>
  BY DEF Poll
<1>3. PICK burst \in Bursts : arrived' = arrived \cup Range(burst) /\ Proceed(c, burst)
  BY DEF Poll
<1>4. /\ burst \in Seq(Packets) /\ \A i \in DOMAIN burst : burst[i] \notin arrived
  BY BurstIsNew
<1>5. pkts_burst'[c] = burst
  BY <1>1, <1>3, <1>4, ProceedGoesOn DEF LoopInv, Proceeded
<1>6. Range(burst) = {burst[i] : i \in DOMAIN burst}
  BY DEF Range
<1>7. \A m : ~ InBurst(c, m)
  <2>1. pkts_burst[c] = << >>
    BY <1>1, <1>2 DEF Apart, Holding
  <2> QED
    BY <2>1 DEF InBurst
<1>8. \A m : InBurst(c, m)' <=> m \in Range(burst)
  BY <1>5, <1>6 DEF InBurst
<1>9. \A m : InSlot(c, m)' <=> InSlot(c, m)
  BY <1>2 DEF InSlot
<1>10. \A m : InSlot(c, m) => m \in arrived
  <2>1. CoreIsSound(c) /\ tx_buffer \in Seq(Packets) /\ my_cnt[c] \in Nat
    BY <1>1, L2fwdAssumption DEF LoopInv, LoopTypes
  <2>2. 1 .. my_cnt[c] \subseteq DOMAIN tx_buffer
    BY <2>1 DEF CoreIsSound
  <2> QED
    BY <2>2 DEF InSlot, Apart
<1>11. ASSUME NEW m \in arrived'
       PROVE  \/ InBurst(c, m)' /\ ~ InSlot(c, m)' /\ fate'[m] = << >>
              \/ ~ InBurst(c, m)' /\ InSlot(c, m)' /\ fate'[m] = << >>
              \/ ~ InBurst(c, m)' /\ ~ InSlot(c, m)' /\ Len(fate'[m]) = 1
  <2>1. CASE m \in Range(burst)
    <3>1. m \notin arrived /\ m \in Packets
      BY <1>4, <1>6, <2>1
    <3>2. fate[m] = << >> /\ ~ InSlot(c, m)
      BY <1>10, <3>1 DEF HeldOnce
    <3> QED
      BY <1>2, <1>8, <1>9, <2>1, <3>2
  <2>2. CASE m \notin Range(burst)
    <3>1. m \in arrived
      BY <1>3, <1>11, <2>2
    <3>2. \/ InSlot(c, m) /\ fate[m] = << >>
          \/ ~ InSlot(c, m) /\ Len(fate[m]) = 1
      BY <1>7, <3>1 DEF HeldOnce
    <3> QED
      BY <1>2, <1>8, <1>9, <2>2, <3>2
  <2> QED
    BY <2>1, <2>2
<1>12. \A m \in Packets \ arrived' : fate'[m] = << >>
  BY <1>2, <1>3 DEF HeldOnce
<1> QED
  BY <1>11, <1>12 DEF HeldOnce

LEMMA StoreHolds ==
    ASSUME LoopInv, Apart, NEW c \in Enabled, HeldOnce(c), Store(c)
    PROVE  HeldOnce(c)'
<1> DEFINE n == my_cnt[c]
           old == pkts_burst[c]
           first == Head(old)
           rest == Tail(old)
<1>1. c \in Lcores /\ CoreIsSound(c) /\ LoopTypes
  BY L2fwdAssumption DEF LoopInv
<1>2. UNCHANGED <<fate, arrived>>
  BY DEF Store
<1>3. /\ old \in Seq(Packets) /\ old # << >>
      /\ pkts_burst' = [pkts_burst EXCEPT ![c] = rest]
      /\ my_cnt' = [my_cnt EXCEPT ![c] = n + 1]
      /\ n + 1 \in DOMAIN tx_buffer'
      /\ DOMAIN tx_buffer \subseteq DOMAIN tx_buffer'
      /\ Placed(n + 1, first)
  BY StorePlaces
<1>4. /\ n \in Nat /\ 1 .. n \subseteq DOMAIN tx_buffer
  <2>1. n \in Nat /\ n <= Len(tx_buffer) /\ tx_buffer \in Seq(Packets)
    BY <1>1, L2fwdAssumption DEF LoopTypes, CoreIsSound
  <2> QED
    BY <2>1
<1>5. pkts_burst'[c] = rest /\ my_cnt'[c] = n + 1
  BY <1>1, <1>3 DEF LoopTypes
<1>6. /\ 1 \in DOMAIN old /\ first = old[1]
      /\ \A i \in DOMAIN rest : i + 1 \in DOMAIN old /\ rest[i] = old[i + 1] /\ i + 1 # 1
      /\ \A i \in DOMAIN old : i # 1 => i - 1 \in DOMAIN rest /\ rest[i - 1] = old[i]
  BY <1>3
<1>7. \A i, j \in DOMAIN old : old[i] = old[j] => i = j
  BY <1>1 DEF Apart
<1>8. ~ InSlot(c, first)
  BY <1>1, <1>4, <1>6 DEF Apart, InSlot
<1> HIDE DEF n, old, first, rest
<1>9. \A m : InBurst(c, m)' <=> InBurst(c, m) /\ m # first
  <2> TAKE m
  <2>1. InBurst(c, m)' <=> \E i \in DOMAIN rest : rest[i] = m
    BY <1>5 DEF InBurst
  <2>2. InBurst(c, m) <=> \E i \in DOMAIN old : old[i] = m
    BY DEF InBurst, old
  <2>3. ASSUME NEW i \in DOMAIN rest, rest[i] = m
        PROVE  m # first /\ \E j \in DOMAIN old : old[j] = m
    BY <1>6, <1>7, <2>3
  <2>4. ASSUME NEW i \in DOMAIN old, old[i] = m, m # first
        PROVE  \E j \in DOMAIN rest : rest[j] = m
    <3>1. i # 1
      BY <1>6, <2>4
    <3> QED
      BY <1>6, <2>4, <3>1
  <2> QED
    BY <2>1, <2>2, <2>3, <2>4
<1>10. \A m : InSlot(c, m)' <=> InSlot(c, m) \/ m = first
  <2>1. \A i \in 1 .. n + 1 : i \in DOMAIN tx_buffer' /\ (i = n + 1 \/ i \in 1 .. n)
    BY <1>3, <1>4
  <2>2. tx_buffer'[n + 1] = first /\ \A i \in 1 .. n : tx_buffer'[i] = tx_buffer[i]
    <3>1. \A i \in 1 .. n : i # n + 1 /\ i \in DOMAIN tx_buffer'
      BY <1>3, <1>4
    <3> QED
      BY <1>3, <3>1 DEF Placed
  <2>3. n + 1 \in 1 .. n + 1 /\ 1 .. n \subseteq 1 .. n + 1
    BY <1>4
  <2>4. \A m : InSlot(c, m)' <=> \E i \in 1 .. n + 1 : tx_buffer'[i] = m
    BY <1>5 DEF InSlot
  <2>5. \A m : InSlot(c, m) <=> \E i \in 1 .. n : tx_buffer[i] = m
    BY DEF InSlot, n
  <2> QED
    BY <2>1, <2>2, <2>3, <2>4, <2>5
<1>11. InBurst(c, first)
  BY <1>6 DEF InBurst, old
<1>12. \A m \in arrived' :
          \/ InBurst(c, m)' /\ ~ InSlot(c, m)' /\ fate'[m] = << >>
          \/ ~ InBurst(c, m)' /\ InSlot(c, m)' /\ fate'[m] = << >>
          \/ ~ InBurst(c, m)' /\ ~ InSlot(c, m)' /\ Len(fate'[m]) = 1
  <2> TAKE m \in arrived'
  <2>1. /\ \/ InBurst(c, m) /\ ~ InSlot(c, m) /\ fate[m] = << >>
           \/ ~ InBurst(c, m) /\ InSlot(c, m) /\ fate[m] = << >>
           \/ ~ InBurst(c, m) /\ ~ InSlot(c, m) /\ Len(fate[m]) = 1
        /\ fate'[m] = fate[m]
    BY <1>2 DEF HeldOnce
  <2>2. CASE m = first
    BY <1>8, <1>9, <1>10, <1>11, <2>1, <2>2
  <2>3. CASE m # first
    BY <1>9, <1>10, <2>1, <2>3
  <2> QED
    BY <2>2, <2>3
<1>13. \A m \in Packets \ arrived' : fate'[m] = << >>
  BY <1>2 DEF HeldOnce
<1> QED
  BY <1>12, <1>13 DEF HeldOnce

LEMMA SendHolds ==
    ASSUME LoopInv, Wired, Apart, NEW c \in Enabled, HeldOnce(c), NEW r, Send(c, r)
    PROVE  HeldOnce(c)'
<1> DEFINE n == MAX_PKT_BUFFER
<1>1. /\ c \in Lcores /\ core[c] = "send" /\ arrived' = arrived /\ tx_buffer' = tx_buffer
      /\ my_cnt \in [Lcores -> 0 .. n] /\ fate \in [Packets -> Seq(Attempts)]
      /\ arrived \subseteq Packets
  BY L2fwdAssumption DEF Send, LoopInv, LoopTypes
<1>2. my_cnt[c] = n /\ DOMAIN tx_buffer = 1 .. n
  BY <1>1, BatchIsFull
<1>3. pkts_burst' = pkts_burst
  BY SendKeepsApart
<1>4. PICK sent \in 0 .. n :
        /\ my_cnt' = [my_cnt EXCEPT ![c] = 0]
        /\ \A m \in Packets \ FirstSlots(n) : fate'[m] = fate[m]
        /\ \A i \in 1 .. n :
              fate'[tx_buffer[i]] = Append(fate[tx_buffer[i]], Attempt(c, i, sent))
  BY SendHands
<1>5. my_cnt'[c] = 0
  BY <1>1, <1>4
<1> HIDE DEF n
<1>6. \A m : InSlot(c, m) <=> m \in FirstSlots(n)
  BY <1>2 DEF InSlot, FirstSlots
<1>7. \A m : ~ InSlot(c, m)'
  <2>1. 1 .. my_cnt'[c] = {}
    BY <1>5
  <2> QED
    BY <2>1 DEF InSlot
<1>8. \A m : InBurst(c, m)' <=> InBurst(c, m)
  BY <1>3 DEF InBurst
<1>9. ASSUME NEW m \in Packets, InSlot(c, m), fate[m] = << >>
      PROVE  Len(fate'[m]) = 1
  <2>1. PICK i \in 1 .. n : m = tx_buffer[i]
    BY <1>6, <1>9 DEF FirstSlots
  <2>2. fate'[m] = Append(<< >>, Attempt(c, i, sent))
    BY <1>4, <1>9, <2>1
  <2> QED
    BY <2>2
<1>10. \A m \in arrived' :
          \/ InBurst(c, m)' /\ ~ InSlot(c, m)' /\ fate'[m] = << >>
          \/ ~ InBurst(c, m)' /\ InSlot(c, m)' /\ fate'[m] = << >>
          \/ ~ InBurst(c, m)' /\ ~ InSlot(c, m)' /\ Len(fate'[m]) = 1
  <2> TAKE m \in arrived'
  <2>1. m \in arrived /\ m \in Packets
    BY <1>1
  <2>2. \/ InBurst(c, m) /\ ~ InSlot(c, m) /\ fate[m] = << >>
        \/ ~ InBurst(c, m) /\ InSlot(c, m) /\ fate[m] = << >>
        \/ ~ InBurst(c, m) /\ ~ InSlot(c, m) /\ Len(fate[m]) = 1
    BY <2>1 DEF HeldOnce
  <2>3. CASE InSlot(c, m)
    BY <1>7, <1>8, <1>9, <2>1, <2>2, <2>3
  <2>4. CASE ~ InSlot(c, m)
    <3>1. fate'[m] = fate[m]
      BY <1>4, <1>6, <2>1, <2>4
    <3> QED
      BY <1>7, <1>8, <2>2, <2>4, <3>1
  <2> QED
    BY <2>3, <2>4
<1>11. \A m \in Packets \ arrived' : fate'[m] = << >>
  <2>1. \A i \in 1 .. n : tx_buffer[i] \in arrived
    BY <1>2 DEF Apart
  <2> QED
    BY <1>1, <1>4, <2>1 DEF HeldOnce, FirstSlots
<1> QED
  BY <1>10, <1>11 DEF HeldOnce

(* Where a core is after each step of its loop.                              *)
LEMMA ReceiveLeads ==
    ASSUME LoopInv, NEW c \in Enabled, Top(c) \/ Poll(c) \/ Store(c)
    PROVE  /\ core'[c] # "send" /\ UNCHANGED <<addr, fate, reported>>
           /\ core'[c] = "forward" => k'[c] = 0
<1>1. c \in Lcores /\ LoopTypes
  BY L2fwdAssumption DEF LoopInv
<1>2. CASE Top(c)
  <2>1. core'[c] \in {"done", "poll"}
    BY <1>1, <1>2 DEF Top, LoopTypes
  <2> QED
    BY <1>2, <2>1 DEF Top
<1>3. CASE Poll(c)
  <2>1. PICK burst \in Bursts : Proceed(c, burst)
    BY <1>3 DEF Poll
  <2>2. burst \in Seq(Packets)
    BY BurstIsNew
  <2>3. core'[c] \in {"store", "poll", "top"}
    BY <1>1, <2>1, <2>2, ProceedGoesOn DEF Proceeded
  <2> QED
    BY <1>3, <2>3 DEF Poll
<1>4. CASE Store(c)
  <2>1. UNCHANGED <<addr, fate, reported>>
    BY <1>4 DEF Store
  <2>2. CASE my_cnt'[c] = MAX_PKT_BUFFER
    <3>1. core' = [core EXCEPT ![c] = "forward"] /\ k' = [k EXCEPT ![c] = 0]
      BY <1>4, <2>2 DEF Store
    <3> QED
      BY <1>1, <2>1, <3>1 DEF LoopTypes
  <2>3. CASE my_cnt'[c] # MAX_PKT_BUFFER
    <3>1. Proceed(c, Tail(pkts_burst[c]))
      BY <1>4, <2>3 DEF Store
    <3>2. Tail(pkts_burst[c]) \in Seq(Packets)
      <4>1. pkts_burst[c] \in Seq(Packets) /\ pkts_burst[c] # << >>
        BY <1>4, StorePlaces
      <4> QED
        BY <4>1
    <3>3. core'[c] \in {"store", "poll", "top"}
      BY <1>1, <3>1, <3>2, ProceedGoesOn DEF Proceeded
    <3> QED
      BY <2>1, <3>3
  <2> QED
    BY <2>2, <2>3
<1> QED
  BY <1>2, <1>3, <1>4

LEMMA EarlierKeeps ==
    ASSUME LoopInv, NEW c \in Enabled, Addressed(c), Noticed(c),
           Top(c) \/ Poll(c) \/ Store(c),
           UNCHANGED l2fwd_dst_ports
    PROVE  Addressed(c)' /\ Noticed(c)'
<1>1. /\ core'[c] # "send" /\ UNCHANGED <<addr, fate, reported>>
      /\ core'[c] = "forward" => k'[c] = 0
  BY ReceiveLeads
<1>2. core'[c] = "forward" => 1 .. k'[c] = {}
  BY <1>1
<1>3. Addressed(c)'
  BY <1>1, <1>2 DEF Addressed
<1>4. Noticed(c)'
  BY <1>1 DEF Noticed
<1> QED
  BY <1>3, <1>4

(* What the step that looks at a packet does.                                *)
LEMMA ForwardLooks ==
    ASSUME LoopInv, NEW c \in Enabled, NEW U, NEW P, Forward(c, U, P)
    PROVE  LET m == tx_buffer[k[c] + 1]
           IN  /\ m \in Packets /\ k[c] \in Nat
               /\ k'[c] = k[c] + 1
               /\ addr'[m] = l2fwd_dst_ports[rx_port(c)]
               /\ \A o \in Packets \ {m} : addr'[o] = addr[o]
               /\ _pass'[c] = (Kind[m] \in P)
               /\ pc' = IF Kind[m] \in U THEN "crash" ELSE pc
               /\ core[c] = "forward"
               /\ core'[c] = IF k[c] + 1 = MAX_PKT_BUFFER THEN "send" ELSE "forward"
               /\ UNCHANGED <<qi, tx_buffer, fate, reported>>
<1> DEFINE n == k[c]
           m == tx_buffer[n + 1]
<1>1. c \in Lcores
  BY L2fwdAssumption
<1>2. CoreIsSound(c) /\ LoopTypes /\ core[c] = "forward"
  BY <1>1 DEF LoopInv, Forward
<1>3. /\ n \in Nat /\ n < MAX_PKT_BUFFER /\ MAX_PKT_BUFFER \in Nat
      /\ MAX_PKT_BUFFER <= Len(tx_buffer) /\ tx_buffer \in Seq(Packets)
  BY <1>1, <1>2, L2fwdAssumption DEF CoreIsSound, LoopTypes
<1>4. m \in Packets
  BY <1>3
<1>5. /\ addr' = [addr EXCEPT ![m] = l2fwd_dst_ports[rx_port(c)]]
      /\ k' = [k EXCEPT ![c] = n + 1]
      /\ _pass' = [_pass EXCEPT ![c] = (Kind[m] \in P)]
      /\ core' = [core EXCEPT ![c] = IF k'[c] = MAX_PKT_BUFFER THEN "send" ELSE @]
      /\ pc' = IF Kind[m] \in U THEN "crash" ELSE pc
      /\ UNCHANGED <<qi, tx_buffer, fate, reported>>
  BY DEF Forward
<1> HIDE DEF m, n
<1>6. k'[c] = n + 1
  BY <1>1, <1>2, <1>5 DEF LoopTypes
<1>7. addr'[m] = l2fwd_dst_ports[rx_port(c)]
      /\ \A o \in Packets \ {m} : addr'[o] = addr[o]
  BY <1>2, <1>4, <1>5 DEF LoopTypes
<1>8. _pass'[c] = (Kind[m] \in P)
  BY <1>1, <1>2, <1>5 DEF LoopTypes
<1>9. core'[c] = IF n + 1 = MAX_PKT_BUFFER THEN "send" ELSE "forward"
  BY <1>1, <1>2, <1>5, <1>6 DEF LoopTypes
<1> QED
  BY <1>2, <1>3, <1>4, <1>5, <1>6, <1>7, <1>8, <1>9 DEF m, n

LEMMA ForwardAddresses ==
    ASSUME LoopInv, NEW c \in Enabled, Addressed(c), NEW U, NEW P, Forward(c, U, P),
           UNCHANGED <<l2fwd_dst_ports, rx_port_list>>
    PROVE  Addressed(c)'
<1> DEFINE n == k[c]
           m == tx_buffer[n + 1]
           to == l2fwd_dst_ports[rx_port(c)]
<1>1. /\ n \in Nat /\ k'[c] = n + 1 /\ core[c] = "forward"
      /\ addr'[m] = to /\ \A o \in Packets \ {m} : addr'[o] = addr[o]
      /\ UNCHANGED <<qi, tx_buffer, fate, reported>>
  BY ForwardLooks
<1>2. l2fwd_dst_ports'[rx_port(c)'] = to
  BY <1>1 DEF rx_port
<1>3. /\ n < MAX_PKT_BUFFER /\ MAX_PKT_BUFFER \in Nat
      /\ MAX_PKT_BUFFER <= Len(tx_buffer) /\ tx_buffer \in Seq(Packets)
  <2>1. c \in Lcores
    BY L2fwdAssumption
  <2> QED
    BY <1>1, <2>1, L2fwdAssumption DEF LoopInv, LoopTypes, CoreIsSound
<1>4. \A i \in 1 .. n : addr[tx_buffer[i]] = to
  BY <1>1 DEF Addressed
<1>5. \A i \in 1 .. n : tx_buffer[i] \in Packets
  BY <1>1, <1>3
<1> HIDE DEF m, to
<1>6. \A i \in 1 .. n + 1 : addr'[tx_buffer'[i]] = to
  <2> TAKE i \in 1 .. n + 1
  <2>1. i = n + 1 \/ i \in 1 .. n
    BY <1>1
  <2>2. CASE i = n + 1
    BY <1>1, <2>2 DEF m
  <2>3. CASE i \in 1 .. n
    BY <1>1, <1>4, <1>5, <2>3
  <2> QED
    BY <2>1, <2>2, <2>3
<1> QED
  BY <1>1, <1>2, <1>6 DEF Addressed

\* The function a program applies, as far as its messages tell.
FunctionIs(U, P) ==
    /\ program = "ids" => P = {"marked"}
    /\ program = "firewall" => P = {"plain"} /\ U = {"arp"}

LEMMA ForwardNotices ==
    ASSUME LoopInv, NEW c \in Enabled, Noticed(c), NEW U, NEW P, Forward(c, U, P),
           pc = "loop", UNCHANGED program, FunctionIs(U, P)
    PROVE  Noticed(c)'
<1> DEFINE n == k[c]
           m == tx_buffer[n + 1]
<1>1. /\ m \in Packets /\ k'[c] = n + 1 /\ tx_buffer' = tx_buffer /\ reported' = reported
      /\ _pass'[c] = (Kind[m] \in P)
      /\ pc' = IF Kind[m] \in U THEN "crash" ELSE pc
      /\ core'[c] = IF n + 1 = MAX_PKT_BUFFER THEN "send" ELSE "forward"
  BY ForwardLooks
<1>2. Kind[m] \in Kinds
  BY <1>1, L2fwdAssumption
<1> HIDE DEF m, n
<1>3. tx_buffer'[k'[c]] = m
  BY <1>1 DEF m
<1>4. core'[c] = "send" => k'[c] = MAX_PKT_BUFFER
  BY <1>1
<1>5. pc' = "loop" /\ program' = "ids" /\ _pass'[c] => Kind[m] = "marked"
  BY <1>1 DEF FunctionIs
<1>6. pc' = "loop" /\ program' = "firewall" /\ ~ _pass'[c] => Kind[m] = "marked"
  BY <1>1, <1>2 DEF FunctionIs, Kinds
<1>7. \A b \in reported' : \E o \in b : Kind[o] = "marked"
  BY <1>1 DEF Noticed
<1> QED
  BY <1>3, <1>4, <1>5, <1>6, <1>7 DEF Noticed

LEMMA SendAddresses ==
    ASSUME LoopInv, Wired, Apart, NEW c \in Enabled, Addressed(c), Noticed(c),
           NEW r, Send(c, r), UNCHANGED l2fwd_dst_ports
    PROVE  Addressed(c)' /\ core'[c] \notin {"forward", "send"}
<1> DEFINE n == MAX_PKT_BUFFER
           to == l2fwd_dst_ports[rx_port(c)]
<1>1. /\ c \in Lcores /\ core[c] = "send" /\ k[c] = n /\ LoopTypes
  BY L2fwdAssumption DEF Send, LoopInv, Noticed
<1>2. core'[c] \in {"store", "poll", "top"}
  <2>1. Proceed(c, pkts_burst[c]) /\ pkts_burst[c] \in Seq(Packets)
    BY <1>1 DEF Send, LoopTypes
  <2> QED
    BY <1>1, <2>1, ProceedGoesOn DEF Proceeded
<1>3. \A i \in 1 .. n : tx_buffer[i] \in Packets
  BY <1>1, BatchIsFull
<1>4. PICK sent \in 0 .. n :
        /\ \A m \in Packets \ FirstSlots(n) : fate'[m] = fate[m]
        /\ \A i \in 1 .. n :
              fate'[tx_buffer[i]] = Append(fate[tx_buffer[i]], Attempt(c, i, sent))
  BY SendHands
<1>5. \A i \in 1 .. n : addr[tx_buffer[i]] = to
  BY <1>1 DEF Addressed
<1>6. \A i \in 1 .. n : /\ Attempt(c, i, sent).addr = to
                        /\ Attempt(c, i, sent).port = rx_port(c)
  BY <1>5 DEF Attempt
<1>7. \A m \in Packets : fate[m] \in Seq(Attempts)
  BY <1>1 DEF LoopTypes
<1>8. \A m \in Packets : \A i \in DOMAIN fate[m] :
         fate[m][i].addr = l2fwd_dst_ports[fate[m][i].port]
  BY DEF Addressed
<1> HIDE DEF n
<1>9. ASSUME NEW m \in Packets, NEW i \in DOMAIN fate'[m]
      PROVE  fate'[m][i].addr = l2fwd_dst_ports[fate'[m][i].port]
  <2>1. CASE m \notin FirstSlots(n)
    BY <1>4, <1>8, <1>9, <2>1
  <2>2. CASE m \in FirstSlots(n)
    <3>1. PICK j \in 1 .. n : m = tx_buffer[j]
      BY <2>2 DEF FirstSlots
    <3> DEFINE e == Attempt(c, j, sent)
               s == fate[m]
    <3>2. fate'[m] = Append(s, e) /\ s \in Seq(Attempts)
      BY <1>4, <1>7, <3>1
    <3>3. e.addr = to /\ e.port = rx_port(c)
      BY <1>6
    <3> HIDE DEF e, s
    <3>4. \/ i \in DOMAIN s /\ fate'[m][i] = s[i]
          \/ fate'[m][i] = e
      BY <1>9, <3>2
    <3> QED
      BY <1>8, <3>3, <3>4 DEF s
  <2> QED
    BY <2>1, <2>2
<1> QED
  BY <1>2, <1>9 DEF Addressed

LEMMA SendNotices ==
    ASSUME LoopInv, Wired, Apart, NEW c \in Enabled, Noticed(c),
           NEW r, Send(c, r), pc = "loop", core'[c] \notin {"forward", "send"},
           r => \/ program = "ids" /\ _pass[c]
                \/ program = "firewall" /\ ~ _pass[c]
    PROVE  Noticed(c)'
<1> DEFINE n == MAX_PKT_BUFFER
           last == tx_buffer[n]
<1>1. core[c] = "send" /\ k[c] = n /\ n \in Nat /\ n > 0
  BY L2fwdAssumption DEF Send, Noticed
<1>2. last \in Range(tx_buffer)
  <2>1. DOMAIN tx_buffer = 1 .. n
    BY <1>1, BatchIsFull
  <2>2. n \in DOMAIN tx_buffer
    BY <1>1, <2>1
  <2> QED
    BY <2>2 DEF Range
<1>3. r => Kind[last] = "marked"
  BY <1>1 DEF Noticed
<1>4. reported' = IF r THEN reported \cup {Range(tx_buffer)} ELSE reported
  BY DEF Send
<1> HIDE DEF last
<1>5. \A b \in reported' : \E o \in b : Kind[o] = "marked"
  BY <1>2, <1>3, <1>4 DEF Noticed
<1> QED
  BY <1>5 DEF Noticed

-----------------------------------------------------------------------------
(* All packets *)

PacketInv == Apart /\ CountInv /\ LoneInv

(* Before the first packet all that is said of the only core holds.          *)
LEMMA LoneBefore ==
    ASSUME Untouched', \A c \in Enabled : core'[c] \notin {"forward", "send"}
    PROVE  LoneInv'
<1>1. /\ arrived' = {} /\ reported' = {}
      /\ \A m \in Packets : fate'[m] = << >> /\ DOMAIN fate'[m] = {}
  BY DEF Untouched
<1>2. ASSUME NEW c \in Enabled
      PROVE  HeldOnce(c)' /\ Addressed(c)' /\ Noticed(c)'
  <2>1. HeldOnce(c)'
    BY <1>1 DEF HeldOnce
  <2>2. Addressed(c)'
    BY <1>1 DEF Addressed
  <2>3. Noticed(c)'
    BY <1>1 DEF Noticed
  <2> QED
    BY <2>1, <2>2, <2>3
<1> QED
  BY <1>2 DEF LoneInv

LEMMA PacketsInit ==
    ASSUME Init
    PROVE  PacketInv
<1> USE DEF Init
<1>1. Apart
  <2>1. \A c \in Lcores : DOMAIN pkts_burst[c] = {} /\ Len(pkts_burst[c]) = 0
    OBVIOUS
  <2>2. DOMAIN tx_buffer = {}
    OBVIOUS
  <2>3. 0 <= MAX_PKT_BURST
    BY L2fwdAssumption
  <2> QED
    BY <2>1, <2>2, <2>3 DEF Apart
<1>2. CountInv
  <2>1. \A f : (\A x \in DOMAIN f : f[x] = 0) => Units(f) = {}
    BY DEF Units
  <2>2. \A m \in Packets : Len(fate[m]) = 0 /\ SentOf(fate[m]) = {}
    BY DEF SentOf
  <2>3. \A m \in Packets : Cardinality(SentOf(fate[m])) = 0
    BY <2>2, FS_EmptySet
  <2>4. Units(rx) = {} /\ Units(tx) = {} /\ Units(my_cnt) = {}
    BY <2>1
  <2>5. Units(Handed) = {}
    BY <2>1, <2>2 DEF Handed
  <2>6. Units(Sent) = {}
    BY <2>1, <2>3 DEF Sent, SentOf
  <2>7. Units(InBursts) = {}
    BY <2>1 DEF InBursts
  <2>8. IsFiniteSet({}) /\ Cardinality({}) = 0
    BY FS_EmptySet
  <2>9. \A f : Units(f) = {} => IsFiniteSet(Units(f)) /\ Total(f) = 0
    BY <2>8 DEF Total
  <2>10. /\ IsFiniteSet(Units(rx)) /\ Total(rx) = 0
         /\ IsFiniteSet(Units(tx)) /\ Total(tx) = 0
         /\ IsFiniteSet(Units(my_cnt)) /\ Total(my_cnt) = 0
         /\ IsFiniteSet(Units(Handed)) /\ Total(Handed) = 0
         /\ IsFiniteSet(Units(Sent)) /\ Total(Sent) = 0
         /\ IsFiniteSet(Units(InBursts)) /\ Total(InBursts) = 0
    BY <2>4, <2>5, <2>6, <2>7, <2>9
  <2>11. PacketsAreCounted
    BY <2>10 DEF PacketsAreCounted
  <2> QED
    BY <2>10, <2>11 DEF CountInv
<1>3. LoneInv
  <2>1. /\ Untouched /\ \A c \in Enabled : core[c] = "off"
        /\ \A m \in Packets : DOMAIN fate[m] = {}
    BY L2fwdAssumption DEF Untouched
  <2>2. ASSUME NEW c \in Enabled
        PROVE  HeldOnce(c) /\ Addressed(c) /\ Noticed(c)
    BY <2>1 DEF Untouched, HeldOnce, Addressed, Noticed
  <2> QED
    BY <2>1, <2>2 DEF LoneInv
<1> QED
  BY <1>1, <1>2, <1>3 DEF PacketInv

(* Nothing of the packets changes, nor what is said of them.                 *)
LEMMA PacketsStay ==
    ASSUME PacketInv, UNCHANGED <<program, loopVars, rx_port_list, l2fwd_dst_ports>>,
           pc' \in Before => pc \in Before, pc' = "loop" => pc = "loop"
    PROVE  PacketInv'
<1> USE DEF loopVars
<1>1. Apart'
  BY ApartStays DEF PacketInv
<1>2. CountInv'
  BY CountStays DEF PacketInv
<1>3. Pollers' = Pollers /\ \A c : rx_port(c)' = rx_port(c)
  BY DEF Pollers, rx_port
<1>4. Untouched => Untouched'
  BY DEF Untouched
<1>5. ASSUME NEW c, HeldOnce(c), Addressed(c), Noticed(c)
      PROVE  HeldOnce(c)' /\ Addressed(c)' /\ Noticed(c)'
  <2>1. HeldOnce(c)'
    BY <1>5, HeldStays
  <2>2. Addressed(c)'
    BY <1>3, <1>5 DEF Addressed
  <2>3. Noticed(c)'
    BY <1>5 DEF Noticed
  <2> QED
    BY <2>1, <2>2, <2>3
<1>6. LoneInv'
  BY <1>3, <1>4, <1>5 DEF PacketInv, LoneInv
<1> QED
  BY <1>1, <1>2, <1>6 DEF PacketInv

LEMMA MainKeepsPackets ==
    ASSUME CloseInv, PacketInv, main
    PROVE  PacketInv'
<1>1. program' = program /\ (Launch \/ UNCHANGED loopVars)
  BY MainKeeps
<1>2. CASE pc \in Before
  <2>1. /\ Untouched /\ \A c \in Lcores : core[c] = "off"
        /\ \A c \in Lcores : pkts_burst[c] = << >>
    BY <1>2 DEF CloseInv, PacketInv, LoneInv, Apart, Holding
  <2>2. /\ UNCHANGED <<pkts_burst, my_cnt, tx_buffer, rx, tx, arrived, fate, reported>>
        /\ \A c \in Lcores : core'[c] \in {"off", "done", "top"}
    <3>1. CASE Launch
      BY <3>1 DEF Launch
    <3>2. CASE UNCHANGED loopVars
      BY <2>1, <3>2 DEF loopVars
    <3> QED
      BY <1>1, <3>1, <3>2
  <2>3. Apart'
    BY <2>1, <2>2, ApartStays DEF PacketInv
  <2>4. CountInv'
    BY <2>2, CountStays DEF PacketInv
  <2>5. LoneInv'
    <3>1. Untouched'
      BY <2>1, <2>2 DEF Untouched
    <3>2. \A c \in Enabled : core'[c] \notin {"forward", "send"}
      BY <2>2, L2fwdAssumption
    <3> QED
      BY <3>1, <3>2, LoneBefore
  <2> QED
    BY <2>3, <2>4, <2>5 DEF PacketInv
<1>3. CASE pc \notin Before
  <2>1. /\ WaitLcores \/ ClosePort \/ Bye
    BY <1>3, MainSteps DEF Before, OptPortmask, OptNqueue, OptOther, Option, EndArgs,
       PairPort, EndPairing, AssignPort, CreatePool, PortFails, StartPort, EndPorts,
       CheckLinks, Launch
  <2>2. pc' \in {"close", "end"} /\ UNCHANGED confVars
    BY <2>1 DEF WaitLcores, ClosePort, Bye, Enter
  <2>3. UNCHANGED loopVars
    <3>1. ~ Launch
      BY <1>3 DEF Launch, Before
    <3> QED
      BY <1>1, <3>1
  <2> QED
    BY <1>1, <2>2, <2>3, PacketsStay DEF confVars, Before
<1> QED
  BY <1>2, <1>3

LEMMA CoreKeepsPackets ==
    ASSUME LoopInv, LoopInv', Wired, PacketInv, NEW c \in Enabled, l2fwd_main_loop(c)
    PROVE  PacketInv'
<1> USE DEF PacketInv
<1>1. InLoop /\ \/ Receive(c)
                \/ \E U, P : Forward(c, U, P) /\ FunctionIs(U, P)
                \/ \E r : /\ Send(c, r)
                          /\ r => \/ program = "ids" /\ _pass[c]
                                  \/ program = "firewall" /\ ~ _pass[c]
  <2>1. CASE program = "monitor" /\ MonitorLoop(c)
    BY <2>1 DEF MonitorLoop, MonitorForward, FunctionIs
  <2>2. CASE program = "ids" /\ IdsLoop(c)
    BY <2>2 DEF IdsLoop, IdsForward, FunctionIs
  <2>3. CASE program = "firewall" /\ FirewallLoop(c)
    BY <2>3 DEF FirewallLoop, FirewallForward, FunctionIs
  <2>4. CASE program = "aes" /\ AesLoop(c)
    BY <2>4 DEF AesLoop, AesForward, FunctionIs
  <2> QED
    BY <2>1, <2>2, <2>3, <2>4 DEF l2fwd_main_loop
<1>2. pc = "loop" /\ UNCHANGED <<program, rx_port_list, l2fwd_dst_ports>>
  BY <1>1 DEF InLoop, confVars
<1>3. c \in Lcores /\ CoreIsSound(c)
  BY L2fwdAssumption DEF LoopInv
<1>4. c \in Pollers
  <2>1. rx_port_list[c] # << >>
    <3>1. core[c] \in {"top", "poll", "store", "forward", "send"}
      BY <1>1 DEF Receive, Top, Poll, Store, Forward, Send
    <3>2. core[c] # "top" => qi[c] \in 1 .. Len(rx_port_list[c])
      BY <1>3, <3>1 DEF CoreIsSound
    <3> QED
      BY <1>3, <3>1, <3>2 DEF CoreIsSound
  <2> QED
    BY <2>1 DEF Pollers
<1>5. Pollers' = Pollers
  BY <1>2 DEF Pollers
<1>6. pc' \notin Before
  <2>1. core \in [Lcores -> CorePcs]
    BY DEF LoopInv, LoopTypes
  <2> QED
    BY <2>1, CoreStep DEF Before
<1>7. ASSUME Apart', CountInv',
             HeldOnce(c) /\ Addressed(c) /\ Noticed(c)
                => HeldOnce(c)' /\ Addressed(c)' /\ Noticed(c)'
      PROVE  PacketInv'
  <2>1. \A d \in Enabled : Pollers' = {d} => d = c /\ Pollers = {d}
    BY <1>4, <1>5
  <2>2. Pollers' # {}
    BY <1>4, <1>5
  <2>3. LoneInv'
    BY <1>6, <1>7, <2>1, <2>2 DEF LoneInv
  <2> QED
    BY <1>7, <2>3
<1>8. CASE Receive(c)
  <2>1. Apart'
    BY <1>8, TopKeepsApart, PollKeepsApart, StoreKeepsApart DEF Receive
  <2>2. CountInv'
    <3>1. ASSUME Top(c) PROVE CountInv'
      BY <3>1, CountStays DEF Top
    <3> QED
      BY <1>8, <3>1, PollCounts, StoreCounts DEF Receive
  <2>3. HeldOnce(c) => HeldOnce(c)'
    <3>1. ASSUME Top(c), HeldOnce(c) PROVE HeldOnce(c)'
      BY <3>1, HeldStays DEF Top
    <3> QED
      BY <1>8, <3>1, PollHolds, StoreHolds DEF Receive
  <2>4. Addressed(c) /\ Noticed(c) => Addressed(c)' /\ Noticed(c)'
    BY <1>2, <1>8, EarlierKeeps DEF Receive
  <2> QED
    BY <1>7, <2>1, <2>2, <2>3, <2>4
<1>9. ASSUME NEW U, NEW P, Forward(c, U, P), FunctionIs(U, P)
      PROVE  PacketInv'
  <2>1. Apart'
    BY <1>9, ForwardKeepsApart
  <2>2. CountInv'
    BY <1>9, CountStays DEF Forward
  <2>3. HeldOnce(c) => HeldOnce(c)'
    BY <1>9, HeldStays DEF Forward
  <2>4. Addressed(c) => Addressed(c)'
    BY <1>2, <1>9, ForwardAddresses
  <2>5. Noticed(c) => Noticed(c)'
    BY <1>2, <1>9, ForwardNotices
  <2> QED
    BY <1>7, <2>1, <2>2, <2>3, <2>4, <2>5
<1>10. ASSUME NEW r, Send(c, r), r => \/ program = "ids" /\ _pass[c]
                                      \/ program = "firewall" /\ ~ _pass[c]
       PROVE  PacketInv'
  <2>1. Apart'
    BY <1>10, SendKeepsApart
  <2>2. CountInv'
    BY <1>10, SendCounts
  <2>3. HeldOnce(c) => HeldOnce(c)'
    BY <1>10, SendHolds
  <2>4. ASSUME Addressed(c), Noticed(c)
        PROVE  Addressed(c)' /\ Noticed(c)'
    <3>1. Addressed(c)' /\ core'[c] \notin {"forward", "send"}
      BY <1>2, <1>10, <2>4, SendAddresses
    <3> QED
      BY <1>2, <1>10, <2>4, <3>1, SendNotices
  <2> QED
    BY <1>7, <2>1, <2>2, <2>3, <2>4
<1> QED
  BY <1>1, <1>8, <1>9, <1>10

LEMMA PacketStep ==
    ASSUME L2fwdInv, L2fwdInv', PacketInv, [Next]_vars
    PROVE  PacketInv'
<1>1. CASE main
  BY <1>1, MainKeepsPackets DEF L2fwdInv
<1>2. CASE UNCHANGED vars \/ signal_handler
  <2>1. UNCHANGED <<program, loopVars, rx_port_list, l2fwd_dst_ports, pc>>
    BY <1>2 DEF vars, signal_handler, confVars, mainVars
  <2> QED
    BY <2>1, PacketsStay
<1>3. ASSUME NEW c \in Enabled, l2fwd_main_loop(c)
      PROVE  PacketInv'
  <2>1. Wired
    BY DEF Wired, L2fwdInv, PairInv, CloseInv
  <2> QED
    BY <1>3, <2>1, CoreKeepsPackets DEF L2fwdInv
<1> QED
  BY <1>1, <1>2, <1>3 DEF Next

(* A set without two elements.                                               *)
LEMMA OnePlaceAtMost ==
    ASSUME NEW places, \A a, b \in places : a = b
    PROVE  /\ places # {} => Cardinality(places) = 1
           /\ places = {} => Cardinality(places) = 0
<1>1. CASE places # {}
  <2>1. PICK a : places = {a}
    BY <1>1
  <2> QED
    BY <1>1, <2>1, FS_Singleton
<1>2. CASE places = {}
  BY <1>2, FS_EmptySet
<1> QED
  BY <1>1, <1>2

LEMMA PollersAreFew ==
    ASSUME Cardinality(Pollers) <= 1
    PROVE  Pollers = {} \/ \E c \in Enabled : Pollers = {c}
<1>1. IsFiniteSet(Lcores)
  BY L2fwdAssumption, FS_Interval DEF Lcores
<1>2. Pollers \in SUBSET Lcores
  BY L2fwdAssumption DEF Pollers
<1>3. IsFiniteSet(Pollers)
  BY <1>1, <1>2, FS_Subset
<1>4. Cardinality(Pollers) \in Nat
  BY <1>3, FS_CardinalityType
<1>5. Cardinality(Pollers) = 0 \/ Cardinality(Pollers) = 1
  BY <1>4
<1>6. CASE Cardinality(Pollers) = 0
  BY <1>3, <1>6, FS_EmptySet
<1>7. CASE Cardinality(Pollers) = 1
  <2>1. PICK c : Pollers = {c}
    BY <1>3, <1>7, FS_Singleton
  <2>2. c \in Enabled
    BY <2>1 DEF Pollers
  <2> QED
    BY <2>1, <2>2
<1> QED
  BY <1>5, <1>6, <1>7

LEMMA ForwardedOnce ==
    ASSUME LoopInv, Apart, NEW c \in Enabled, Pollers = {c}, HeldOnce(c), NEW m \in arrived
    PROVE  LET bursts == {at \in Pollers \X (1 .. MAX_PKT_BURST) :
                            at[2] \in DOMAIN pkts_burst[at[1]]
                            /\ pkts_burst[at[1]][at[2]] = m}
               slots == {at \in Pollers \X DOMAIN tx_buffer :
                           at[2] <= my_cnt[at[1]] /\ tx_buffer[at[2]] = m}
           IN  Cardinality(bursts) + Cardinality(slots) + Len(fate[m]) = 1
<1> DEFINE bursts == {at \in Pollers \X (1 .. MAX_PKT_BURST) :
                        at[2] \in DOMAIN pkts_burst[at[1]]
                        /\ pkts_burst[at[1]][at[2]] = m}
           slots == {at \in Pollers \X DOMAIN tx_buffer :
                       at[2] <= my_cnt[at[1]] /\ tx_buffer[at[2]] = m}
<1>1. c \in Lcores /\ CoreIsSound(c) /\ LoopTypes
  BY L2fwdAssumption DEF LoopInv
<1>2. /\ pkts_burst[c] \in Seq(Packets) /\ Len(pkts_burst[c]) <= MAX_PKT_BURST
      /\ DOMAIN pkts_burst[c] \subseteq 1 .. MAX_PKT_BURST
  <2>1. pkts_burst[c] \in Seq(Packets) /\ Len(pkts_burst[c]) <= MAX_PKT_BURST
    BY <1>1 DEF LoopTypes, Apart
  <2> QED
    BY <2>1, L2fwdAssumption
<1>3. /\ my_cnt[c] \in Nat /\ my_cnt[c] <= Len(tx_buffer) /\ tx_buffer \in Seq(Packets)
      /\ \A i : i \in 1 .. my_cnt[c] <=> i \in DOMAIN tx_buffer /\ i <= my_cnt[c]
  <2>1. my_cnt[c] \in Nat /\ my_cnt[c] <= Len(tx_buffer) /\ tx_buffer \in Seq(Packets)
    BY <1>1, L2fwdAssumption DEF LoopTypes, CoreIsSound
  <2> QED
    BY <2>1
<1>4. \A at : at \in bursts
         <=> \E i \in DOMAIN pkts_burst[c] : at = <<c, i>> /\ pkts_burst[c][i] = m
  BY <1>2
<1>5. \A at : at \in slots
         <=> \E i \in 1 .. my_cnt[c] : at = <<c, i>> /\ tx_buffer[i] = m
  BY <1>3
<1> HIDE DEF bursts, slots
<1>6. /\ InBurst(c, m) => Cardinality(bursts) = 1
      /\ ~ InBurst(c, m) => Cardinality(bursts) = 0
  <2>1. \A i, j \in DOMAIN pkts_burst[c] :
           pkts_burst[c][i] = m /\ pkts_burst[c][j] = m => i = j
    BY <1>1 DEF Apart
  <2>2. \A a, b \in bursts : a = b
    BY <1>4, <2>1
  <2>3. InBurst(c, m) <=> bursts # {}
    BY <1>4 DEF InBurst
  <2> QED
    BY <2>2, <2>3, OnePlaceAtMost
<1>7. /\ InSlot(c, m) => Cardinality(slots) = 1
      /\ ~ InSlot(c, m) => Cardinality(slots) = 0
  <2>1. \A i, j \in 1 .. my_cnt[c] : tx_buffer[i] = m /\ tx_buffer[j] = m => i = j
    BY <1>3 DEF Apart
  <2>2. \A a, b \in slots : a = b
    BY <1>5, <2>1
  <2>3. InSlot(c, m) <=> slots # {}
    BY <1>5 DEF InSlot
  <2> QED
    BY <2>2, <2>3, OnePlaceAtMost
<1>8. \/ InBurst(c, m) /\ ~ InSlot(c, m) /\ Len(fate[m]) = 0
      \/ ~ InBurst(c, m) /\ InSlot(c, m) /\ Len(fate[m]) = 0
      \/ ~ InBurst(c, m) /\ ~ InSlot(c, m) /\ Len(fate[m]) = 1
  <2>1. fate[m] = << >> => Len(fate[m]) = 0
    OBVIOUS
  <2> QED
    BY <2>1 DEF HeldOnce
<1>9. Cardinality(bursts) + Cardinality(slots) + Len(fate[m]) = 1
  <2>1. CASE InBurst(c, m)
    <3>1. Cardinality(bursts) = 1 /\ Cardinality(slots) = 0 /\ Len(fate[m]) = 0
      BY <1>6, <1>7, <1>8, <2>1
    <3> QED
      BY <3>1
  <2>2. CASE InSlot(c, m)
    <3>1. Cardinality(bursts) = 0 /\ Cardinality(slots) = 1 /\ Len(fate[m]) = 0
      BY <1>6, <1>7, <1>8, <2>2
    <3> QED
      BY <3>1
  <2>3. CASE ~ InBurst(c, m) /\ ~ InSlot(c, m)
    <3>1. Cardinality(bursts) = 0 /\ Cardinality(slots) = 0 /\ Len(fate[m]) = 1
      BY <1>6, <1>7, <1>8, <2>3
    <3> QED
      BY <3>1
  <2> QED
    BY <2>1, <2>2, <2>3
<1> QED
  BY <1>9 DEF bursts, slots

(* For any number of cores, ports and packets: the counters agree with what  *)
(* became of the packets although the cores share the buffer; and while one  *)
(* core polls, no packet is lost sight of or handed over twice, each has the *)
(* addresses of the partner of the port its batch leaves from, and a message *)
(* is about a batch that deserves it (container_fn/monitor/main.c:325-339).  *)
THEOREM PacketsStayAccountedFor == Spec => []PacketsAreAccountedFor
<1>1. ASSUME L2fwdInv, PacketInv
      PROVE  PacketsAreAccountedFor
  <2> USE <1>1 DEF PacketInv
  <2>1. PacketsAreCounted
    BY DEF CountInv
  <2>2. CASE Cardinality(Pollers) <= 1 /\ Pollers = {}
    <3>1. arrived = {} /\ reported = {} /\ \A m \in Packets : DOMAIN fate[m] = {}
      BY <2>2 DEF LoneInv, Untouched
    <3> QED
      BY <2>1, <3>1 DEF PacketsAreAccountedFor, PacketsAreForwardedOnce,
         AddressedToPartner, ReportsAreReal
  <2>3. ASSUME NEW c \in Enabled, Pollers = {c}
        PROVE  PacketsAreAccountedFor
    <3>1. HeldOnce(c) /\ Addressed(c) /\ Noticed(c)
      BY <2>3 DEF LoneInv
    <3>2. PacketsAreForwardedOnce
      BY <2>3, <3>1, ForwardedOnce DEF PacketsAreForwardedOnce, L2fwdInv
    <3>3. AddressedToPartner
      BY <3>1 DEF AddressedToPartner, Addressed
    <3>4. ReportsAreReal
      BY <3>1 DEF ReportsAreReal, Noticed
    <3> QED
      BY <2>1, <3>2, <3>3, <3>4 DEF PacketsAreAccountedFor
  <2>4. CASE ~ (Cardinality(Pollers) <= 1)
    BY <2>1, <2>4 DEF PacketsAreAccountedFor, PacketsAreForwardedOnce,
       AddressedToPartner, ReportsAreReal
  <2> QED
    BY <2>2, <2>3, <2>4, PollersAreFew
<1>2. L2fwdInv /\ PacketInv /\ [Next]_vars => L2fwdInv' /\ PacketInv'
  BY L2fwdStep, PacketStep
<1>3. Init => L2fwdInv /\ PacketInv
  BY L2fwdInit, PacketsInit
<1> QED
  BY <1>1, <1>2, <1>3, PTL DEF Spec

=============================================================================
