-------------------------------- MODULE L2fwd --------------------------------
(***************************************************************************)
(* The container functions, container_fn/<function>/main.c: four programs  *)
(* made from DPDK's l2fwd.  main parses options, pairs the enabled ports,  *)
(* gives each to a core, starts them and launches the cores; a core polls  *)
(* its ports into a transmit buffer, which all cores share, applies the    *)
(* program's function to each full buffer and transmits it; on a signal    *)
(* the cores return and main closes the ports.  Lines are those of         *)
(* container_fn/monitor/main.c unless another program is named.            *)
(***************************************************************************)
EXTENDS Integers, Sequences, FiniteSets, FiniteSetsExt, Functions

CONSTANTS
    NB_PORTS,                \* rte_eth_dev_count()
    MASK_BITS,               \* bits of a uint32_t; more than there are ports
    MaskArgs,                \* what may follow -p: sets of bits, {} if no number
    RTE_MAX_LCORE,
    Enabled,                 \* lcores given to the EAL
    Master,                  \* the one of them that runs main
    MAX_RX_QUEUE_PER_LCORE,
    MAX_PKT_BURST,
    MAX_PKT_BUFFER,
    MAX_CHECK_TIME,
    Packets,                 \* the packets that arrive, each at most once
    Kind,                    \* [Packets -> Kinds]
    OptBound                 \* bound: options given

Ports == 0 .. NB_PORTS - 1
Bits == 0 .. MASK_BITS - 1
Lcores == 0 .. RTE_MAX_LCORE - 1
Programs == {"monitor", "ids", "firewall", "aes"}

\* "marked": one an IDS rule occurs in, or a firewall rule refuses; "arp": no IPv4.
Kinds == {"plain", "marked", "arp"}

ASSUME L2fwdAssumption ==
    /\ NB_PORTS \in Nat \ {0}
    /\ MASK_BITS \in Nat /\ MASK_BITS > NB_PORTS
    /\ \A arg \in MaskArgs : arg \subseteq Nat
    /\ RTE_MAX_LCORE \in Nat
    /\ Enabled \subseteq Lcores /\ Master \in Enabled
    /\ MAX_RX_QUEUE_PER_LCORE \in Nat \ {0, 1}
    /\ MAX_PKT_BURST \in Nat \ {0} /\ MAX_PKT_BUFFER \in Nat \ {0}
    /\ MAX_CHECK_TIME \in Nat \ {0}
    /\ Kind \in [Packets -> Kinds]
    /\ OptBound \in Nat

VARIABLES
    program,       \* which of the four programs this is
    pc,            \* where main is
    options,       \* options parsed
    given,         \* history: what the last -p said
    mask,          \* l2fwd_enabled_port_mask, as the set of its bits
    nqueue,        \* l2fwd_rx_queue_per_lcore
    todo,          \* ports the current loop over the ports has still to visit
    l2fwd_dst_ports,
    last_port,
    odd,           \* nb_ports_in_mask % 2 = 1
    rx_lcore_id,
    rx_port_list,  \* [Lcores -> Seq(Ports)], of lcore_queue_conf
    started,       \* ports that run
    keyed,         \* aes: ports whose key_schedule is set up
    count,         \* passes over the link states
    print_flag,
    force_quit

VARIABLES
    core,          \* [Lcores -> ...]: where each core's main loop is
    qi,            \* the position in its list of the port it polls
    pkts_burst,    \* [Lcores -> Seq(Packets)]: received and not yet stored
    my_cnt,        \* packets each core has stored
    k,             \* packets it has applied the function to
    _pass,         \* ids, firewall: what the function said last
    tx_buffer,     \* the buffer, one for all cores
    addr,          \* [Packets -> Ports \cup {NB_PORTS}]: whose MAC a packet carries
    rx, tx,        \* [Ports -> Nat], of port_statistics
    arrived,       \* history: packets that were received
    fate,          \* history: [Packets -> Seq(Attempts)]: how each was transmitted
    reported       \* history: batches a message was printed for

confVars == <<options, given, mask, nqueue, l2fwd_dst_ports, last_port, odd,
              rx_lcore_id, rx_port_list>>
loopVars == <<core, qi, pkts_burst, my_cnt, k, _pass, tx_buffer, addr, rx, tx,
              arrived, fate, reported>>
mainVars == <<pc, todo, started, keyed, count, print_flag>>
vars == <<program, confVars, mainVars, force_quit, loopVars>>

\* What became of a packet handed to rte_eth_tx_burst: a refused one is not freed.
Attempts == [port : Ports, addr : Ports \cup {NB_PORTS}, sent : BOOLEAN]

CorePcs == {"off", "top", "poll", "store", "forward", "send", "done"}
MainPcs == {"args", "pair", "assign", "ports", "links", "launch", "loop", "close",
            "end", "exit", "crash"}

TypeOK ==
    /\ program \in Programs
    /\ pc \in MainPcs
    /\ options \in 0 .. OptBound
    /\ given \subseteq Nat
    /\ mask \subseteq Bits
    /\ nqueue \in 1 .. MAX_RX_QUEUE_PER_LCORE - 1
    /\ todo \subseteq mask
    /\ l2fwd_dst_ports \in [Ports -> Ports]
    /\ last_port \in Ports /\ odd \in BOOLEAN
    /\ rx_lcore_id \in Lcores \cup {0}
    /\ rx_port_list \in [Lcores -> Seq(Ports)]
    /\ started \subseteq Ports /\ keyed \subseteq Ports
    /\ count \in 0 .. MAX_CHECK_TIME + 1 /\ print_flag \in BOOLEAN
    /\ force_quit \in BOOLEAN
    /\ core \in [Lcores -> CorePcs]
    /\ qi \in [Lcores -> Nat]
    /\ pkts_burst \in [Lcores -> Seq(Packets)]
    /\ my_cnt \in [Lcores -> 0 .. MAX_PKT_BUFFER]
    /\ k \in [Lcores -> 0 .. MAX_PKT_BUFFER]
    /\ _pass \in [Lcores -> BOOLEAN]
    /\ tx_buffer \in Seq(Packets) /\ Len(tx_buffer) <= MAX_PKT_BUFFER
    /\ addr \in [Packets -> Ports \cup {NB_PORTS}]
    /\ rx \in [Ports -> Nat] /\ tx \in [Ports -> Nat]
    /\ arrived \subseteq Packets
    /\ fate \in [Packets -> Seq(Attempts)]
    /\ reported \subseteq SUBSET Packets

Init ==
    /\ program \in Programs
    /\ pc = "args" /\ options = 0 /\ given = {} /\ mask = {} /\ nqueue = 1
    /\ todo = {} /\ last_port = 0 /\ odd = FALSE
    /\ l2fwd_dst_ports = [p \in Ports |-> 0]
    /\ rx_lcore_id = 0 /\ rx_port_list = [c \in Lcores |-> <<>>]
    /\ started = {} /\ keyed = {}
    /\ count = 0 /\ print_flag = FALSE
    /\ force_quit = FALSE
    /\ core = [c \in Lcores |-> "off"]
    /\ qi = [c \in Lcores |-> 1]
    /\ pkts_burst = [c \in Lcores |-> <<>>]
    /\ my_cnt = [c \in Lcores |-> 0] /\ k = [c \in Lcores |-> 0]
    /\ _pass = [c \in Lcores |-> FALSE]
    /\ tx_buffer = <<>>
    /\ addr = [m \in Packets |-> NB_PORTS]
    /\ rx = [p \in Ports |-> 0] /\ tx = [p \in Ports |-> 0]
    /\ arrived = {} /\ fate = [m \in Packets |-> <<>>] /\ reported = {}

-----------------------------------------------------------------------------
(* l2fwd_parse_args: any number of options, in any order *)

Option ==
    /\ pc = "args"
    /\ options < OptBound
    /\ options' = options + 1
    /\ UNCHANGED <<program, todo, l2fwd_dst_ports, last_port, odd, rx_lcore_id,
                   rx_port_list, started, keyed, count, print_flag, force_quit, loopVars>>

\* -1, all bits, for what is no number or 0; an unsigned long cut to 32 bits otherwise.
ParsePortmask(arg) == IF arg = {} THEN Bits ELSE arg \cap Bits

OptPortmask(arg) ==
    /\ Option
    /\ given' = arg
    /\ mask' = ParsePortmask(arg)
    /\ pc' = IF mask' = {} THEN "exit" ELSE pc
    /\ UNCHANGED nqueue

\* 0 for what is refused.
ParseNqueue(n) == IF n < MAX_RX_QUEUE_PER_LCORE THEN n ELSE 0

OptNqueue(n) ==
    /\ Option
    /\ IF ParseNqueue(n) = 0
       THEN pc' = "exit" /\ UNCHANGED nqueue
       ELSE nqueue' = ParseNqueue(n) /\ UNCHANGED pc
    /\ UNCHANGED <<given, mask>>

\* The period and MAC updating, left at its default here; an unknown option is refused.
OptOther ==
    /\ Option
    /\ pc' \in {pc, "exit"}
    /\ UNCHANGED <<given, mask, nqueue>>

-----------------------------------------------------------------------------
(* main.  Each loop over the ports visits those of the mask in ascending order. *)

Enter(phase) == pc' = phase /\ todo' = mask

\* Bits without a port end the program.
EndArgs ==
    /\ pc = "args"
    /\ IF mask \subseteq Ports THEN Enter("pair") ELSE pc' = "exit" /\ UNCHANGED todo
    /\ UNCHANGED <<confVars, started, keyed, count, print_flag>>

\* A bug: only one direction is entered.
PairedOneWay(portid) == [l2fwd_dst_ports EXCEPT ![portid] = last_port]

Paired(portid) == [l2fwd_dst_ports EXCEPT ![portid] = last_port, ![last_port] = portid]

PairPort ==
    LET portid == Min(todo)
    IN  /\ pc = "pair" /\ todo # {}
        /\ todo' = todo \ {portid}
        /\ odd' = ~odd
        /\ IF odd THEN l2fwd_dst_ports' = Paired(portid) /\ UNCHANGED last_port
                  ELSE last_port' = portid /\ UNCHANGED l2fwd_dst_ports
        /\ UNCHANGED <<pc, options, given, mask, nqueue, rx_lcore_id, rx_port_list,
                       started, keyed, count, print_flag>>

\* The last of an odd number of ports is paired with itself.
EndPairing ==
    /\ pc = "pair" /\ todo = {}
    /\ l2fwd_dst_ports' =
           IF odd THEN [l2fwd_dst_ports EXCEPT ![last_port] = last_port] ELSE l2fwd_dst_ports
    /\ Enter("assign")
    /\ UNCHANGED <<options, given, mask, nqueue, last_port, odd, rx_lcore_id,
                   rx_port_list, started, keyed, count, print_flag>>

\* A bug: a core that is full is not passed over.
HasRoomAlways(c) == c \in Enabled

HasRoom(c) == c \in Enabled /\ Len(rx_port_list[c]) # nqueue

AssignPort ==
    LET portid == Min(todo)
        room == {c \in rx_lcore_id .. RTE_MAX_LCORE - 1 : HasRoom(c)}
    IN  /\ pc = "assign" /\ todo # {}
        /\ IF room = {}
           THEN pc' = "exit" /\ UNCHANGED <<todo, rx_lcore_id, rx_port_list>>
           ELSE /\ rx_lcore_id' = Min(room)
                /\ rx_port_list' = [rx_port_list EXCEPT ![Min(room)] = Append(@, portid)]
                /\ todo' = todo \ {portid}
                /\ UNCHANGED pc
        /\ UNCHANGED <<options, given, mask, nqueue, l2fwd_dst_ports, last_port, odd,
                       started, keyed, count, print_flag>>

\* The pool of packet buffers may not fit.
CreatePool ==
    /\ pc = "assign" /\ todo = {}
    /\ Enter("ports") \/ (pc' = "exit" /\ UNCHANGED todo)
    /\ UNCHANGED <<confVars, started, keyed, count, print_flag>>

StartPort(portid) ==
    /\ pc = "ports" /\ todo # {} /\ portid = Min(todo)
    /\ todo' = todo \ {portid}
    /\ started' = started \cup {portid}
    /\ UNCHANGED <<pc, confVars, count, print_flag>>

\* Every step of a port's initialisation may end the program.
PortFails ==
    /\ pc = "ports" /\ todo # {}
    /\ pc' = "exit"
    /\ UNCHANGED <<todo, confVars, started, keyed, count, print_flag>>

InitPort ==
    \/ PortFails
    \/ \E portid \in Ports : StartPort(portid) /\ UNCHANGED keyed

\* The statistics hold the key schedules, and those of all ports are cleared per port.
AesInitPort ==
    \/ PortFails
    \/ \E portid \in Ports : StartPort(portid) /\ keyed' = {portid}

EndPorts ==
    /\ pc = "ports" /\ todo = {}
    /\ pc' = IF started = {} THEN "exit" ELSE "links"
    /\ UNCHANGED <<todo, confVars, started, keyed, count, print_flag>>

\* One pass over the link states, which may come and go; a signal ends the wait.
CheckLinks ==
    /\ pc = "links"
    /\ IF force_quit \/ print_flag \/ count > MAX_CHECK_TIME
       THEN pc' = "launch" /\ UNCHANGED <<count, print_flag>>
       ELSE \E all_ports_up \in BOOLEAN :
                /\ count' = count + 1
                /\ print_flag' = (all_ports_up \/ count = MAX_CHECK_TIME - 1)
                /\ UNCHANGED pc
    /\ UNCHANGED <<todo, confVars, started, keyed>>

\* Every core, the master too, enters its loop; one without ports has nothing to do.
Launch ==
    /\ pc = "launch"
    /\ pc' = "loop"
    /\ core' = [c \in Lcores |-> IF c \notin Enabled THEN "off"
                                 ELSE IF rx_port_list[c] = <<>> THEN "done" ELSE "top"]
    /\ UNCHANGED <<program, todo, confVars, started, keyed, count, print_flag, force_quit,
                   qi, pkts_burst, my_cnt, k, _pass, tx_buffer, addr, rx, tx, arrived,
                   fate, reported>>

\* A bug: main does not wait for the slaves.
AllReturnedMaster == core[Master] = "done"

AllReturned == \A c \in Enabled : core[c] = "done"

\* main's own loop has returned, and rte_eal_wait_lcore for every slave.
WaitLcores ==
    /\ pc = "loop" /\ AllReturned
    /\ Enter("close")
    /\ UNCHANGED <<confVars, started, keyed, count, print_flag>>

ClosePort ==
    /\ pc = "close" /\ todo # {}
    /\ todo' = todo \ {Min(todo)}
    /\ started' = started \ {Min(todo)}
    /\ UNCHANGED <<pc, confVars, keyed, count, print_flag>>

Bye ==
    /\ pc = "close" /\ todo = {}
    /\ pc' = "end"
    /\ UNCHANGED <<todo, confVars, started, keyed, count, print_flag>>

\* Everything in main but the initialisation of a port, in which aes differs.
Main(PortInit) ==
    \/ \E arg \in MaskArgs : OptPortmask(arg)
    \/ \E n \in 0 .. MAX_RX_QUEUE_PER_LCORE : OptNqueue(n)
    \/ OptOther
    \/ /\ \/ EndArgs \/ PairPort \/ EndPairing \/ AssignPort \/ CreatePool
          \/ PortInit \/ EndPorts \/ CheckLinks \/ WaitLcores \/ ClosePort \/ Bye
       /\ UNCHANGED <<program, force_quit, loopVars>>
    \/ Launch

signal_handler ==
    /\ pc \notin {"end", "exit", "crash"} /\ ~force_quit
    /\ force_quit' = TRUE
    /\ UNCHANGED <<program, confVars, mainVars, loopVars>>

-----------------------------------------------------------------------------
(* l2fwd_main_loop *)

rx_port(c) == rx_port_list[c][qi[c]]

\* After the last packet of a burst comes the next port, after the last port the top.
Proceed(c, burst) ==
    /\ pkts_burst' = [pkts_burst EXCEPT ![c] = burst]
    /\ core' = [core EXCEPT ![c] = IF burst # <<>> THEN "store"
                                  ELSE IF qi[c] < Len(rx_port_list[c]) THEN "poll" ELSE "top"]
    /\ qi' = [qi EXCEPT ![c] = IF burst = <<>> THEN @ + 1 ELSE @]

\* A bug: the loop does not look at force_quit.
TopDeaf(c) ==
    /\ core[c] = "top"
    /\ core' = [core EXCEPT ![c] = "poll"]
    /\ qi' = [qi EXCEPT ![c] = 1]
    /\ UNCHANGED <<pkts_burst, my_cnt, k, _pass, tx_buffer, addr, rx, tx, arrived, fate,
                   reported>>

Top(c) ==
    /\ core[c] = "top"
    /\ core' = [core EXCEPT ![c] = IF force_quit THEN "done" ELSE "poll"]
    /\ qi' = [qi EXCEPT ![c] = 1]
    /\ UNCHANGED <<pkts_burst, my_cnt, k, _pass, tx_buffer, addr, rx, tx, arrived, fate,
                   reported>>

Bursts == UNION {Injection(1 .. n, Packets \ arrived) : n \in 0 .. MAX_PKT_BURST}

Poll(c) ==
    /\ core[c] = "poll"
    /\ \E burst \in Bursts :
          /\ rx' = [rx EXCEPT ![rx_port(c)] = @ + Len(burst)]
          /\ arrived' = arrived \cup Range(burst)
          /\ Proceed(c, burst)
    /\ UNCHANGED <<my_cnt, k, _pass, tx_buffer, addr, tx, fate, reported>>

Stored(slot, m) ==
    IF slot \in DOMAIN tx_buffer THEN [tx_buffer EXCEPT ![slot] = m] ELSE Append(tx_buffer, m)

\* The slot is this core's count, the buffer everybody's.
Store(c) ==
    /\ core[c] = "store"
    /\ tx_buffer' = Stored(my_cnt[c] + 1, Head(pkts_burst[c]))
    /\ my_cnt' = [my_cnt EXCEPT ![c] = @ + 1]
    /\ IF my_cnt'[c] = MAX_PKT_BUFFER
       THEN /\ core' = [core EXCEPT ![c] = "forward"]
            /\ k' = [k EXCEPT ![c] = 0]
            /\ pkts_burst' = [pkts_burst EXCEPT ![c] = Tail(@)]
            /\ UNCHANGED qi
       ELSE Proceed(c, Tail(pkts_burst[c])) /\ UNCHANGED k
    /\ UNCHANGED <<_pass, addr, rx, tx, arrived, fate, reported>>

\* l2fwd_simple_forward for one packet: the addresses, then the program's function, which
\* says TRUE of the kinds Passes and follows a null pointer for the kinds Unsafe.
Forward(c, Unsafe, Passes) ==
    LET m == tx_buffer[k[c] + 1]
    IN  /\ core[c] = "forward"
        /\ addr' = [addr EXCEPT ![m] = l2fwd_dst_ports[rx_port(c)]]
        /\ k' = [k EXCEPT ![c] = @ + 1]
        /\ _pass' = [_pass EXCEPT ![c] = (Kind[m] \in Passes)]
        /\ core' = [core EXCEPT ![c] = IF k'[c] = MAX_PKT_BUFFER THEN "send" ELSE @]
        /\ pc' = IF Kind[m] \in Unsafe THEN "crash" ELSE pc
        /\ UNCHANGED <<qi, pkts_burst, my_cnt, tx_buffer, rx, tx, arrived, fate, reported>>

TxPort(c) == rx_port(c)

Counted(sent) == sent

\* A bug: the buffer is not emptied when nothing was sent.
LeftAfterRetry(sent) == IF sent = 0 THEN MAX_PKT_BUFFER - 1 ELSE 0

Left(sent) == 0

Send(c, report) ==
    /\ core[c] = "send"
    /\ \E sent \in 0 .. MAX_PKT_BUFFER :
          /\ fate' = [m \in Packets |->
                         LET at == {i \in 1 .. MAX_PKT_BUFFER : tx_buffer[i] = m}
                         IN  IF at = {} THEN fate[m]
                             ELSE Append(fate[m], [port |-> TxPort(c), addr |-> addr[m],
                                                   sent |-> Min(at) <= sent])]
          /\ tx' = [tx EXCEPT ![rx_port(c)] = @ + Counted(sent)]
          /\ my_cnt' = [my_cnt EXCEPT ![c] = Left(sent)]
    /\ reported' = IF report THEN reported \cup {Range(tx_buffer)} ELSE reported
    /\ Proceed(c, pkts_burst[c])
    /\ UNCHANGED <<k, _pass, tx_buffer, addr, rx, arrived>>

-----------------------------------------------------------------------------
(* The four programs *)

\* Polling and storing are the same in all.
Receive(c) == (Top(c) \/ Poll(c) \/ Store(c)) /\ UNCHANGED pc

InLoop ==
    /\ pc = "loop"
    /\ UNCHANGED <<program, confVars, todo, started, keyed, count, print_flag, force_quit>>

\* Counts lengths, which it reads in the IPv4 header.
MonitorForward(c) == Forward(c, {"arp"}, {})

MonitorLoop(c) ==
    InLoop /\ (Receive(c) \/ MonitorForward(c) \/ (Send(c, FALSE) /\ UNCHANGED pc))

MonitorMain == Main(InitPort)

\* Looks for the rules in what TCP and UDP packets carry.
IdsForward(c) == Forward(c, {}, {"marked"})

\* A message is printed for what the last packet of the batch gave.
IdsLoop(c) ==
    InLoop /\ (Receive(c) \/ IdsForward(c) \/ (Send(c, _pass[c]) /\ UNCHANGED pc))

IdsMain == Main(InitPort)

\* Looks the 5-tuple up; a packet without one makes it use no header.
FirewallForward(c) == Forward(c, {"arp"}, {"plain"})

\* A message is all that comes of a packet that is refused: it is sent as well.
FirewallLoop(c) ==
    InLoop /\ (Receive(c) \/ FirewallForward(c) \/ (Send(c, ~_pass[c]) /\ UNCHANGED pc))

FirewallMain == Main(InitPort)

\* Encrypts a part of a payload into a buffer of its own: the packet stays as it is.
AesForward(c) == Forward(c, {}, {})

AesLoop(c) ==
    InLoop /\ (Receive(c) \/ AesForward(c) \/ (Send(c, FALSE) /\ UNCHANGED pc))

AesMain == Main(AesInitPort)

main ==
    \/ program = "monitor" /\ MonitorMain
    \/ program = "ids" /\ IdsMain
    \/ program = "firewall" /\ FirewallMain
    \/ program = "aes" /\ AesMain

l2fwd_main_loop(c) ==
    \/ program = "monitor" /\ MonitorLoop(c)
    \/ program = "ids" /\ IdsLoop(c)
    \/ program = "firewall" /\ FirewallLoop(c)
    \/ program = "aes" /\ AesLoop(c)

Next == main \/ signal_handler \/ \E c \in Enabled : l2fwd_main_loop(c)

Spec == Init /\ [][Next]_vars

\* main and each core's loop run on a processor of their own.
Fairness == WF_vars(main) /\ \A c \in Enabled : WF_vars(l2fwd_main_loop(c))

FairSpec == Spec /\ Fairness

-----------------------------------------------------------------------------
(* Properties *)

\* The cores that have a port.
Pollers == {c \in Enabled : rx_port_list[c] # <<>>}

(* l2fwd_dst_ports (623-645) pairs the enabled ports: the partner of a port's partner is  *)
(* the port, and at most one port, the last of an odd number, is its own partner.  Each   *)
(* tcp_num and udp_num (208-211) has a single writer because of this.                     *)
PairingIsInvolution ==
    pc \notin {"args", "pair", "exit"} =>
        /\ \A p \in mask : l2fwd_dst_ports[p] \in mask
                          /\ l2fwd_dst_ports[l2fwd_dst_ports[p]] = p
        /\ \A p, q \in mask : l2fwd_dst_ports[p] = p /\ l2fwd_dst_ports[q] = q => p = q

(* Once the ports run, each is polled by one core, from one place of its list; no list is *)
(* longer than -q asked for, nor than its array (650-671).  A batch goes out of a port    *)
(* its core polls, so this also keeps each transmit queue with one core, as the comment   *)
(* at 625 has it.                                                                         *)
EveryPortHasOneCore ==
    pc \in {"links", "launch", "loop", "close", "end", "crash"} =>
        /\ nqueue < MAX_RX_QUEUE_PER_LCORE
        /\ \A c \in Lcores : Len(rx_port_list[c]) <= nqueue
        /\ \A c \in Lcores \ Enabled : rx_port_list[c] = <<>>
        /\ \A p \in mask :
              Cardinality({at \in Enabled \X (1 .. nqueue) :
                  at[2] \in DOMAIN rx_port_list[at[1]] /\ rx_port_list[at[1]][at[2]] = p}) = 1

(* The ports that run are those the last -p names.  A malformed mask is turned into one   *)
(* with all bits (376, 379) and is refused only because there are fewer ports (614).      *)
OnlyAskedPortsRun ==
    /\ started \subseteq given
    /\ pc = "loop" => started \cup {b \in given : b >= MASK_BITS} = given

(* main closes no port that a core may still poll (797-812).                              *)
NoPortClosesUnderACore ==
    \A c \in Lcores : core[c] \notin {"off", "done"} => Range(rx_port_list[c]) \subseteq started

\* The sum of the values of f, each a number of units.
Units(f) == UNION {{x} \X (1 .. f[x]) : x \in DOMAIN f}
Total(f) == Cardinality(Units(f))

\* How often each packet was handed to the network card, how often it was sent, and how
\* many packets are in each core's burst.
Handed == [m \in Packets |-> Len(fate[m])]
Sent == [m \in Packets |-> Cardinality({i \in DOMAIN fate[m] : fate[m][i].sent})]
InBursts == [c \in Lcores |-> Len(pkts_burst[c])]

(* Received is what was sent, refused, or is held by a core (325, 328, 339): the counters *)
(* agree although the buffer is shared and batches mix ports.                             *)
PacketsAreCounted ==
    /\ Total(rx) = Total(Handed) + Total(my_cnt) + Total(InBursts)
    /\ Total(tx) = Total(Sent)

(* While one core polls, a packet is in one place: in the burst, in the part of the       *)
(* buffer that counts, or handed to the network card, once.                               *)
PacketsAreForwardedOnce ==
    Cardinality(Pollers) <= 1 =>
        \A m \in arrived :
            LET bursts == {at \in Pollers \X (1 .. MAX_PKT_BURST) :
                             at[2] \in DOMAIN pkts_burst[at[1]] /\ pkts_burst[at[1]][at[2]] = m}
                slots == {at \in Pollers \X DOMAIN tx_buffer :
                             at[2] <= my_cnt[at[1]] /\ tx_buffer[at[2]] = m}
            IN  Cardinality(bursts) + Cardinality(slots) + Len(fate[m]) = 1

(* While one core polls, a packet carries the addresses of the partner of the port its    *)
(* batch leaves from, which is the port of the poll that filled the buffer, wherever the  *)
(* packet was received (168-175, 189, 335-337).  The usage text (363-365) says otherwise: *)
(* "replaced by the TX port MAC address" and "02:00:00:00:00:TX_PORT_ID".  No program     *)
(* sends from the partner, so that the addresses never are those of the TX port.          *)
AddressedToPartner ==
    Cardinality(Pollers) <= 1 =>
        \A m \in Packets : \A i \in DOMAIN fate[m] :
            fate[m][i].addr = l2fwd_dst_ports[fate[m][i].port]

(* While one core polls, a batch that ids or firewall prints a message for has a packet   *)
(* that deserves it, though not every batch that has one is printed (ids 397-400,         *)
(* firewall 444-447).                                                                     *)
ReportsAreReal ==
    Cardinality(Pollers) <= 1 => \A b \in reported : \E m \in b : Kind[m] = "marked"

(* After a signal every loop returns and the program ends, whatever it was doing.         *)
EndsAfterSignal == force_quit ~> pc \in {"end", "exit", "crash"}

(* aes: "Key setup must be done before any AES en/de-cryption functions can be used"      *)
(* (container_fn/aes/mtnf_aes.h).  aes_encrypt_ctr is called with the key schedule of the *)
(* partner (aes 205, 221).                                                                *)
KeySetupBeforeUse ==
    \A c \in Enabled : program = "aes" /\ pc = "loop" /\ core[c] = "forward" =>
        l2fwd_dst_ports[rx_port(c)] \in keyed

(* The ports that run are those asked for, each with its core.                            *)
PortsAreServed == TypeOK /\ OnlyAskedPortsRun /\ EveryPortHasOneCore

(* The counters account for every packet, however many cores share the buffer.  While     *)
(* one core polls, moreover, each packet is handed over once, with the addresses of the   *)
(* partner of the port its batch leaves from, and messages are about batches that deserve *)
(* them.  With several cores none of the last three holds.                                *)
PacketsAreAccountedFor ==
    PacketsAreCounted /\ PacketsAreForwardedOnce /\ AddressedToPartner /\ ReportsAreReal

=============================================================================
