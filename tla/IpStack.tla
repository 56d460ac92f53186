------------------------------- MODULE IpStack -------------------------------
(***************************************************************************)
(* The IP stack of the core (lib/ipv4.c, bootp.c, arp.c, icmp.c, shell     *)
(* commands ip and mac), as the main loop polls it while the link is up:   *)
(* BOOTP asks for an address, ARP and ICMP answer for it.  Both sockets    *)
(* have a queue that only their own poll empties, and a MAC address copied *)
(* when they were created.  Around it a network that loses, repeats and    *)
(* reorders frames, a BOOTP server and a peer that asks for the core's MAC *)
(* address and then pings it.                                              *)
(***************************************************************************)
EXTENDS Naturals, Sequences

CONSTANTS
    BootpPeriod,  \* polls between two requests (100000 in the code)
    QueueLen,     \* frames a socket's queue holds
    MaxEvents     \* bound: link changes and commands

ASSUME IpStackAssumption ==
    /\ BootpPeriod \in Nat \ {0} /\ QueueLen \in Nat \ {0}
    /\ MaxEvents \in Nat

VARIABLES
    pc,           \* the main loop: "link", "ipv4", "bootp", "arp"
    link, prev,   \* the link, and as wrc_check_link saw it last
    needIP, myIP, \* myIP is 0.0.0.0 ("none"), "lease" or "manual"
    eb_ip,        \* the address given to the Etherbone core
    bootp_timer,  \* polls since the last request (bootp_retry only numbers them)
    mac,          \* the endpoint's MAC address, and the packet filter's
    sockMac,      \* bind_addr.mac of the IPv4 socket
    q4, qarp,     \* the queues of the two sockets
    net,          \* per type, the frame on its way to the core: a later one
                  \* overtakes it
    asked,        \* the BOOTP server has an unanswered request
    peerMac,      \* the peer's ARP entry for the core
    answered,     \* the peer has its echo reply
    events        \* bound: how many inputs there have been

ipVars == <<needIP, myIP, eb_ip, bootp_timer>>
peerVars == <<peerMac, answered>>
vars == <<pc, link, prev, ipVars, mac, sockMac, q4, qarp, net, asked, peerVars, events>>

Macs == {"macA", "macB"}
Types == {"bootp", "arp", "echo"}
Frames == [type : {"bootp"}, dst : Macs, ip : {"lease"}]
          \cup [type : {"arp"}, dst : {"broadcast"}, ip : {"lease", "manual"}]
          \cup [type : {"echo"}, dst : Macs, ip : {"lease", "manual"}]

TypeOK ==
    /\ pc \in {"link", "ipv4", "bootp", "arp"}
    /\ {link, prev, needIP, asked, answered} \subseteq BOOLEAN
    /\ myIP \in {"none", "lease", "manual"} /\ eb_ip = myIP
    /\ bootp_timer \in 0..(BootpPeriod - 1)
    /\ {mac, sockMac} \subseteq Macs /\ peerMac \in Macs \cup {"none"}
    /\ net \in [Types -> SUBSET Frames]
    /\ Len(q4) <= QueueLen /\ Len(qarp) <= QueueLen
    /\ events \in 0..MaxEvents

\* After ipv4_init and arp_init.
Init ==
    /\ pc = "link" /\ link = TRUE /\ prev = TRUE
    /\ needIP = TRUE /\ myIP = "none" /\ eb_ip = "none"
    /\ bootp_timer = 0
    /\ mac = "macA" /\ sockMac = "macA"
    /\ q4 = <<>> /\ qarp = <<>> /\ net = [t \in Types |-> {}]
    /\ asked = FALSE /\ peerMac = "none" /\ answered = FALSE /\ events = 0

-----------------------------------------------------------------------------
\* The network, the BOOTP server and the peer.

Event == events < MaxEvents /\ events' = events + 1

LinkChanges ==
    /\ Event /\ link' = ~link
    /\ net' = [t \in Types |-> {}] /\ asked' = FALSE
    /\ UNCHANGED <<pc, prev, ipVars, mac, sockMac, q4, qarp, peerVars>>

Send(f) == net' = [net EXCEPT ![f.type] = {f}]

ServerAnswers ==
    /\ link /\ asked /\ asked' \in BOOLEAN       \* it may answer twice
    /\ Send([type |-> "bootp", dst |-> mac, ip |-> "lease"])
    /\ UNCHANGED <<pc, link, prev, ipVars, mac, sockMac, q4, qarp, peerVars, events>>

\* The peer wants to reach the address the core has been given.
PeerAsks ==
    /\ link /\ myIP # "none" /\ peerMac = "none"
    /\ Send([type |-> "arp", dst |-> "broadcast", ip |-> myIP])
    /\ UNCHANGED <<pc, link, prev, ipVars, mac, sockMac, q4, qarp, asked, peerVars, events>>

PeerPings ==
    /\ link /\ peerMac # "none" /\ ~answered
    /\ Send([type |-> "echo", dst |-> peerMac, ip |-> myIP])
    /\ UNCHANGED <<pc, link, prev, ipVars, mac, sockMac, q4, qarp, asked, peerVars, events>>

\* The entry of the peer's ARP cache expires; it will want to ping again.
PeerForgets ==
    /\ answered /\ peerMac' = "none" /\ answered' = FALSE /\ Event
    /\ UNCHANGED <<pc, link, prev, ipVars, mac, sockMac, q4, qarp, net, asked>>

-----------------------------------------------------------------------------
\* The shell commands.

\* setIP: also into the Etherbone core; a new address ends the training.
SetIP(ip) ==
    /\ myIP' = ip /\ eb_ip' = ip
    /\ needIP' = (ip = "none")
    /\ bootp_timer' = IF ip = "none" THEN bootp_timer ELSE 0

\* ip set.  From now on the peer is interested in the new address.
CmdIp ==
    /\ pc = "link" /\ Event
    /\ \E ip \in {"none", "manual"} : SetIP(ip)
    /\ peerMac' = "none" /\ answered' = FALSE
    /\ UNCHANGED <<pc, link, prev, mac, sockMac, q4, qarp, net, asked>>

\* mac set: set_mac_addr and pfilter_init_default.
CmdMacSet ==
    /\ pc = "link" /\ Event
    /\ mac' = "macB"
    /\ UNCHANGED <<pc, link, prev, ipVars, sockMac, q4, qarp, net, asked, peerVars>>

-----------------------------------------------------------------------------
\* The main loop.

\* The packet filter passes broadcasts and frames for the endpoint's MAC;
\* update_rx_queues looks for a socket bound to the frame's address.
Queue4(f) == IF f.type # "arp" /\ f.dst = mac /\ f.dst = sockMac /\ Len(q4) < QueueLen
             THEN Append(q4, f) ELSE q4
QueueArp(f) == IF f.type = "arp" /\ Len(qarp) < QueueLen THEN Append(qarp, f) ELSE qarp

\* wrc_check_link and update_rx_queues: at most one frame, which the network
\* may deliver again later.
ReceiveFrame(type) ==
    /\ pc = "link" /\ link /\ prev
    /\ \E f \in net[type] : q4' = Queue4(f) /\ qarp' = QueueArp(f)
    /\ net' \in {net, [net EXCEPT ![type] = {}]}
    /\ pc' = "ipv4"
    /\ UNCHANGED <<link, prev, ipVars, mac, sockMac, asked, peerVars, events>>

\* No frame, or a link that is not up (then nothing is polled), or that has
\* just come up (then a new address is needed).
CheckLink ==
    /\ pc = "link"
    /\ pc' = IF link /\ prev THEN "ipv4" ELSE "link"
    /\ prev' = link
    /\ needIP' = (needIP \/ (link /\ ~prev))
    /\ UNCHANGED <<link, myIP, eb_ip, bootp_timer, mac, sockMac, q4, qarp,
                   net, asked, peerVars, events>>

\* process_bootp: any answer whose CHADDR is the MAC address of now, whatever
\* its transaction; the server sends its answer to the CHADDR of the request.
ProcessBootp == IF Head(q4).dst = mac THEN SetIP(Head(q4).ip) ELSE UNCHANGED ipVars

\* process_icmp: an echo request for the address of the core is answered.
ProcessIcmp == answered' = (answered \/ Head(q4).ip = myIP)

\* Mutated: a BOOTP answer is taken also when none is waited for.
Ipv4ReceiveAlways ==
    CASE q4 = <<>> -> UNCHANGED <<ipVars, peerVars>>
      [] q4 # <<>> /\ Head(q4).type = "bootp" -> ProcessBootp /\ UNCHANGED peerVars
      [] OTHER -> UNCHANGED <<ipVars, peerMac>> /\ (IF needIP THEN UNCHANGED answered ELSE ProcessIcmp)

\* The frame at the head of the IPv4 queue, if there is one.
Ipv4Receive ==
    CASE q4 = <<>> -> UNCHANGED <<ipVars, peerVars>>
      [] q4 # <<>> /\ Head(q4).type = "bootp" ->
            IF needIP THEN ProcessBootp /\ UNCHANGED peerVars
                      ELSE UNCHANGED <<ipVars, peerVars>>
      [] OTHER -> UNCHANGED <<ipVars, peerMac>> /\ (IF needIP THEN UNCHANGED answered ELSE ProcessIcmp)

\* ipv4_poll, first half: one packet.
Ipv4Poll ==
    /\ pc = "ipv4" /\ pc' = "bootp"
    /\ Ipv4Receive
    /\ q4' = IF q4 = <<>> THEN q4 ELSE Tail(q4)
    /\ UNCHANGED <<link, prev, mac, sockMac, qarp, net, asked, events>>

\* Mutated: the request is not sent again.
BootpPollOnce ==
    /\ pc = "bootp" /\ pc' = "arp"
    /\ asked' = (asked \/ (link /\ needIP /\ bootp_timer = 0))
    /\ bootp_timer' = IF needIP /\ bootp_timer < BootpPeriod - 1
                      THEN bootp_timer + 1 ELSE bootp_timer
    /\ UNCHANGED <<link, prev, needIP, myIP, eb_ip, mac, sockMac, q4, qarp, net,
                   peerVars, events>>

\* Mutated: the timer comes round a turn late.
BootpPollLate ==
    /\ pc = "bootp" /\ pc' = "arp"
    /\ asked' = (asked \/ (link /\ needIP /\ bootp_timer = 0))
    /\ bootp_timer' = IF needIP THEN (bootp_timer + 1) % (BootpPeriod + 1) ELSE bootp_timer
    /\ UNCHANGED <<link, prev, needIP, myIP, eb_ip, mac, sockMac, q4, qarp, net,
                   peerVars, events>>

\* ipv4_poll, second half: a BOOTP request when the timer has come round.
BootpPoll ==
    /\ pc = "bootp" /\ pc' = "arp"
    /\ asked' = (asked \/ (link /\ needIP /\ bootp_timer = 0))
    /\ bootp_timer' = IF needIP THEN (bootp_timer + 1) % BootpPeriod ELSE bootp_timer
    /\ UNCHANGED <<link, prev, needIP, myIP, eb_ip, mac, sockMac, q4, qarp, net,
                   peerVars, events>>

\* Mutated: a request for another host is not taken off the queue.
ArpPollFullStays ==
    /\ pc = "arp" /\ pc' = "link"
    /\ IF needIP \/ qarp = <<>> \/ Head(qarp).ip # myIP
       THEN UNCHANGED <<qarp, peerMac>>
       ELSE qarp' = Tail(qarp) /\ peerMac' = IF link THEN mac ELSE peerMac
    /\ UNCHANGED <<link, prev, ipVars, mac, sockMac, q4, net, asked, answered, events>>

\* arp_poll: without an address the queue is left alone; a request for the
\* address of the core is answered with the endpoint's MAC address.
ArpPoll ==
    /\ pc = "arp" /\ pc' = "link"
    /\ IF needIP \/ qarp = <<>>
       THEN UNCHANGED <<qarp, peerMac>>
       ELSE /\ qarp' = Tail(qarp)
            /\ peerMac' = IF link /\ Head(qarp).ip = myIP THEN mac ELSE peerMac
    /\ UNCHANGED <<link, prev, ipVars, mac, sockMac, q4, net, asked, answered, events>>

-----------------------------------------------------------------------------
Loop == CheckLink \/ Ipv4Poll \/ BootpPoll \/ ArpPoll
        \/ \E type \in Types : ReceiveFrame(type)

Next ==
    \/ Loop \/ CmdIp \/ CmdMacSet \/ LinkChanges
    \/ ServerAnswers \/ PeerAsks \/ PeerPings \/ PeerForgets

\* The loop runs, the server answers, the peer goes on trying, and of frames
\* that are sent again and again some arrive.
Fairness ==
    /\ WF_vars(Loop) /\ WF_vars(ServerAnswers)
    /\ WF_vars(PeerAsks) /\ WF_vars(PeerPings)
    /\ \A type \in Types : SF_vars(ReceiveFrame(type))

Spec == Init /\ [][Next]_vars /\ Fairness

-----------------------------------------------------------------------------
(***************************************************************************)
(* The address a user set is not taken away by the network: a BOOTP answer *)
(* that was delayed or repeated and arrives after "ip set" is ignored.     *)
(***************************************************************************)
ManualKept ==
    [][(myIP = "manual" /\ ~needIP /\ myIP' # "manual") => events' # events]_vars

(***************************************************************************)
(* While the link stays up the core gets an address in the end, although   *)
(* requests and answers are lost, and whatever the queues held before, as  *)
(* long as nobody has used "mac set".                                      *)
(***************************************************************************)
GetsAddress == <>[](link /\ mac = sockMac) => <>[]~needIP

(***************************************************************************)
(* A peer that goes on trying reaches the core: its ARP request is         *)
(* answered even if the queue filled up during BOOTP, and the MAC address  *)
(* it is told is one under which the core then answers a ping, as long as  *)
(* nobody has used "mac set".                                              *)
(***************************************************************************)
PeerReaches == <>[](link /\ mac = sockMac) => <>[]answered
=============================================================================
