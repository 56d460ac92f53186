--------------------------- MODULE IpStackProofs ---------------------------
(***************************************************************************)
(* The type invariant of the IP stack and the protection of an address set *)
(* by hand, for every BOOTP period, queue length and number of events.     *)
(***************************************************************************)
EXTENDS IpStack, TLAPS

Queued4 == {f \in Frames : f.type # "arp"}
QueuedArp == {f \in Frames : f.type = "arp"}

(* What the queues and the network hold: only frames of their own kind; a  *)
(* peer that has the core's MAC address has got it for an address the core *)
(* has, so that what it pings is an address.                               *)
Contents ==
    /\ q4 \in Seq(Queued4) /\ qarp \in Seq(QueuedArp)
    /\ \A t \in Types : \A f \in net[t] : f.type = t
    /\ peerMac # "none" => myIP # "none"

IInv == TypeOK /\ Contents

(* The conjunct of TypeOK about the variables that are true or false.      *)
Flags == {link, prev, needIP, asked, answered} \subseteq BOOLEAN

-----------------------------------------------------------------------------
(* A frame that is sent takes the place of the one of its type.            *)
LEMMA SendKeeps ==
    ASSUME IInv, NEW f \in Frames, Send(f)
    PROVE  /\ net' \in [Types -> SUBSET Frames]
           /\ \A t \in Types : \A g \in net'[t] : g.type = t
<1>1. f.type \in Types
  BY DEF Frames, Types
<1>2. QED
  BY <1>1 DEF IInv, TypeOK, Contents, Send

(* The frame that a socket takes is at most one more in its queue, and of  *)
(* the socket's kind.                                                      *)
LEMMA QueuesKeep ==
    ASSUME IInv, NEW f \in Frames
    PROVE  /\ Queue4(f) \in Seq(Queued4) /\ Len(Queue4(f)) <= QueueLen
           /\ QueueArp(f) \in Seq(QueuedArp) /\ Len(QueueArp(f)) <= QueueLen
<1> USE IpStackAssumption
<1>1. CASE f.type = "arp"
  BY <1>1 DEF IInv, TypeOK, Contents, Queue4, QueueArp, QueuedArp
<1>2. CASE f.type # "arp"
  BY <1>2 DEF IInv, TypeOK, Contents, Queue4, QueueArp, Queued4
<1>3. QED
  BY <1>1, <1>2

(* What a poll takes off its queue is a frame, and the rest is a queue.    *)
LEMMA TailKeeps ==
    ASSUME NEW S, NEW q \in Seq(S), q # <<>>, NEW n \in Nat, Len(q) <= n
    PROVE  Head(q) \in S /\ Tail(q) \in Seq(S) /\ Len(Tail(q)) <= n
OBVIOUS

(* Both halves of the invariant hold after ipv4_init and arp_init.         *)
LEMMA InitIInv == Init => IInv
<1> SUFFICES ASSUME Init PROVE IInv
  OBVIOUS
<1>1. Flags
  BY Zenon DEF Init, Flags
<1>2. Contents
  BY DEF Init, Contents
<1>3. QED
  BY <1>1, <1>2, IpStackAssumption DEF Init, IInv, TypeOK, Macs, Flags

(* One step of the loop, of the shell, of the server or of the peer keeps  *)
(* the invariant.                                                          *)
LEMMA StepIInv == IInv /\ [Next]_vars => IInv'
<1> SUFFICES ASSUME IInv, [Next]_vars PROVE IInv'
  OBVIOUS
<1> USE IpStackAssumption
<1>1. CASE LinkChanges
  <2>1. Flags'
    BY <1>1, Zenon DEF IInv, TypeOK, Flags, LinkChanges, ipVars, peerVars
  <2>2. QED
    BY <1>1, <2>1 DEF IInv, TypeOK, Contents, Flags, LinkChanges, Event, ipVars, peerVars
<1>2. CASE ServerAnswers
  <2>1. [type |-> "bootp", dst |-> mac, ip |-> "lease"] \in Frames
    BY DEF IInv, TypeOK, Frames
  <2>2. QED
    BY <1>2, <2>1, SendKeeps DEF IInv, TypeOK, Contents, ServerAnswers, ipVars, peerVars
<1>3. CASE PeerAsks
  <2>1. [type |-> "arp", dst |-> "broadcast", ip |-> myIP] \in Frames
    BY <1>3 DEF IInv, TypeOK, Frames, PeerAsks
  <2>2. QED
    BY <1>3, <2>1, SendKeeps DEF IInv, TypeOK, Contents, PeerAsks, ipVars, peerVars
<1>4. CASE PeerPings
  <2>1. [type |-> "echo", dst |-> peerMac, ip |-> myIP] \in Frames
    BY <1>4 DEF IInv, TypeOK, Contents, Frames, PeerPings
  <2>2. QED
    BY <1>4, <2>1, SendKeeps DEF IInv, TypeOK, Contents, PeerPings, ipVars, peerVars
<1>5. CASE PeerForgets
  <2>1. Flags'
    BY <1>5, Zenon DEF IInv, TypeOK, Flags, PeerForgets, ipVars
  <2>2. QED
    BY <1>5, <2>1 DEF IInv, TypeOK, Contents, Flags, PeerForgets, Event, ipVars
<1>6. CASE CmdIp
  <2>1. Flags'
    BY <1>6, Zenon DEF IInv, TypeOK, Flags, CmdIp, SetIP
  <2>2. QED
    BY <1>6, <2>1 DEF IInv, TypeOK, Contents, Flags, CmdIp, SetIP, Event
<1>7. CASE CmdMacSet
  BY <1>7 DEF IInv, TypeOK, Contents, CmdMacSet, Event, ipVars, peerVars, Macs
<1>8. CASE CheckLink
  <2>1. Flags'
    BY <1>8, Zenon DEF IInv, TypeOK, Flags, CheckLink, peerVars
  <2>2. QED
    BY <1>8, <2>1 DEF IInv, TypeOK, Contents, Flags, CheckLink, peerVars
<1>9. CASE Ipv4Poll
  <2>1. q4' \in Seq(Queued4) /\ Len(q4') <= QueueLen
    BY <1>9, TailKeeps DEF IInv, TypeOK, Contents, Ipv4Poll
  <2>2. q4 # <<>> => Head(q4) \in Queued4
    BY TailKeeps DEF IInv, TypeOK, Contents
  <2>3. q4 # <<>> /\ Head(q4).type = "bootp" => Head(q4).ip = "lease"
    BY <2>2 DEF Queued4, Frames
  <2>4. /\ {needIP', answered'} \subseteq BOOLEAN
        /\ myIP' \in {"none", "lease", "manual"} /\ eb_ip' = myIP'
        /\ bootp_timer' \in 0..(BootpPeriod - 1)
        /\ peerMac' = peerMac /\ (myIP # "none" => myIP' # "none")
    <3>1. CASE q4 = <<>>
      BY <1>9, <3>1 DEF IInv, TypeOK, Ipv4Poll, Ipv4Receive, ipVars, peerVars
    <3>2. CASE q4 # <<>> /\ Head(q4).type = "bootp"
      <4>1. \/ needIP /\ SetIP("lease") /\ UNCHANGED peerVars
            \/ UNCHANGED <<ipVars, peerVars>>
        BY <1>9, <2>3, <3>2, Zenon DEF Ipv4Poll, Ipv4Receive, ProcessBootp
      <4>2. CASE SetIP("lease") /\ UNCHANGED peerVars
        BY <4>2 DEF IInv, TypeOK, SetIP, peerVars
      <4>3. CASE UNCHANGED <<ipVars, peerVars>>
        BY <4>3 DEF IInv, TypeOK, ipVars, peerVars
      <4>4. QED
        BY <4>1, <4>2, <4>3
    <3>3. CASE q4 # <<>> /\ Head(q4).type # "bootp"
      BY <1>9, <3>3 DEF IInv, TypeOK, Ipv4Poll, Ipv4Receive, ProcessIcmp, ipVars, peerVars
    <3>4. QED
      BY <3>1, <3>2, <3>3
  <2>5. QED
    BY <1>9, <2>1, <2>4 DEF IInv, TypeOK, Contents, Ipv4Poll
<1>10. CASE BootpPoll
  <2>1. bootp_timer' \in 0..(BootpPeriod - 1)
    BY <1>10 DEF IInv, TypeOK, BootpPoll
  <2>2. QED
    BY <1>10, <2>1 DEF IInv, TypeOK, Contents, BootpPoll, peerVars
<1>11. CASE ArpPoll
  <2>1. qarp' \in Seq(QueuedArp) /\ Len(qarp') <= QueueLen
    <3>1. qarp' = qarp \/ (qarp # <<>> /\ qarp' = Tail(qarp))
      BY <1>11 DEF ArpPoll
    <3>2. qarp \in Seq(QueuedArp) /\ Len(qarp) <= QueueLen
      BY DEF IInv, TypeOK, Contents
    <3>3. QED
      BY <3>1, <3>2, TailKeeps
  <2>2. qarp # <<>> => Head(qarp).ip # "none"
    <3>1. qarp # <<>> => Head(qarp) \in QueuedArp
      BY TailKeeps DEF IInv, TypeOK, Contents
    <3>2. QED
      BY <3>1 DEF QueuedArp, Frames
  <2>3. peerMac' \in Macs \cup {"none"} /\ (peerMac' # "none" => myIP # "none")
    BY <1>11, <2>2 DEF IInv, TypeOK, Contents, ArpPoll
  <2>4. QED
    BY <1>11, <2>1, <2>3 DEF IInv, TypeOK, Contents, ArpPoll, ipVars
<1>12. ASSUME NEW type \in Types, ReceiveFrame(type)
       PROVE  IInv'
  <2>1. PICK f \in net[type] : q4' = Queue4(f) /\ qarp' = QueueArp(f)
    BY <1>12 DEF ReceiveFrame
  <2>2. f \in Frames
    BY DEF IInv, TypeOK
  <2>3. /\ q4' \in Seq(Queued4) /\ Len(q4') <= QueueLen
        /\ qarp' \in Seq(QueuedArp) /\ Len(qarp') <= QueueLen
    BY <2>1, <2>2, QueuesKeep
  <2>4. /\ net' \in [Types -> SUBSET Frames]
        /\ \A t \in Types : \A g \in net'[t] : g.type = t
    BY <1>12 DEF IInv, TypeOK, Contents, ReceiveFrame
  <2>5. QED
    BY <1>12, <2>3, <2>4 DEF IInv, TypeOK, Contents, ReceiveFrame, ipVars, peerVars
<1>13. CASE UNCHANGED vars
  BY <1>13 DEF IInv, TypeOK, Contents, vars, ipVars, peerVars
<1>14. QED
  BY <1>1, <1>2, <1>3, <1>4, <1>5, <1>6, <1>7, <1>8, <1>9, <1>10, <1>11, <1>12,
     <1>13 DEF Next, Loop

(* The inductive invariant holds in every state.                           *)
LEMMA IInvAlways == Spec => []IInv
BY InitIInv, StepIInv, PTL DEF Spec

(***************************************************************************)
(* The variables of the IP stack keep their types in every behaviour: the  *)
(* queues of the sockets never pass their length, the BOOTP timer its      *)
(* period, and the Etherbone core always has the address of the stack.     *)
(***************************************************************************)
THEOREM IpStackTypes == Spec => []TypeOK
<1>1. IInv => TypeOK
  BY DEF IInv
<1>2. QED
  BY <1>1, IInvAlways, PTL

(***************************************************************************)
(* An address set by "ip set" is only taken away by a command or by a link *)
(* that came back, never by a BOOTP answer that was delayed or repeated:   *)
(* process_bootp is reached only while an address is needed.               *)
(***************************************************************************)
THEOREM IpStackManualKept == Spec => ManualKept
<1> DEFINE Kept == (myIP = "manual" /\ ~needIP /\ myIP' # "manual") => events' # events
<1>1. IInv /\ [Next]_vars => [Kept]_vars
  <2> SUFFICES ASSUME IInv, [Next]_vars, myIP = "manual", ~needIP, myIP' # myIP
               PROVE  events' # events
    BY DEF vars
  <2>1. CASE CmdIp
    BY <2>1, IpStackAssumption DEF CmdIp, Event, IInv, TypeOK
  <2>2. ~Ipv4Poll
    BY DEF Ipv4Poll, Ipv4Receive, ipVars
  <2>3. ~LinkChanges /\ ~ServerAnswers /\ ~PeerAsks /\ ~PeerPings /\ ~PeerForgets /\ ~CmdMacSet
    BY DEF LinkChanges, ServerAnswers, PeerAsks, PeerPings, PeerForgets, CmdMacSet, ipVars
  <2>4. ~CheckLink /\ ~BootpPoll /\ ~ArpPoll /\ \A type \in Types : ~ReceiveFrame(type)
    BY DEF CheckLink, BootpPoll, ArpPoll, ReceiveFrame, ipVars
  <2>5. myIP' = myIP \/ Next
    BY DEF vars, ipVars
  <2>6. QED
    BY <2>1, <2>2, <2>3, <2>4, <2>5 DEF Next, Loop
<1>2. QED
  BY <1>1, IInvAlways, PTL DEF Spec, ManualKept
=============================================================================
