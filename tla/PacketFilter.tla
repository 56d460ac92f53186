---------------------------- MODULE PacketFilter ----------------------------
(***************************************************************************)
(* The packet filter of the endpoint (dev/ep_pfilter.c): the microprogram  *)
(* that pfilter_init_default assembles in each of the three builds, run by *)
(* the processor its header describes: 32 one-bit registers, register 23   *)
(* drops the packet, registers 24 to 31 are its classes.  A packet is told *)
(* apart by what the program compares: destination, type, IP protocol and  *)
(* destination port.                                                       *)
(***************************************************************************)
EXTENDS Integers, Sequences, FiniteSets

Builds == {"plain", "etherbone", "etherbone_nic"}
PFILTER_MAX_CODE_SIZE == 32
MinFrameWords == 30      \* a frame of 60 bytes; one instruction per word

Packets == [dst : {"broadcast", "ptp_multicast", "own", "other"},
            type : {"ipv4", "ptp", "arp", "streamer", "other"},
            proto : {"icmp", "udp", "other"},
            dport : {"bootpc", "etherbone", "other"}]

\* Instructions.  The comparisons of the three words of an address are one
\* idea: the first one moves, the others and (AddressIs below).
Cmp(offset, what, value, op, rd) ==
    [code |-> "cmp", offset |-> offset, what |-> what, value |-> value, op |-> op, rd |-> rd]
Logic3(rd, ra, op, rb, op2, rc) ==
    [code |-> "logic", rd |-> rd, ra |-> ra, op |-> op, rb |-> rb, op2 |-> op2, rc |-> rc]
Logic2(rd, ra, op, rb) == Logic3(rd, ra, op, rb, "MOV", 0)
Nop == [code |-> "nop"]
Fin == [code |-> "fin"]

R_CLASS(x) == 24 + x
R_DROP == 23

AddressIs(dst, rd) ==
    << Cmp(0, "dst", dst, "MOV", rd), Cmp(1, "dst", dst, "AND", rd),
       Cmp(2, "dst", dst, "AND", rd) >>

\* r1 broadcast, r2 PTP multicast, r3 own address; r4 IPv4, r5 PTP, r6 ARP,
\* r9 streamer; r7 ICMP, r8 UDP
Common ==
    <<Nop>> \o AddressIs("broadcast", 1) \o AddressIs("ptp_multicast", 2)
    \o AddressIs("own", 3)
    \o << Cmp(6, "type", "ipv4", "MOV", 4), Cmp(6, "type", "ptp", "MOV", 5),
          Cmp(6, "type", "arp", "MOV", 6), Cmp(6, "type", "streamer", "MOV", 9),
          Cmp(11, "proto", "icmp", "MOV", 7), Cmp(11, "proto", "udp", "MOV", 8) >>

\* r15: BOOTP, ICMP, ARP broadcast or PTP
EtherboneCommon ==
    << Logic3(10, 3, "OR", 0, "AND", 4), Logic3(11, 1, "OR", 3, "AND", 4),
       Logic3(14, 1, "AND", 6, "OR", 5), Logic3(15, 10, "AND", 7, "OR", 14),
       Cmp(18, "dport", "bootpc", "MOV", 14), Logic3(14, 14, "AND", 8, "AND", 11),
       Logic2(15, 14, "OR", 15) >>

EtherboneNic ==
    << Cmp(18, "dport", "etherbone", "MOV", 6), Logic2(R_CLASS(0), 15, "MOV", 0),
       Logic2(R_CLASS(5), 6, "OR", 0), Logic3(R_CLASS(7), 15, "OR", 6, "NOT", 0) >>

EtherboneOnly ==
    << Logic3(20, 11, "AND", 8, "OR", 15), Logic3(R_DROP, 20, "OR", 9, "NOT", 0),
       Logic2(R_CLASS(7), 11, "AND", 8), Logic2(R_CLASS(6), 1, "AND", 9),
       Logic2(R_CLASS(0), 15, "MOV", 0) >>

Plain ==
    << Logic3(10, 3, "OR", 2, "AND", 5), Logic2(11, 1, "AND", 9),
       Logic3(12, 10, "OR", 11, "NOT", 0), Logic2(R_CLASS(7), 12, "MOV", 0),
       Logic2(R_CLASS(6), 11, "MOV", 0), Logic2(R_CLASS(0), 10, "MOV", 0) >>

\* pfilter_init_default, with the FIN that pfilter_load appends
pfilter_init_default(build) ==
    Common
    \o (CASE build = "plain" -> Plain
          [] build = "etherbone" -> EtherboneCommon \o EtherboneOnly
          [] build = "etherbone_nic" -> EtherboneCommon \o EtherboneNic)
    \o <<Fin>>

-----------------------------------------------------------------------------
\* The processor (external).

Apply(op, a, b) ==
    CASE op = "MOV" -> a [] op = "NOT" -> ~a
      [] op = "AND" -> a /\ b [] op = "OR" -> a \/ b

\* A comparison writes its own result with MOV, and combines it otherwise.
Execute(regs, ins, packet) ==
    CASE ins.code = "cmp" ->
           LET hit == packet[ins.what] = ins.value
           IN  [regs EXCEPT ![ins.rd] = IF ins.op = "MOV" THEN hit ELSE Apply(ins.op, @, hit)]
      [] ins.code = "logic" ->
           [regs EXCEPT ![ins.rd] =
               Apply(ins.op2, Apply(ins.op, regs[ins.ra], regs[ins.rb]), regs[ins.rc])]
      [] OTHER -> regs

Run(build, packet) ==
    LET code == pfilter_init_default(build)
        R[pc \in 0..Len(code)] ==
            IF pc = 0 THEN [r \in 0..31 |-> FALSE] ELSE Execute(R[pc - 1], code[pc], packet)
    IN  R[Len(code)]

Classes(build, packet) ==
    IF Run(build, packet)[R_DROP] THEN {}
    ELSE {c \in 0..7 : Run(build, packet)[R_CLASS(c)]}
=============================================================================
