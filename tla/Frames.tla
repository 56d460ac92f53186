------------------------------- MODULE Frames -------------------------------
(***************************************************************************)
(* Frames.  The link of the endpoint (dev/endpoint.c); the buffers of the  *)
(* MiniNIC (dev/minic.c), the copies in the circular RX buffer and the     *)
(* frame that is put into the TX buffer; and the packets the IP stack      *)
(* sends (lib/ipv4.c, bootp.c, icmp.c) with their checksums.  A packet is  *)
(* a sequence of words; constant fields of the headers are some numbers.   *)
(* The echo reply, whose length may be odd, is a sequence of bytes, two to *)
(* a word.                                                                 *)
(***************************************************************************)
EXTENDS Integers, Sequences, SequencesExt, FiniteSetsExt

CONSTANTS
    RingBytes,      \* minic.rx_size << 2: 2048
    ETH_HEADER_SIZE \* 14

-----------------------------------------------------------------------------
\* The PHY: lost is the latch of a loss of the link since the last read of
\* its status register.
Phy0 == [up |-> FALSE, lost |-> FALSE, complete |-> FALSE, aneg |-> FALSE]
PhyEvents == {"up", "down", "negotiated"}
PhyAfter(phy, e) ==
    CASE e = "up" -> [phy EXCEPT !.up = TRUE]
      [] e = "down" -> [phy EXCEPT !.up = FALSE, !.lost = TRUE, !.complete = FALSE]
      [] e = "negotiated" -> [phy EXCEPT !.complete = phy.up /\ phy.aneg]
PhyThen(phy, events) == FoldLeft(PhyAfter, phy, events)

\* pcs_write of MCR: power down or reset ends the link and the negotiation,
\* which starts again when it is enabled.
WriteMcr(phy, reset, aneg) ==
    [phy EXCEPT !.up = IF reset THEN FALSE ELSE @, !.lost = @ \/ reset, !.complete = FALSE, !.aneg = aneg]
\* pcs_read of MSR.
ReadMsr(phy) == [link |-> phy.up /\ ~phy.lost, complete |-> phy.complete, phy |-> [phy EXCEPT !.lost = ~phy.up]]

ep_enable(phy, autoneg) ==
    WriteMcr(WriteMcr(WriteMcr(WriteMcr(phy, TRUE, FALSE), TRUE, FALSE), FALSE, FALSE), FALSE, autoneg)

\* between: what happens between the two reads.
LinkFlags(msr, autoneg) == msr.link /\ (autoneg => msr.complete)
\* Mutated: the latched status is read once.
ep_link_upOnce(phy, between, autoneg) == LinkFlags(ReadMsr(phy), autoneg)

ep_link_up(phy, between, autoneg) ==
    LinkFlags(ReadMsr(PhyThen(ReadMsr(phy).phy, between)), autoneg)

-----------------------------------------------------------------------------
\* The RX buffer, a function on 0..(RingBytes - 1); src may be behind its end.
Bytes(mem, first, n) == [i \in 1..n |-> mem[first + i - 1]]
minic_rx_memcpy(mem, addr, size) ==
    LET src == addr % RingBytes
        part == RingBytes - src
    IN  IF src + size <= RingBytes THEN Bytes(mem, src, size)
        ELSE Bytes(mem, src, part) \o Bytes(mem, 0, size - part)

Fill(mem, first, n, c) == [a \in DOMAIN mem |-> IF a \in first..(first + n - 1) THEN c ELSE mem[a]]
minic_rx_memset(mem, addr, c, size) ==
    LET src == addr % RingBytes
        part == RingBytes - src
    IN  IF src + size <= RingBytes THEN Fill(mem, src, size, c)
        ELSE Fill(Fill(mem, src, part, c), 0, size - part, c)

-----------------------------------------------------------------------------
\* The TX buffer.  A descriptor takes the first four bytes, nwords counts
\* 16-bit words.
Poke(mem, at, bytes) ==
    [a \in DOMAIN mem |-> IF a \in at..(at + Len(bytes) - 1) THEN bytes[a - at + 1] ELSE mem[a]]
MinSize == 60

\* The frame is put behind the descriptor, over zeros up to the minimal size.
FrameIn(buf, hdr, payload, size) ==
    LET zeroed == Fill(Fill(buf, 0, size + 16, 0), 4, IF size < MinSize THEN MinSize ELSE size, 0)
    IN  Poke(Poke(zeroed, 4, hdr), 4 + ETH_HEADER_SIZE, payload)

\* stamped: there is a timestamp within 100 ms and it is valid.
minic_tx_frame(buf, hdr, payload, hwts, stamped) ==
    LET asked == Len(hdr) + Len(payload)
        size == IF asked < MinSize THEN MinSize ELSE asked
        nwords == (size + 1) \div 2
        started == Poke(Fill(FrameIn(buf, hdr, payload, asked), 4 * nwords, 4, 0), 0,
                        <<IF hwts THEN "oob" ELSE "plain", nwords, "", "">>)
    IN  [buf |-> started, ret |-> size, valid |-> hwts /\ stamped,
         wire |-> Bytes(started, 4, 2 * nwords)]

-----------------------------------------------------------------------------
CONSTANTS
    OctetMod,     \* 2^8
    MaxBody       \* 64: bytes of an echo body that are sent back

HalfwordMod == OctetMod * OctetMod

WordSum(words) == FoldLeft(LAMBDA a, b : a + b, 0, words)

\* ipv4_checksum: the carries are added, and the carry of that once more.
ipv4_checksum(words) ==
    LET s == WordSum(words)
        folded == (s \div HalfwordMod) + (s % HalfwordMod)
        again == folded + (folded \div HalfwordMod)
    IN  (HalfwordMod - 1) - (again % HalfwordMod)

\* What a receiver checks: the one's complement sum of all words is zero.
Verifies(words) == WordSum(words) % (HalfwordMod - 1) = 0

-----------------------------------------------------------------------------
\* send_bootp.  The pseudo-header of the UDP checksum is built in place, in
\* the words 5 to 10 of the IP header, which is written afterwards.
IpWords(proto, len) ==
    <<5, len, 0, 0, proto, 0, 0, 0, HalfwordMod - 1, HalfwordMod - 1>>
PseudoWords(proto, len) == <<0, 0, HalfwordMod - 1, HalfwordMod - 1, proto, len>>
UdpWords(len, payload) == <<4, 3, len, 0>> \o payload

SetWord(words, i, w) == [words EXCEPT ![i] = w]
UdpSum(words) == LET s == ipv4_checksum(words) IN IF s = 0 THEN HalfwordMod - 1 ELSE s

send_bootp(payload) ==
    LET len == Len(payload) + 4
        udp == UdpWords(len, payload)
        ip == IpWords(1, len)
        built == PseudoWords(1, len) \o udp
    IN  SetWord(ip, 6, ipv4_checksum(ip)) \o SetWord(udp, 4, UdpSum(built))

-----------------------------------------------------------------------------
\* process_icmp: the ICMP part of the reply to an echo request of len bytes,
\* made in place; buf goes on behind the packet.  (IP header as in send_bootp.)
Pairs(bytes, n) == [i \in 1..n |-> bytes[2 * i - 1] * OctetMod + bytes[2 * i]]

process_icmp(buf, len) ==
    LET hisBodyLen == IF len - 4 > MaxBody THEN MaxBody ELSE len - 4
        zeroed == [i \in DOMAIN buf |-> IF i <= 4 THEN 0 ELSE buf[i]]
        sum == ipv4_checksum(Pairs(zeroed, (hisBodyLen + 4 + 1) \div 2))
    IN  SubSeq([zeroed EXCEPT ![3] = sum \div OctetMod, ![4] = sum % OctetMod],
               1, hisBodyLen + 4)
=============================================================================
