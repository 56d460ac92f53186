------------------------------ MODULE Drivers ------------------------------
(***************************************************************************)
(* The computations of the drivers (dev/) as jobs: their inputs and what   *)
(* is checked of them.                                                     *)
(***************************************************************************)
EXTENDS Jobs, RxtsCalibrator, OneWire, Timekeeping, PacketFilter, Sdb, I2cBus, Ad9516, UartSw, Frames

CONSTANTS
    Jitter,     \* samples this close to an edge may read either way
    MaxTime,    \* bound: last instant of a reading of the time
    MemSize,    \* bound: bytes of the 1-wire EEPROM
    SdbTrees    \* the bus descriptions that are looked at

-----------------------------------------------------------------------------
\* Inputs.

\* What the sampled bit reads at phase p when the rising edge is at edge.
Level(edge, p) ==
    IF (p - edge) % REF_CLOCK_PERIOD_PS < REF_CLOCK_PERIOD_PS \div 2 THEN 1 ELSE 0
Unsure(edge) ==
    {i \in 1..NumSamples : Level(edge, PhaseOf(i) - Jitter) # Level(edge, PhaseOf(i) + Jitter)}
Sweeps(edge) ==
    {[i \in 1..NumSamples |-> IF i \in DOMAIN noise THEN noise[i] ELSE Level(edge, PhaseOf(i))] :
        noise \in [Unsure(edge) -> {0, 1}]}

Calibrate ==
    \E edge \in 0..(REF_CLOCK_PERIOD_PS - 1) : \E s \in Sweeps(edge) :
        Start([alg |-> "rxts", edge |-> edge, flips |-> s])

StoreT24p ==
    \E ee \in [ok : BOOLEAN, valid : BOOLEAN, val : 0..(REF_CLOCK_PERIOD_PS - 1)],
       measured \in -1..(REF_CLOCK_PERIOD_PS - 1), mode \in {"slave", "master"} :
        Start([alg |-> "t24p", ee |-> ee, measured |-> measured, mode |-> mode])

ScanBus == \E d \in SUBSET SUBSET (0..(RomBits - 1)) :
    Start([alg |-> "w1_scan", devices |-> d])

\* The bytes written are all "new", the memory holds "old".
WriteEeprom ==
    \E offset \in 0..(MemSize - 1) : \E len \in 0..(MemSize - offset),
       bad \in SUBSET (0..((MemSize - 1) \div PageSize)) :
        Start([alg |-> "w1_write", offset |-> offset, len |-> len, bad |-> bad])

\* The five reads of two attempts, each shorter than a second, and a frame
\* that left less than a quarter of a second before the reading ends.
Instants == {r \in [1..5 -> 0..MaxTime] : \A i \in 1..4 : r[i] <= r[i + 1]}
GetTime ==
    \E a \in Instants : \E b \in {a, [i \in 1..5 |-> a[5] + i]} :
        /\ a[5] - a[1] < CyclesPerSec
        /\ Start([alg |-> "time", ts |-> <<a, b>>])

TxFrame ==
    \E a \in Instants : \E left \in 0..a[1] :
        /\ a[5] - left < CyclesPerSec \div 4
        /\ Start([alg |-> "tx", ts |-> <<a>>, left |-> left])

AdjustTime ==
    \E sec \in 0..(LowBase * HighBase - 1), d \in -(LowBase * HighBase)..(LowBase * HighBase) :
        Start([alg |-> "adjust", sec |-> sec, how_much |-> d])

FilterPacket == \E b \in Builds, p \in Packets :
    Start([alg |-> "pfilter", build |-> b, packet |-> p])

FindDevice == \E t \in SdbTrees : \E devid \in {"uart", "pps", "absent"} :
    Start([alg |-> "sdb", tables |-> t, devid |-> devid])

\* A bus at rest; the SFP holds Pattern(k) and a checksum that is right or not.
Bus(dev) == [sda |-> 1, scl |-> 1, dev |-> dev]
Pattern(k, n) == [a \in 0..(n - 1) |-> ((k + 3) * a + k) % Octet]
ReadSfp ==
    \E k \in 0..(Octet - 1), off \in 0..1, absent \in BOOLEAN :
        LET p == Pattern(k, SfpBytes)
            sum == FoldLeft(LAMBDA s, a : s + p[a], off, [a \in 1..(SfpBytes - 1) |-> a - 1]) % Octet
        IN  Start([alg |-> "sfp", mem |-> [p EXCEPT ![SfpBytes - 1] = sum], good |-> off = 0, absent |-> absent])

\* Bytes written to the EEPROM, which takes a while to store each.
UseEeprom ==
    \E offset \in 0..(2 * Octet - 3), len \in 1..3, busy \in 0..2, k \in 0..(Octet - 1) :
        Start([alg |-> "i2c", offset |-> offset, busy |-> busy,
               bytes |-> [i \in 1..len |-> (5 * i + k) % Octet]])

\* The switch starts, cold or again, and two dividers are changed.
StartClocks == \E present \in BOOLEAN, again \in BOOLEAN, serdes \in 0..1 :
    Start([alg |-> "clocks", present |-> present, again |-> again, serdes |-> serdes])
SetDividers ==
    \E o1, o2 \in 0..9, r1 \in {1, 4, 7}, r2 \in {1, 2, 3, 12, 31, 32} :
        Start([alg |-> "dividers", output |-> <<o1, o2>>, ratio |-> <<r1, r2>>])

\* The console runs, until one side has fallen too far behind or has acted on
\* counters that a new start has replaced.
OpenConsole == Start(Console0)
UseConsole == job.alg = "uart" /\ ~job.lossy /\ ~job.torn /\ job' \in ConsoleSteps(job)

\* The link before the endpoint is started, until it is looked at and between
\* the two reads of its status.
Events(n) == UNION {[1..k -> PhyEvents] : k \in 0..n}
CheckLink == \E before \in Events(1), since \in Events(3), between \in Events(2), autoneg \in BOOLEAN :
    Start([alg |-> "link", before |-> before, since |-> since, between |-> between, autoneg |-> autoneg])

CopyRing == \E src \in 0..(2 * RingBytes - 1), size \in 0..RingBytes :
    Start([alg |-> "ring", src |-> src, size |-> size])

\* Two frames after each other in the TX buffer.
SendFrames == \E s1, s2 \in {14, 15, 42, 51, 52, 58, 59, 60, 61, 78}, hwts \in BOOLEAN :
    Start([alg |-> "frames", size |-> <<s1, s2>>, hwts |-> hwts])

DriverJobs ==
    \/ CheckLink \/ CopyRing \/ SendFrames \/ OpenConsole \/ StartClocks \/ SetDividers
    \/ ReadSfp \/ UseEeprom
    \/ Calibrate \/ StoreT24p \/ ScanBus \/ WriteEeprom \/ GetTime
    \/ TxFrame \/ AdjustTime \/ FilterPacket \/ FindDevice

-----------------------------------------------------------------------------
\* Distance on the circle of one clock period.
Distance(a, b) ==
    LET d == (a - b) % REF_CLOCK_PERIOD_PS
    IN  IF d > REF_CLOCK_PERIOD_PS \div 2 THEN REF_CLOCK_PERIOD_PS - d ELSE d

(***************************************************************************)
(* Wherever the transition is in the clock period, however the bit jitters *)
(* around its two edges, and also where the sweep begins in the middle of  *)
(* a level, the calibrator finds both edges within its range and its t24p  *)
(* is off by no more than a scan step and the jitter, across the wrap of   *)
(* the period too.                                                         *)
(***************************************************************************)
TransitionAccurate ==
    job.alg = "rxts" =>
        LET t24p == rxts_calibration(job.flips)
        IN  t24p # -1 /\ Distance(t24p, job.edge) <= CAL_SCAN_STEP + Jitter

(***************************************************************************)
(* After a calibration in slave mode that reports no error, the EEPROM     *)
(* holds what was measured within the margin, for values near zero and     *)
(* whatever was in it before, and the measured value is the one in use.    *)
(***************************************************************************)
StoredMatches ==
    job.alg = "t24p" =>
        LET r == calib_t24p(job.mode, job.ee, job.measured)
        IN  (job.mode = "slave" /\ job.measured # -1 /\ r.rv >= 0) =>
                /\ r.value = job.measured
                /\ r.ee.val - job.measured \in -Margin..Margin

(***************************************************************************)
(* The search of the 1-wire bus reports every device once and nothing      *)
(* else, whatever their ROM numbers share, as long as they differ in the   *)
(* bits an int holds and fit into the table; of too many, it reports a     *)
(* full table of different ones.                                           *)
(***************************************************************************)
FindsDevices ==
    job.alg = "w1_scan" =>
        LET found == w1_scan_bus(job.devices)
            low(d) == d \cap (0..(IntBits - 1))
        IN  (\A c, d \in job.devices : c # d => low(c) # low(d)) =>
                /\ IsInjective(found) /\ Range(found) \subseteq job.devices
                /\ Len(found) = Min({Cardinality(job.devices), W1_MAX_DEVICES})

(***************************************************************************)
(* A write to the 1-wire EEPROM at any offset stores exactly the bytes it  *)
(* was asked to and returns their number; if a page does not verify it     *)
(* returns an error, and what it has stored is a prefix.                   *)
(***************************************************************************)
PagesWritten ==
    job.alg = "w1_write" =>
        LET old == [a \in 0..(MemSize - 1) |-> "old"]
            w == w1_write_eeprom(old, job.offset, [i \in 1..job.len |-> "new"], job.bad)
            Stored(n) == [a \in 0..(MemSize - 1) |->
                             IF a \in job.offset..(job.offset + n - 1) THEN "new" ELSE "old"]
            touched == {(job.offset + i) \div PageSize : i \in 0..(job.len - 1)}
        IN  IF touched \cap job.bad = {}
            THEN w.mem = Stored(job.len) /\ w.ret = job.len
            ELSE w.ret < 0 /\ \E n \in 0..(job.len - 1) : w.mem = Stored(n)

(***************************************************************************)
(* The part number read from an SFP, over two pins and with the second     *)
(* half of the transfer relying on where the first left the device, is the *)
(* one stored in it; it is accepted only with the right checksum, never    *)
(* without an SFP, and the bus is at rest afterwards.                      *)
(***************************************************************************)
PartIdRead ==
    job.alg = "sfp" =>
        \A r \in {sfp_read_part_id(Bus(Device0(job.mem, 1, 0, job.absent)))} :
            /\ (r.ret = 0) = (job.good /\ ~job.absent)
            /\ ~job.absent => r.part_id = [i \in 1..(PnLast - PnFirst + 1) |-> job.mem[PnFirst + i - 1]]
            /\ SdaLine(r.w) = 1 /\ r.w.scl = 1

(***************************************************************************)
(* What is written to the EEPROM byte by byte, the chip being deaf for a   *)
(* while after each, is all stored, at its place, and read back in one     *)
(* transfer; the chip is found before and after.                           *)
(***************************************************************************)
EepromReadsBack ==
    job.alg = "i2c" =>
        LET old == Pattern(1, 2 * Octet)
            len == Len(job.bytes)
            first == IF job.offset = 0 THEN 0 ELSE job.offset - 1
            Want(a) == IF a \in job.offset..(job.offset + len - 1) THEN job.bytes[a - job.offset + 1] ELSE old[a]
        IN  \A p \in {eeprom_present(Bus(Device0(old, 2, job.busy, FALSE)), DeviceAddr)} :
              \A w \in {eeprom_write(p.w, DeviceAddr, job.offset, job.bytes)} :
                \A r \in {eeprom_read(w, DeviceAddr, first, len + 2)} :
                    /\ p.found /\ eeprom_present(r.w, DeviceAddr).found
                    /\ first + len + 1 < 2 * Octet => r.data = [i \in 1..(len + 2) |-> Want(first + i - 1)]
                    /\ w.dev.mem = [a \in DOMAIN old |-> Want(a)]

(***************************************************************************)
(* While neither side falls a whole buffer behind, the host shows what the *)
(* firmware wrote, in order, nothing twice and nothing that was not yet    *)
(* there, and the firmware gets what was typed, in order, however their    *)
(* reads and writes of the shared words fall between each other, and also  *)
(* when the firmware starts anew at any moment but between the host's copy *)
(* of the counters and its use (torn).  What the host skips was never read *)
(* before a start, or it has taken a wrap of the counter for one, or the   *)
(* firmware had already written as much again as the host had read of it,  *)
(* which usw_ll cannot tell from no start at all (wrpc-uart-sw.c:221).  In *)
(* every other case the host that has looked counts from the start on.     *)
(***************************************************************************)
ConsoleDelivers ==
    (job.alg = "uart" /\ ~job.lossy /\ ~job.torn) =>
        /\ \A i \in DOMAIN job.screen :
              /\ job.screen[i] \in 1..job.written
              /\ i > 1 => job.screen[i - 1] < job.screen[i]
        /\ job.lastTaken = job.taken
        /\ (~job.wrapped /\ ~job.outrun) =>
              Range(job.screen) \ (1..job.before) =
                  IF job.hrun = job.run THEN (job.before + 1)..(job.before + job.returned) ELSE {}

(***************************************************************************)
(* The link is reported up exactly when it was up from the first of the    *)
(* two reads to the second, with the negotiation completed since the       *)
(* endpoint was started if it was asked for; a loss before the call, which *)
(* the status register remembers until it is read, does not count.         *)
(***************************************************************************)
LinkTrue ==
    job.alg = "link" =>
        LET phy == PhyThen(ep_enable(PhyThen(Phy0, job.before), job.autoneg), job.since)
            now == PhyThen(phy, job.between)
        IN  ep_link_up(phy, job.between, job.autoneg) =
              (/\ phy.up /\ "down" \notin Range(job.between)
               /\ job.autoneg => now.complete)

(***************************************************************************)
(* What is copied out of the circular buffer, or cleared in it, is what    *)
(* follows the address around the end of the buffer, also for an address   *)
(* behind its end.                                                         *)
(***************************************************************************)
RingCopied ==
    job.alg = "ring" =>
        LET mem == [a \in 0..(RingBytes - 1) |-> a]
            touched == {(job.src + i) % RingBytes : i \in 0..(job.size - 1)}
        IN  /\ minic_rx_memcpy(mem, job.src, job.size) = [i \in 1..job.size |-> (job.src + i - 1) % RingBytes]
            /\ minic_rx_memset(mem, job.src, -1, job.size) = [a \in DOMAIN mem |-> IF a \in touched THEN -1 ELSE a]

(***************************************************************************)
(* A frame goes out as it was given, followed by zeros up to the minimal   *)
(* size and to a whole number of words, never by what an earlier, longer   *)
(* frame left in the buffer.                                               *)
(***************************************************************************)
FramePadded ==
    job.alg = "frames" =>
        LET Frame(k, n) == [i \in 1..n |-> k]
            buf == [a \in 0..199 |-> 9]
            Tx(b, k) == minic_tx_frame(b, Frame(k, ETH_HEADER_SIZE),
                                         Frame(k, job.size[k] - ETH_HEADER_SIZE), job.hwts, TRUE)
            first == Tx(buf, 1)
            second == Tx(first.buf, 2)
        IN  /\ IsPrefix(Frame(2, job.size[2]), second.wire) /\ Len(second.wire) >= MinSize
            /\ \A i \in (job.size[2] + 1)..Len(second.wire) : second.wire[i] = 0

(***************************************************************************)
(* The clocks of the switch have the frequencies the comments of           *)
(* ad9516_init give them, from a VCO of 1500 MHz and a reference of        *)
(* 25 MHz, with dividers that were started together; a chip that does not  *)
(* answer leaves the system on the standby clock; and the system clock is  *)
(* never one the chip does not give, also when the software starts again.  *)
(***************************************************************************)
ClocksRight ==
    job.alg = "clocks" =>
        \A first \in {ad9516_init([Board0 EXCEPT !.present = job.present])} :
            \A r \in {IF job.again THEN ad9516_init(first.c) ELSE first} :
                \A c \in {rts_debug_command(r.c, job.serdes)} :
                    /\ ~c.fault /\ c.sel = (IF job.present THEN 1 ELSE 0) /\ (r.ret = 0) = job.present
                    /\ job.present =>
                         /\ VcoKHz(c, 25) = 1500000 /\ c.locked /\ c.synced /\ c.act = c.buf
                         /\ OutputKHz(c, 25, 9) = 187500
                         /\ OutputKHz(c, 25, 7) = 62500 /\ OutputKHz(c, 25, 4) = 62500

(***************************************************************************)
(* A divider set to a ratio, odd ones too, divides by it at once, and the  *)
(* outputs that do not share it keep theirs, whatever was set before; of   *)
(* the LVDS outputs only while they were not bypassed, which the code      *)
(* never takes back.                                                       *)
(***************************************************************************)
SameDivider(o, p) == o \div 2 = p \div 2
DividerExact ==
    job.alg = "dividers" =>
        LET stuck == job.output[2] >= 6 /\ SameDivider(job.output[1], job.output[2]) /\ job.ratio[1] = 1
        IN  \A c1 \in {ad9516_set_output_divider(ad9516_init(Board0).c, job.output[1], job.ratio[1], 0)} :
              \A c2 \in {ad9516_set_output_divider(c1, job.output[2], job.ratio[2], 0)} :
                /\ OutputRatio(c1, job.output[1]) = job.ratio[1]
                /\ \A o \in 0..9 : OutputRatio(c2, o) =
                     IF SameDivider(o, job.output[2]) THEN (IF stuck THEN 1 ELSE job.ratio[2])
                     ELSE OutputRatio(c1, o)
                /\ ~c2.fault

(***************************************************************************)
(* The time that is read is the time at which the cycle counter was read,  *)
(* although the seconds, or the low word of the seconds, may roll over     *)
(* between any two of the five reads; and the reading only repeats when    *)
(* that has happened.                                                      *)
(***************************************************************************)
TimeConsistent ==
    job.alg = "time" =>
        LET k == LastAttempt(job.ts)
            t == job.ts[k][3]
        IN  /\ k = 0 => UTC(job.ts[1][1]) # UTC(job.ts[1][5])
            /\ k # 0 => shw_pps_gen_get_time(job.ts) = [sec |-> UTC(t), cycles |-> CNTR_NSEC(t)]

(***************************************************************************)
(* A TX timestamp has the second in which the frame left, also when the    *)
(* second changes before the time is read, if that is within a quarter of  *)
(* a second.                                                               *)
(***************************************************************************)
TxSecondTrue ==
    job.alg = "tx" =>
        (LastAttempt(job.ts) # 0 =>
            TxSeconds(CNTR_NSEC(job.left), shw_pps_gen_get_time(job.ts)) = UTC(job.left))

(***************************************************************************)
(* Adding a number of seconds, negative ones too, gives the same as adding *)
(* it to the 40-bit counter, with the carry between the two words.         *)
(***************************************************************************)
AdjustExact ==
    job.alg = "adjust" =>
        AdjustSec(job.sec, job.how_much) = (job.sec + job.how_much) % (LowBase * HighBase)

\* Where a packet should go, as the comments of pfilter_init_default say.
ForCpu(build, p) ==
    IF build = "plain" THEN p.type = "ptp" /\ p.dst \in {"own", "ptp_multicast"}
    ELSE \/ p.type = "ptp" \/ (p.type = "arp" /\ p.dst = "broadcast")
         \/ p.type = "ipv4" /\ p.proto = "icmp" /\ p.dst = "own"
         \/ p.type = "ipv4" /\ p.proto = "udp" /\ p.dport = "bootpc"
            /\ p.dst \in {"own", "broadcast"}
Streamer(p) == p.type = "streamer" /\ p.dst = "broadcast"
UdpIn(p) == p.type = "ipv4" /\ p.proto = "udp" /\ p.dst \in {"own", "broadcast"}

Wanted(build, p) ==
    CASE build = "plain" ->
           IF ForCpu(build, p) THEN {0} ELSE IF Streamer(p) THEN {6} ELSE {7}
      [] build = "etherbone" ->
           {c \in {0, 6, 7} : \/ c = 0 /\ ForCpu(build, p)
                              \/ c = 6 /\ Streamer(p)
                              \/ c = 7 /\ UdpIn(p)}
      [] build = "etherbone_nic" ->
           LET eb == p.dport = "etherbone"
           IN  {c \in {0, 5, 7} : \/ c = 0 /\ ForCpu(build, p)
                                  \/ c = 5 /\ eb
                                  \/ c = 7 /\ ~ForCpu(build, p) /\ ~eb}

(***************************************************************************)
(* The filter sends every packet where the comments of its program say, in *)
(* each build, although registers are used again for other values; and the *)
(* program keeps the rules that the code only checks in a debug build: it  *)
(* fits its buffer, it ends before the shortest frame does, it never       *)
(* compares a word that has not arrived and writes no register 0.          *)
(***************************************************************************)
FilterRoutes ==
    job.alg = "pfilter" =>
        LET code == pfilter_init_default(job.build)
        IN  /\ Classes(job.build, job.packet) = Wanted(job.build, job.packet)
            /\ Len(code) <= PFILTER_MAX_CODE_SIZE /\ Len(code) <= MinFrameWords
            /\ \A pc \in DOMAIN code :
                 /\ code[pc].code = "cmp" =>
                      code[pc].offset <= pc - 1 /\ code[pc].rd \in 1..15
                 /\ code[pc].code = "logic" => code[pc].rd \in 1..31

(***************************************************************************)
(* The lookup finds a device wherever it is in the tree of the bus, with   *)
(* its absolute address; 0 means that there is none (or one at address 0,  *)
(* which the code cannot tell apart).                                      *)
(***************************************************************************)
DeviceFound ==
    job.alg = "sdb" =>
        LET all == DevicesIn(job.tables, 0, 0)
            a == find_device(job.tables, 0, job.devid)
        IN  IF a # 0 THEN <<job.devid, a>> \in all
            ELSE <<job.devid, 0>> \in all \/ \A d \in all : d[1] # job.devid
=============================================================================
