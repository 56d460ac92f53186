------------------------------- MODULE I2cBus -------------------------------
(***************************************************************************)
(* The I2C master made of two output pins (dev/i2c.c), and its users: the  *)
(* EEPROM of the carrier (dev/eeprom.c) and that of the SFP (dev/sfp.c).   *)
(* A bus w has the pins as the master leaves them and one device, which is *)
(* modelled by what the transfers rely on: it sees start and stop as       *)
(* changes of SDA while SCL is high, takes a bit when SCL rises and        *)
(* changes what it drives when SCL falls.                                  *)
(***************************************************************************)
EXTENDS Integers, Sequences, SequencesExt, FiniteSetsExt

CONSTANTS
    ByteBits,      \* 8
    DeviceAddr,    \* 0x50, both EEPROMs
    SfpBytes,      \* 64: the bytes of the SFP that are summed up, and the sum
    PnFirst, PnLast   \* 40, 55: where its part number is

Octet == 2 ^ ByteBits

-----------------------------------------------------------------------------
\* The device.  addrlen: bytes of a memory address; busy: how often it does not
\* answer after a write; absent: it never answers.
Device0(mem, addrlen, busy, absent) ==
    [mem |-> mem, addrlen |-> addrlen, wait |-> busy, absent |-> absent, busy |-> 0, ptr |-> 0,
     phase |-> "idle", stage |-> "select", read |-> FALSE, left |-> 0, acc |-> 0,
     n |-> 0, shift |-> 0, drive |-> 1, more |-> FALSE, written |-> <<>>]

Restart(d) == [d EXCEPT !.phase = "recv", !.stage = "select", !.n = 0, !.shift = 0,
                        !.drive = 1, !.written = <<>>]
Stopped(d) ==
    LET stored == [a \in DOMAIN d.mem |-> IF d.written # <<>> /\ a = d.written[1] THEN d.written[2] ELSE d.mem[a]]
    IN  [d EXCEPT !.phase = "idle", !.drive = 1, !.written = <<>>, !.mem = stored,
                  !.busy = IF d.written = <<>> THEN @ ELSE d.wait]

\* A byte was received: it is acknowledged, or the device is not meant.
Take(d) ==
    LET ack == [d EXCEPT !.phase = "ack", !.drive = 0]
        addr == d.acc * Octet + d.shift
    IN  CASE d.stage = "select" ->
               IF d.shift \div 2 # DeviceAddr \/ d.absent THEN [d EXCEPT !.phase = "idle"]
               ELSE IF d.busy > 0 THEN [d EXCEPT !.phase = "idle", !.busy = @ - 1]
               ELSE [ack EXCEPT !.read = d.shift % 2 = 1, !.stage = "address", !.left = d.addrlen, !.acc = 0]
          [] d.stage = "address" ->
               [ack EXCEPT !.acc = addr, !.left = @ - 1, !.ptr = IF d.left = 1 THEN addr ELSE @,
                           !.stage = IF d.left = 1 THEN "data" ELSE @]
          [] d.stage = "data" -> [ack EXCEPT !.written = <<d.ptr, d.shift>>, !.ptr = @ + 1]

\* The next byte of the memory, from its highest bit on; then the address is
\* that of the one after it.
LoadByte(d) ==
    LET byte == IF d.ptr \in DOMAIN d.mem THEN d.mem[d.ptr] ELSE Octet - 1
    IN  [d EXCEPT !.phase = "send", !.n = 1, !.shift = byte, !.ptr = @ + 1,
                  !.drive = byte \div 2 ^ (ByteBits - 1)]

Rise(d, bit) ==
    CASE d.phase = "recv" -> [d EXCEPT !.n = @ + 1, !.shift = 2 * @ + bit]
      [] d.phase = "sent" -> [d EXCEPT !.more = bit = 0]
      [] OTHER -> d
Fall(d) ==
    CASE d.phase = "recv" /\ d.n = ByteBits -> Take(d)
      [] d.phase = "ack" /\ d.read -> LoadByte(d)
      [] d.phase = "ack" /\ ~d.read -> [d EXCEPT !.phase = "recv", !.n = 0, !.shift = 0, !.drive = 1]
      [] d.phase = "send" /\ d.n = ByteBits -> [d EXCEPT !.phase = "sent", !.drive = 1]
      [] d.phase = "send" /\ d.n < ByteBits ->
           [d EXCEPT !.n = @ + 1, !.drive = (d.shift \div 2 ^ (ByteBits - 1 - d.n)) % 2]
      [] d.phase = "sent" /\ d.more -> LoadByte(d)
      [] d.phase = "sent" /\ ~d.more -> [d EXCEPT !.phase = "idle"]
      [] OTHER -> d

-----------------------------------------------------------------------------
\* The pins: gpio_out, gpio_in.
SdaLine(w) == Min({w.sda, w.dev.drive})
Sda(w, x) ==
    LET v == [w EXCEPT !.sda = x]
    IN  IF w.scl = 0 \/ SdaLine(v) = SdaLine(w) THEN v
        ELSE [v EXCEPT !.dev = IF SdaLine(v) = 0 THEN Restart(@) ELSE Stopped(@)]
Scl(w, x) ==
    IF x = w.scl THEN w
    ELSE [w EXCEPT !.scl = x, !.dev = IF x = 1 THEN Rise(@, SdaLine(w)) ELSE Fall(@)]

mi2c_init(w) == Sda(Scl(w, 1), 1)
mi2c_start(w) == Scl(Sda(w, 0), 0)
mi2c_repeat_start(w) == Scl(Sda(Scl(Sda(w, 1), 1), 0), 0)
mi2c_stop(w) == Sda(Scl(Sda(w, 0), 1), 1)

\* Bit i of a byte, the highest being the first.
Bit(data, i) == (data \div 2 ^ (ByteBits - i)) % 2
Pulse(w) == Scl(Scl(w, 1), 0)

\* ret: 0 if the byte was acknowledged.
AckBit(w) == [w |-> Sda(Scl(w, 0), 0), ret |-> SdaLine(w)]
PutByte(w, data) ==
    AckBit(Scl(Sda(FoldLeft(LAMBDA v, i : Pulse(Sda(v, Bit(data, i))), w, [i \in 1..ByteBits |-> i]), 1), 1))
\* (The singleton makes TLC evaluate the bus before the byte, not within it.)
mi2c_put_byte(w, data) == CHOOSE x \in {PutByte(v, data) : v \in {w}} : TRUE
Put(w, data) == mi2c_put_byte(w, data).w

ShiftIn(w, data) == [w |-> Scl(w, 0), data |-> 2 * data + SdaLine(w)]
TakeBit(x, i) == ShiftIn(Scl(x.w, 1), x.data)
AckByte(x, last) == [w |-> Pulse(Sda(x.w, IF last THEN 1 ELSE 0)), data |-> x.data]
GetByte(w, last) ==
    AckByte(FoldLeft(TakeBit, [w |-> Scl(Sda(w, 1), 0), data |-> 0], [i \in 1..ByteBits |-> i]), last)

mi2c_get_byte(w, last) == CHOOSE x \in {GetByte(v, last) : v \in {w}} : TRUE

Probed(p) == [w |-> mi2c_stop(p.w), found |-> p.ret = 0]
mi2c_devprobe(w, addr) == Probed(mi2c_put_byte(mi2c_start(w), addr * 2))

\* size bytes, the last one not acknowledged.
RECURSIVE GetBytes(_, _)
InFront(byte, x) == [w |-> x.w, data |-> <<byte>> \o x.data]
GetMore(x, size) ==
    IF size = 0 THEN [w |-> x.w, data |-> <<x.data>>] ELSE InFront(x.data, GetBytes(x.w, size))
GetBytes(w, size) == GetMore(mi2c_get_byte(w, size = 1), size - 1)

-----------------------------------------------------------------------------
\* eeprom_present: two tries.
ProbeAgain(p, addr) == IF p.found THEN p ELSE mi2c_devprobe(p.w, addr)
eeprom_present(w, addr) == ProbeAgain(mi2c_devprobe(w, addr), addr)

\* An acknowledgement that is missing is not noticed (ret is never negative).
PutAddress(w, addr, offset) ==
    Put(Put(Put(w, addr * 2), (offset \div Octet) % Octet), offset % Octet)

ThenStop(x) == [w |-> mi2c_stop(x.w), data |-> x.data]
eeprom_read(w, addr, offset, size) ==
    ThenStop(GetBytes(Put(mi2c_repeat_start(PutAddress(mi2c_start(w), addr, offset)), addr * 2 + 1), size))

\* The chip is asked until it answers again.
RECURSIVE UntilReady(_, _)
ReadyOrAgain(p, addr) == IF p.found THEN p.w ELSE UntilReady(p.w, addr)
UntilReady(w, addr) == ReadyOrAgain(mi2c_devprobe(w, addr), addr)

RECURSIVE eeprom_write(_, _, _, _)
eeprom_write(w, addr, offset, bytes) ==
    IF bytes = <<>> THEN w
    ELSE eeprom_write(UntilReady(mi2c_stop(Put(PutAddress(mi2c_start(w), addr, offset), Head(bytes))), addr),
                      addr, offset + 1, Tail(bytes))

\* Byte 0 from address 0, the others from where the device is then.
SfpFirst(w) ==
    mi2c_get_byte(Put(mi2c_repeat_start(Put(Put(mi2c_start(mi2c_init(w)), DeviceAddr * 2), 0)),
                      DeviceAddr * 2 + 1), TRUE)
SfpRest(w) == GetBytes(Put(mi2c_start(mi2c_stop(w)), DeviceAddr * 2 + 1), SfpBytes - 1)
SfpChecked(x) ==
    LET sum == FoldLeft(LAMBDA s, b : (s + b) % Octet, 0, Front(x.data))
    IN  [w |-> mi2c_stop(x.w), part_id |-> SubSeq(x.data, PnFirst + 1, PnLast + 1),
         ret |-> IF sum = Last(x.data) THEN 0 ELSE -1]
SfpAll(first) == SfpChecked(InFront(first.data, SfpRest(first.w)))
sfp_read_part_id(w) == SfpAll(SfpFirst(w))
=============================================================================
