------------------------------ MODULE OneWire ------------------------------
(***************************************************************************)
(* The 1-wire bus (dev/w1.c): the search that finds the ROM numbers of all *)
(* devices on the bus, and the EEPROM on it (dev/w1-eeprom.c), which is    *)
(* written page by page.  A ROM number is the set of its bits that are 1.  *)
(***************************************************************************)
EXTENDS Integers, Sequences, FiniteSets, FiniteSetsExt, Functions

CONSTANTS
    RomBits,         \* 64 in the code
    IntBits,         \* 32: "select" is an int, the upper bits are cut off
    W1_MAX_DEVICES,  \* 8
    PageSize         \* 32

\* A bit that every listening device drives: the bus is a wired AND, and
\* reads 1 when nobody listens.
BusReads(live, bit, value) == \A d \in live : (bit \in d) = value

\* One bit of __w1_scan_one with __get_dibit.  s: rom so far, conflicts, and
\* the devices that still take part.
ScanBit(s, bit) ==
    LET a == BusReads(s.live, bit, TRUE)
        b == BusReads(s.live, bit, FALSE)
        select == bit \in s.rom /\ bit < IntBits
        written == IF a # b THEN a ELSE select
    IN  [rom   |-> IF a /\ ~b THEN s.rom \cup {bit} ELSE s.rom,
         cmask |-> IF a = b /\ ~select THEN s.cmask \cup {bit} ELSE s.cmask,
         live  |-> {d \in s.live : (bit \in d) = written}]

\* __w1_scan_one, for a bus on which somebody answers the reset.
w1_scan_one(devices, rom) ==
    LET S[bit \in 0..RomBits] ==
            IF bit = 0 THEN [rom |-> rom, cmask |-> {}, live |-> devices]
                       ELSE ScanBit(S[bit - 1], bit - 1)
    IN  S[RomBits]

\* Mutated: the bits after the conflict are kept.
NextRomKeepsTail(rom, cmask) == rom \cup {Max(cmask)}

\* The last conflict is resolved the other way, what came after it forgotten.
NextRom(rom, cmask) == {b \in rom : b < Max(cmask)} \cup {Max(cmask)}

\* w1_scan_bus: the ROM numbers in the order they are found.
w1_scan_bus(devices) ==
    LET Found[i \in 0..W1_MAX_DEVICES] ==
            IF i = 0 THEN [devs |-> <<>>, cmask |-> {}, done |-> FALSE]
            ELSE LET f == Found[i - 1]
                     rom == IF i = 1 THEN {} ELSE NextRom(f.devs[i - 1], f.cmask)
                     one == w1_scan_one(devices, rom)
                 IN  IF f.done \/ devices = {} \/ (i > 1 /\ f.cmask = {})
                     THEN [f EXCEPT !.done = TRUE]
                     ELSE [devs |-> Append(f.devs, one.rom), cmask |-> one.cmask,
                           done |-> FALSE]
    IN  Found[W1_MAX_DEVICES].devs

-----------------------------------------------------------------------------
\* w1_write_page: the scratchpad takes the bytes up to the end of the page,
\* is read back and compared, and copied.  A page in "bad" does not verify.
\* Result: the memory and the return value.
w1_write_page(mem, offset, data, bad) ==
    LET page == offset \div PageSize
        taken == {i \in DOMAIN data : (offset + i - 1) \div PageSize = page}
        new == {offset + i - 1 : i \in taken}
    IN  IF page \in bad \/ taken # DOMAIN data
        THEN [mem |-> mem, ret |-> -3]
        ELSE [mem |-> [a \in DOMAIN mem |->
                          IF a \in new THEN data[a - offset + 1] ELSE mem[a]],
              ret |-> Len(data)]

\* The bytes of the first piece: up to the end of its page.
FirstPiece(offset, blen) ==
    LET page == offset \div PageSize
        endpage == (offset + blen - 1) \div PageSize
    IN  IF offset % PageSize # 0
        THEN IF endpage # page THEN PageSize - (offset % PageSize) ELSE blen
        ELSE IF blen > PageSize THEN PageSize ELSE blen

\* w1_write_eeprom: piece after piece, until one fails.
RECURSIVE WritePieces(_, _, _, _, _)
WritePieces(mem, offset, data, bad, ret) ==
    IF data = <<>> THEN [mem |-> mem, ret |-> ret]
    ELSE LET i == FirstPiece(offset, Len(data))
             w == w1_write_page(mem, offset, SubSeq(data, 1, i), bad)
         IN  IF w.ret < 0 THEN w
             ELSE WritePieces(w.mem, offset + i, SubSeq(data, i + 1, Len(data)),
                              bad, ret + w.ret)

w1_write_eeprom(mem, offset, data, bad) == WritePieces(mem, offset, data, bad, 0)
=============================================================================
