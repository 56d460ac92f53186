-------------------------------- MODULE Sdb ---------------------------------
(***************************************************************************)
(* The self-describing bus and the storage laid out like it.  On the bus   *)
(* (dev/sdb.c) the address of a device is looked up in a tree of tables,   *)
(* one per interconnect; a bridge leads to a table whose addresses are     *)
(* relative to it.  The storage (dev/sdb-eeprom.c on sdb-lib/) is kept as  *)
(* files of an SDB file system in a 1-wire EEPROM: the memory is some      *)
(* cells, a cell being what a page write stores at once (a count, half of  *)
(* an SFP record, a character of the script), and a bus or a power failure *)
(* is a number of cells, fuel, after which nothing is written.             *)
(***************************************************************************)
EXTENDS Integers, Sequences, FiniteSets, SequencesExt

\* A record: [type, id, first, child].  tables maps the address of a table to
\* its records, the first of which is the interconnect itself.

\* find_device_deep: the address, or 0.
RECURSIVE FindFrom(_, _, _, _, _)

ChildBase(base, r) == base + r.first

FindFrom(tables, base, sdb, i, devid) ==
    IF i > Len(tables[sdb]) THEN 0
    ELSE LET r == tables[sdb][i]
             out == IF r.type = "bridge"
                    THEN FindFrom(tables, ChildBase(base, r), base + r.child, 1, devid)
                    ELSE 0
         IN  IF out # 0 THEN out
             ELSE IF r.type = "device" /\ r.id = devid THEN base + r.first
             ELSE FindFrom(tables, base, sdb, i + 1, devid)

find_device(tables, root, devid) == FindFrom(tables, 0, root, 1, devid)

\* print_devices_deep: every device with its absolute address.
RECURSIVE DevicesIn(_, _, _)
DevicesIn(tables, base, sdb) ==
    LET rs == {tables[sdb][i] : i \in DOMAIN tables[sdb]}
    IN  {<<r.id, base + r.first>> : r \in {x \in rs : x.type = "device"}}
        \cup UNION {DevicesIn(tables, base + r.first, base + r.child) :
                        r \in {x \in rs : x.type = "bridge"}}

-----------------------------------------------------------------------------
CONSTANTS
    SFPS_MAX,    \* 4: records in the SFP database
    MaxScript,   \* 256: a larger size of the script is not believed
    Blank,       \* 0xff: what an empty chip holds
    LineLen      \* SH_MAX_LINE_LEN: buffer for a command of the script

-----------------------------------------------------------------------------
\* sdb-lib: the table of the files is read record by record from the entry
\* point; the first record is the interconnect and holds their number.
\* A record is [vendor, id, first, last].

NoFile == [first |-> 0, len |-> 0]
RECURSIVE sdbfs_scan(_, _, _, _, _)
sdbfs_scan(table, i, nleft, vid, did) ==
    IF nleft = 0 THEN NoFile
    ELSE IF table[i].vendor = vid /\ table[i].id = did
    THEN [first |-> table[i].first, len |-> table[i].last + 1 - table[i].first]
    ELSE sdbfs_scan(table, i + 1, nleft - 1, vid, did)

sdbfs_open_id(table, records, vid, did) == sdbfs_scan(table, 2, records - 1, vid, did)

\* How many cells of a transfer of len at offset stay within the file.
Clamp(f, offset, len) == IF offset + len > f.len THEN f.len - offset ELSE len

sdbfs_fread(mem, f, offset) == mem[f.first + offset]

\* A sequence of sdbfs_fwrite's, each of which must return its length for the
\* next to be done.
RECURSIVE Perform(_, _, _, _)
Perform(mem, f, writes, fuel) ==
    IF writes = <<>> THEN [mem |-> mem, ok |-> TRUE]
    ELSE LET w == Head(writes)
             count == Clamp(f, w.offset, Len(w.cells))
             n == IF count < fuel THEN count ELSE fuel
             first == f.first + w.offset
             mem1 == [a \in DOMAIN mem |->
                         IF a \in first..(first + n - 1) THEN w.cells[a - first + 1] ELSE mem[a]]
         IN  IF n < Len(w.cells) THEN [mem |-> mem1, ok |-> FALSE]
             ELSE Perform(mem1, f, Tail(writes), fuel - n)

Write(offset, cells) == [offset |-> offset, cells |-> cells]

-----------------------------------------------------------------------------
\* The SFP database: a count, then records; a record whose halves are not of
\* one part number has a wrong checksum.
Record(pn) == <<<<pn, 1>>, <<pn, 2>>>>
RecordAt(i) == 1 + 2 * i
ReadRecord(mem, f, i) ==
    <<sdbfs_fread(mem, f, RecordAt(i)), sdbfs_fread(mem, f, RecordAt(i) + 1)>>
ChecksumGood(cells) == \E pn \in {"p", "q"} : cells = Record(pn)

eeprom_sfpdb_erase == <<Write(0, <<0>>)>>

\* Mutated: the count is written first.
SfpAddCountFirst(mem, f, pn) ==
    LET sfpcount == sdbfs_fread(mem, f, 0)
    IN  <<Write(0, <<sfpcount + 1>>), Write(RecordAt(sfpcount), Record(pn))>>

SfpAdd(mem, f, pn) ==
    LET sfpcount == sdbfs_fread(mem, f, 0)
    IN  <<Write(RecordAt(sfpcount), Record(pn)), Write(0, <<sfpcount + 1>>)>>

SfpFull(mem, f) == sdbfs_fread(mem, f, 0) = SFPS_MAX

\* eeprom_match_sfp: the count of the first round is not believed when it is 0
\* or when its record is bad (-1 is 0xff); later records are compared as read.
eeprom_match_sfp(mem, f, pn) ==
    LET sfpcount == sdbfs_fread(mem, f, 0)
        hits == {i \in 0..(sfpcount - 1) : ReadRecord(mem, f, i)[1] = <<pn, 1>>}
    IN  IF sfpcount \in {0, Blank} \/ ~ChecksumGood(ReadRecord(mem, f, 0)) \/ hits = {}
        THEN <<>> ELSE ReadRecord(mem, f, CHOOSE i \in hits : \A j \in hits : i <= j)

-----------------------------------------------------------------------------
\* The script: its size, then lines of words with blanks between them.
eeprom_init_erase == <<Write(0, <<0>>)>>

Believed(size) == IF size > MaxScript THEN 0 ELSE size

\* The words from position used on, each with its separator.
RECURSIVE WordWrites(_, _)
WordWrites(used, args) ==
    IF args = <<>> THEN <<>>
    ELSE <<Write(1 + used, Head(args)), Write(1 + used + Len(Head(args)), <<" ">>)>>
         \o WordWrites(used + Len(Head(args)) + 1, Tail(args))

LineLength(args) == FoldLeft(LAMBDA n, w : n + Len(w) + 1, 0, args)

eeprom_init_add(mem, f, args) ==
    LET used == Believed(sdbfs_fread(mem, f, 0))
        end == used + LineLength(args)
    IN  WordWrites(used, args) \o <<Write(end, <<"\n">>), Write(0, <<end>>)>>

\* eeprom_init_readcmd, call after call as shell_boot_script does: the lines
\* that are run.  A line that reaches beyond LineLen ends the script.
AtEnd(ptr, used) == ptr - 1 >= used

RECURSIVE shell_boot_script(_, _, _, _)
shell_boot_script(mem, f, ptr, line) ==
    IF line = <<>> /\ AtEnd(ptr, sdbfs_fread(mem, f, 0)) THEN <<>>
    ELSE IF ptr - 1 > LineLen \/ ptr >= f.len THEN <<>>
    ELSE LET c == sdbfs_fread(mem, f, ptr)
         IN  IF c = "\n" THEN <<Append(line, c)>> \o shell_boot_script(mem, f, ptr + 1, <<>>)
             ELSE shell_boot_script(mem, f, ptr + 1, Append(line, c))

-----------------------------------------------------------------------------
\* get_persistent_mac: nothing at all without the file; the file, or the serial
\* number of a thermometer or an EEPROM on the bus (the last one found) for the
\* lower half of what the read has left in the caller's buffer.
EmptyMac == {"ff", "zero"}
get_persistent_mac(file, readok, devs) ==
    LET usable == {i \in DOMAIN devs : devs[i].class \in {"28", "42"}}
        read == IF file # "absent" /\ readok THEN file ELSE "caller"
    IN  IF file = "absent" THEN [ret |-> -1, high |-> read, low |-> read]
        ELSE IF readok /\ file \notin EmptyMac THEN [ret |-> 0, high |-> read, low |-> read]
        ELSE IF usable = {} THEN [ret |-> -1, high |-> read, low |-> read]
        ELSE [ret |-> 0, high |-> read,
              low |-> devs[CHOOSE i \in usable : \A j \in usable : j <= i].serial]
=============================================================================
