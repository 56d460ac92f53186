------------------------------- MODULE Stores -------------------------------
(***************************************************************************)
(* The SDB storage as a job: commands on the same memory, each of which    *)
(* may be cut off after any number of cells.                               *)
(***************************************************************************)
EXTENDS Jobs, Sdb

CONSTANTS
    ScriptCells,   \* bound: cells of the file of the script
    ScriptLines    \* command lines to add, as sequences of words

\* The table of the files: the interconnect, a file of another vendor with the
\* same id, and the ones that are used.
File(vendor, id, first, last) == [vendor |-> vendor, id |-> id, first |-> first, last |-> last]
SfpCells == 1 + 2 * SFPS_MAX
Table == <<File("sdb", "interconnect", 0, 0), File("other", "init", 0, 0),
           File("FileData", "sfp-", 0, SfpCells - 1),
           File("FileData", "wr-i", SfpCells, SfpCells + ScriptCells - 1),
           File("FileData", "mac-", SfpCells + ScriptCells, SfpCells + ScriptCells)>>
Open(id) == sdbfs_open_id(Table, Len(Table), "FileData", id)

BlankMem == [a \in 0..(SfpCells + ScriptCells) |->
                CASE a \in {Open("sfp-").first, Open("wr-i").first} -> Blank
                  [] a \in 1..(SfpCells - 1) -> <<"blank", 0>>
                  [] OTHER -> "ff"]

\* What is stored, for someone who uses it.
SizeOf(mem, id) == sdbfs_fread(mem, Open(id), 0)
Contents(mem) ==
    [sfps |-> [i \in 1..(IF SizeOf(mem, "sfp-") > SFPS_MAX THEN 0 ELSE SizeOf(mem, "sfp-")) |->
                  ReadRecord(mem, Open("sfp-"), i - 1)],
     script |-> [i \in 1..Believed(SizeOf(mem, "wr-i")) |-> sdbfs_fread(mem, Open("wr-i"), i)],
     mac |-> sdbfs_fread(mem, Open("mac-"), 0)]

LineOf(args) ==
    LET text == FlattenSeq([i \in DOMAIN args |-> Append(args[i], " ")])
    IN  [text EXCEPT ![Len(text)] = "\n"]

\* The commands are used on one of the files, and on the MAC address.
OpenStore == \E id \in {"sfp-", "wr-i"} :
    Start([alg |-> "store", id |-> id, mem |-> BlankMem, ok |-> TRUE,
           was |-> Contents(BlankMem), want |-> Contents(BlankMem)])

Command(id, writes, want) ==
    \E fuel \in 0..FoldLeft(LAMBDA n, w : n + Len(w.cells), 0, writes) :
        LET r == Perform(job.mem, Open(id), writes, fuel)
        IN  /\ id \in {job.id, "mac-"}
            /\ job' = [job EXCEPT !.mem = r.mem, !.ok = r.ok,
                                  !.was = Contents(job.mem), !.want = want]

StoreCommand ==
    LET now == Contents(job.mem)
    IN  /\ job.alg = "store"
        /\ \/ Command("sfp-", eeprom_sfpdb_erase, [now EXCEPT !.sfps = <<>>])
           \/ /\ ~SfpFull(job.mem, Open("sfp-"))
              /\ \E pn \in {"p", "q"} :
                   Command("sfp-", SfpAdd(job.mem, Open("sfp-"), pn),
                           [now EXCEPT !.sfps = Append(@, Record(pn))])
           \/ Command("wr-i", eeprom_init_erase, [now EXCEPT !.script = <<>>])
           \/ \E args \in ScriptLines :
                Command("wr-i", eeprom_init_add(job.mem, Open("wr-i"), args),
                        [now EXCEPT !.script = @ \o LineOf(args)])
           \/ Command("mac-", <<Write(0, <<"m">>)>>, [now EXCEPT !.mac = "m"])

W1Devs == UNION {[1..n -> [class : {"28", "42", "01"}, serial : {"s", "t"}]] : n \in 0..2}
ReadMac ==
    \E file \in {"absent", "ff", "zero", "m"}, readok \in BOOLEAN, devs \in W1Devs :
        Start([alg |-> "persistent_mac", file |-> file, readok |-> readok, devs |-> devs])

StoreJobs == OpenStore \/ ReadMac

-----------------------------------------------------------------------------
(***************************************************************************)
(* A command that reports success has stored what it says and changed      *)
(* nothing else; one that fails on the bus, runs out of the file or loses  *)
(* the power has done all or nothing, as far as later commands can tell.   *)
(***************************************************************************)
StoreAtomic ==
    job.alg = "store" =>
        Contents(job.mem) \in (IF job.ok THEN {job.want} ELSE {job.was, job.want})

(***************************************************************************)
(* sfp match finds the whole record of a part number that was added since  *)
(* the last erase, and nothing of any other, after half-written records    *)
(* and on a chip that was never erased too.                                *)
(***************************************************************************)
MatchWhole ==
    job.alg = "store" =>
        \A pn \in {"p", "q"} :
            eeprom_match_sfp(job.mem, Open("sfp-"), pn) =
                (IF Record(pn) \in Range(Contents(job.mem).sfps) THEN Record(pn) ELSE <<>>)

(***************************************************************************)
(* The boot runs whole lines of the script in their order, all of them if  *)
(* the script is no longer than the line buffer, and never a line left     *)
(* behind by a longer script or a failed command - once the size has been  *)
(* written: the size of a blank chip is believed (sdb-eeprom.c:441).       *)
(***************************************************************************)
BootWhole ==
    (job.alg = "store" /\ SizeOf(job.mem, "wr-i") <= MaxScript) =>
        LET script == Contents(job.mem).script
            run == shell_boot_script(job.mem, Open("wr-i"), 1, <<>>)
        IN  /\ IsPrefix(FlattenSeq(run), script)
            /\ Len(script) <= LineLen => FlattenSeq(run) = script

(***************************************************************************)
(* The MAC address is the stored one or, where there is a file but it is   *)
(* empty or cannot be read, has the serial number of a thermometer or      *)
(* EEPROM for its lower half and for its upper half what was read or, if   *)
(* nothing was, what the caller had put there; without either, and without *)
(* a file at all (sdb-eeprom.c:126), it is an error and the caller's       *)
(* address is not touched but by a read that went through.                 *)
(***************************************************************************)
MacChosen ==
    job.alg = "persistent_mac" =>
        LET r == get_persistent_mac(job.file, job.readok, job.devs)
            stored == job.readok /\ job.file = "m"
            ids == {d.serial : d \in {e \in Range(job.devs) : e.class # "01"}}
        IN  /\ r.ret = 0 <=> stored \/ (job.file # "absent" /\ ids # {})
            /\ r.ret = 0 => r.low \in (IF stored THEN {"m"} ELSE ids)
            /\ r.high # "caller" => job.readok /\ r.high = job.file
            /\ stored => r.high = "m"
=============================================================================
