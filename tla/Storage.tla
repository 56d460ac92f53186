------------------------------ MODULE Storage ------------------------------
(***************************************************************************)
(* The configuration a WR core keeps in its I2C EEPROM (dev/eeprom.c): the *)
(* database of SFP calibration parameters and the init script, written     *)
(* byte by byte by the shell commands "sfp" and "init", while the power or *)
(* the bus may fail between any two bytes, and read back by "sfp match"    *)
(* and at boot.                                                            *)
(*                                                                         *)
(* A byte is a number 0 .. ByteMax, ByteMax being what an erased chip      *)
(* holds (0xff).  The layout is that of eeprom.h with smaller fields: one  *)
(* cell for the calibration value, four for an SFP record (part number,    *)
(* dTx, dRx, checksum), two for the size of the script (the LM32 is        *)
(* big-endian) and one for every character of it.                          *)
(***************************************************************************)
EXTENDS Integers, Sequences, FiniteSets, FiniteSetsExt, Functions

CONSTANTS SfpsMax,     \* SFPS_MAX
          ByteMax,     \* the largest byte, 0xff
          BufSize,     \* SH_MAX_LINE_LEN, the length of the boot command buffer
          Pns,         \* part numbers
          Params,      \* values of dTx and dRx
          Commands,    \* shell commands, sequences of one-letter words
          Space, Newline,
          MaxSfps,     \* bound: SFPs added to the database
          MaxScript,   \* bound: characters of the script
          MaxFaults,   \* bound: commands cut short by the power or the bus
          Nacks        \* whether the EEPROM may fail to acknowledge

CalSize == 1
RecSize == 4
EE_BASE_CAL  == 0
EE_BASE_SFP  == EE_BASE_CAL + CalSize
EE_BASE_INIT == EE_BASE_CAL + SfpsMax * RecSize
EE_SCRIPT    == EE_BASE_INIT + 2             \* after the size of the script

EE_RET_I2CERR == -1
EE_RET_CORRPT == -3
EE_RET_POSERR == -4

Bytes   == 0 .. ByteMax
Letters == UNION {Range(c) : c \in Commands}

ASSUME StorageAssumption ==
    /\ SfpsMax \in Nat \ {0} /\ BufSize \in Nat /\ ByteMax \in Nat
    /\ SfpsMax < ByteMax - 4 /\ 2 * SfpsMax <= ByteMax
    /\ \A c \in Commands : c \in Seq(Letters) /\ c # <<>>
    /\ Pns \subseteq Bytes \ {0} /\ Params \subseteq Bytes
    /\ Letters \cup {Space, Newline} \subseteq Bytes \ {ByteMax}
    /\ Space \notin Letters /\ Newline \notin Letters /\ Space # Newline
    /\ MaxSfps \in 0 .. SfpsMax /\ MaxScript \in 0 .. ByteMax - 1
    /\ MaxFaults \in Nat /\ Nacks \in BOOLEAN

\* The cells looked at; a write elsewhere in the chip is of no consequence.
Addresses == EE_BASE_CAL .. EE_SCRIPT + Max({BufSize, MaxScript})

VARIABLES mem,     \* the EEPROM
          todo,    \* bytes that the command being executed has still to write
          match,   \* eeprom_match_sfp: its local variables and how it ended
          dbsfp,   \* ... the record read last
          db,      \* history: the records added since the database was erased
          dbok,    \* history: ... which it was, and none of their writes failed
          script,  \* history: the commands added since the script was erased
          initok,  \* history: ... which it was
          goal,    \* history: db and script once the present command is done
          faults   \* history: commands cut short

histVars == <<db, dbok, script, initok, goal, faults>>
vars == <<mem, todo, match, dbsfp, histVars>>

NoGoal   == [db |-> <<>>, script |-> <<>>]
NoRecord == [pn |-> 0, dTx |-> 0, dRx |-> 0, chksum |-> 0]
Idle     == [pc |-> "idle", pn |-> 0, i |-> 0, count |-> 0, missed |-> FALSE]

\* uint8_t and int8_t.
Uint8(n) == n % (ByteMax + 1)
Int8(n)  == LET u == Uint8(n) IN IF 2 * u > ByteMax THEN u - ByteMax - 1 ELSE u

TypeOK ==
    /\ mem \in [Addresses -> Bytes]
    /\ \A k \in DOMAIN todo :
         /\ todo[k].byte \in Bytes
         /\ todo[k].of \in {"record", "count", "text", "used"}
    /\ match.pc \in {"idle", "loop", "matched", "nomatch"}
    /\ match.i = Int8(match.i) /\ match.count \in Bytes
    /\ dbok \in BOOLEAN /\ initok \in BOOLEAN /\ faults \in 0 .. MaxFaults

\* A chip as it leaves the factory.
Init ==
    /\ mem = [a \in Addresses |-> ByteMax]
    /\ dbok = FALSE /\ initok = FALSE
    /\ todo = <<>>
    /\ match = Idle
    /\ dbsfp = NoRecord
    /\ db = <<>> /\ script = <<>>
    /\ goal = NoGoal /\ faults = 0
-----------------------------------------------------------------------------
(* The shell commands that write.                                          *)

\* eeprom_write: a run of bytes; of says what they are.
Write(address, bytes, of) ==
    [k \in DOMAIN bytes |-> [to |-> address + k - 1, byte |-> bytes[k], of |-> of]]

\* A command ends at once when a read fails; otherwise it has these to write.
Command(writes, newdb, newscript) ==
    /\ todo = <<>> /\ match.pc # "loop"
    /\ todo' = writes
    /\ goal' = [db |-> newdb, script |-> newscript]
    /\ match' = Idle /\ dbsfp' = NoRecord
    /\ UNCHANGED <<mem, db, dbok, script, initok, faults>>

\* The low byte of the sum of all bytes but the checksum itself.
Checksum(r) == Uint8(r.pn + r.dTx + r.dRx)
Encode(r)   == <<r.pn, r.dTx, r.dRx, r.chksum>>
RecordAt(pos) == EE_BASE_SFP + 1 + pos * RecSize

\* "sfp erase": eeprom_sfpdb_erase.
SfpErase == Command(Write(EE_BASE_SFP, <<0>>, "count"), <<>>, script)

\* What eeprom_get_sfp writes to add r; the count last.  (Mutated: first.)
SfpWritesCountFirst(sfpcount, r) ==
    Write(EE_BASE_SFP, <<Uint8(sfpcount + 1)>>, "count")
      \o Write(RecordAt(sfpcount), Encode(r), "record")
SfpWrites(sfpcount, r) ==
    Write(RecordAt(sfpcount), Encode(r), "record")
      \o Write(EE_BASE_SFP, <<Uint8(sfpcount + 1)>>, "count")

\* "sfp add": eeprom_get_sfp(sfp, add = 1, pos = 0).  A full database is refused;
\* a blank count (0xff) is not.
SfpAdd(pn, par) ==
    LET sfpcount == mem[EE_BASE_SFP]
        sfp == [pn |-> pn, dTx |-> par, dRx |-> par, chksum |-> 0]
        r   == [sfp EXCEPT !.chksum = Checksum(sfp)]
    IN  /\ sfpcount # SfpsMax /\ (sfpcount < SfpsMax => sfpcount < MaxSfps)
        /\ Command(SfpWrites(sfpcount, r), Append(db, r), script)

\* "init erase": eeprom_init_erase.
Used(n)   == <<Uint8(n \div (ByteMax + 1)), Uint8(n)>>      \* uint16_t used
InitErase == Command(Write(EE_BASE_INIT, Used(0), "used"), db, <<>>)

\* Every word with a separator after it; and the command as it is executed.
Words(cmd) == [k \in 1 .. 2 * Len(cmd) |->
                 IF k % 2 = 1 THEN cmd[(k + 1) \div 2] ELSE Space]
Line(cmd)  == SubSeq(Words(cmd), 1, 2 * Len(cmd) - 1)

\* What eeprom_init_add writes: the words, a newline over the last separator and
\* the size of the script.
InitWrites(used, cmd) ==
    Write(EE_SCRIPT + used, Words(cmd), "text")
      \o Write(EE_SCRIPT + used + 2 * Len(cmd) - 1, <<Newline>>, "text")
      \o Write(EE_BASE_INIT, Used(used + 2 * Len(cmd)), "used")

ScriptSize == mem[EE_BASE_INIT] * (ByteMax + 1) + mem[EE_BASE_INIT + 1]
BlankSize  == (ByteMax + 1) * (ByteMax + 1) - 1              \* 0xffff

\* "init add": eeprom_init_add; blank memory counts as an empty script.
InitAdd(cmd) ==
    LET used == IF ScriptSize = BlankSize THEN 0 ELSE ScriptSize
    IN  /\ IF initok THEN used + 2 * Len(cmd) <= MaxScript ELSE used <= ByteMax
        /\ Command(InitWrites(used, cmd), db, Append(script, Line(cmd)))

Done == goal' = IF todo' = <<>> THEN NoGoal ELSE goal

\* The chip takes a byte.  The count commits the database, the byte that changes
\* the size commits the script.
WriteByte ==
    LET w == Head(todo)
    IN  /\ todo # <<>>
        /\ mem' = IF w.to \in Addresses THEN [mem EXCEPT ![w.to] = w.byte] ELSE mem
        /\ todo' = Tail(todo)
        /\ dbok' = (dbok \/ (w.of = "count" /\ goal.db = <<>>))
        /\ initok' = (initok \/ (w.of = "used" /\ ScriptSize' = 0))
        /\ db' = IF w.of = "count" /\ dbok THEN goal.db ELSE db
        /\ script' = IF w.of = "used" /\ initok /\ mem'[w.to] # mem[w.to]
                     THEN goal.script ELSE script
        /\ Done
        /\ UNCHANGED <<match, dbsfp, faults>>

\* The chip does not acknowledge its address: the write ends there.  The init
\* functions give up; eeprom_get_sfp does not look and goes on with the count.
WriteFails ==
    LET w == Head(todo)
    IN  /\ todo # <<>> /\ Nacks /\ faults < MaxFaults
        /\ faults' = faults + 1
        /\ todo' = IF w.of = "record" THEN <<todo[Len(todo)]>> ELSE <<>>
        /\ dbok' = (dbok /\ w.of # "record")
        /\ db' = IF dbok' THEN db ELSE <<>>
        /\ Done
        /\ UNCHANGED <<mem, match, dbsfp, script, initok>>

\* Power off and on, or a reset of the CPU.
Crash ==
    /\ todo # <<>> => faults < MaxFaults
    /\ faults' = IF todo # <<>> THEN faults + 1 ELSE faults
    /\ todo' = <<>> /\ match' = Idle /\ dbsfp' = NoRecord /\ goal' = NoGoal
    /\ UNCHANGED <<mem, db, dbok, script, initok>>
-----------------------------------------------------------------------------
(* "sfp match": eeprom_match_sfp, one step per turn of its loop.           *)

MatchStart(pn) ==
    /\ todo = <<>> /\ match.pc # "loop"
    /\ match' = [Idle EXCEPT !.pc = "loop", !.pn = pn, !.count = 1]
    /\ dbsfp' = NoRecord
    /\ UNCHANGED <<mem, todo, histVars>>

RecordIn(pos) == LET a == RecordAt(pos)
                 IN  [pn |-> mem[a], dTx |-> mem[a + 1], dRx |-> mem[a + 2],
                      chksum |-> mem[a + 3]]

\* eeprom_get_sfp(&dbsfp, add = 0, pos): dbsfp and the value returned, when both
\* its reads succeed.
GetSfp(pos) ==
    CASE pos >= SfpsMax -> [sfp |-> dbsfp, rv |-> EE_RET_POSERR]
      [] pos = 0 /\ mem[EE_BASE_SFP] = 0 -> [sfp |-> dbsfp, rv |-> 0]
      [] OTHER ->
           [sfp |-> RecordIn(pos),
            rv  |-> IF Checksum(RecordIn(pos)) # RecordIn(pos).chksum
                    THEN EE_RET_CORRPT ELSE mem[EE_BASE_SFP]]

\* The first round alone returns a valid sfpcount.  (Mutated: taken every round.)
SfpCountAnyRound(rv) == Uint8(Int8(rv))
SfpCount(rv) == IF match.i = 0 THEN Uint8(Int8(rv)) ELSE match.count

MatchTurn ==
    /\ match.pc = "loop" /\ match.i < match.count
    /\ \E ok \in {TRUE, ~Nacks} :
         LET got   == IF ok THEN GetSfp(Uint8(match.i))
                            ELSE [sfp |-> dbsfp, rv |-> EE_RET_I2CERR]
             count == SfpCount(got.rv)
         IN  /\ dbsfp' = got.sfp
             /\ match' =
                  IF match.i = 0 /\ count \in {0, ByteMax}
                  THEN [match EXCEPT !.pc = "nomatch", !.missed = ~ok]
                  ELSE IF got.sfp.pn = match.pn
                  THEN [match EXCEPT !.pc = "matched"]
                  ELSE [match EXCEPT !.i = Int8(@ + 1), !.count = count,
                                     !.missed = @ \/ ~ok]
    /\ UNCHANGED <<mem, todo, histVars>>

\* (Mutated: the last record is not looked at.)
MatchEndEarly ==
    /\ match.pc = "loop" /\ match.i >= match.count - 1
    /\ match' = [match EXCEPT !.pc = "nomatch"]
    /\ UNCHANGED <<mem, todo, dbsfp, histVars>>
MatchEnd ==
    /\ match.pc = "loop" /\ match.i >= match.count
    /\ match' = [match EXCEPT !.pc = "nomatch"]
    /\ UNCHANGED <<mem, todo, dbsfp, histVars>>

Next ==
    \/ SfpErase \/ InitErase
    \/ \E pn \in Pns, par \in Params : SfpAdd(pn, par)
    \/ \E cmd \in Commands : InitAdd(cmd)
    \/ WriteByte \/ WriteFails \/ Crash
    \/ \E pn \in Pns : MatchStart(pn)
    \/ MatchTurn \/ MatchEnd

Spec == Init /\ [][Next]_vars

\* The CPU goes on with a command it has begun.
FairSpec == Spec /\ WF_vars(WriteByte) /\ WF_vars(MatchTurn) /\ WF_vars(MatchEnd)
-----------------------------------------------------------------------------
(* The boot script.                                                        *)

Char(q) == mem[EE_SCRIPT + q]

\* The lines eeprom_init_readcmd can return: it gives up on the first character
\* past bufsize.
Lines ==
    {l \in [from : 0 .. BufSize, end : 0 .. BufSize] :
        /\ l.from <= l.end /\ Char(l.end) = Newline
        /\ l.from = 0 \/ Char(l.from - 1) = Newline
        /\ \A q \in l.from .. l.end - 1 : Char(q) # Newline}

\* Those shell_boot_script executes, one after the other: the ones that begin
\* within the script.
BootScript ==
    LET lines  == {l \in Lines : l.from < ScriptSize}
        Nth(k) == CHOOSE l \in lines :
                    Cardinality({m \in lines : m.from < l.from}) = k - 1
    IN  [k \in 1 .. Cardinality(lines) |->
           [n \in 1 .. Nth(k).end - Nth(k).from |-> Char(Nth(k).from + n - 1)]]
-----------------------------------------------------------------------------
(***************************************************************************)
(* Whatever the moment the power fails, the database holds exactly the     *)
(* records whose "sfp add" got as far as the count, each with its          *)
(* checksum, provided it was erased first and no write of it failed.       *)
(***************************************************************************)
DbSound ==
    dbok => /\ mem[EE_BASE_SFP] = Len(db)
            /\ \A k \in DOMAIN db : RecordIn(k - 1) = db[k]

(***************************************************************************)
(* Once the script has been erased, and whatever the moment the power or   *)
(* the bus fails, the next boot executes the script as it was before the   *)
(* interrupted "init add" or "init erase", or as it is after it: never a   *)
(* part of a command, never what an earlier script left behind.            *)
(***************************************************************************)
BootRunsScript == initok => BootScript = script

(***************************************************************************)
(* The power or the bus may fail between any two bytes of any sequence of  *)
(* commands: neither the database nor the boot script is ever left half    *)
(* written.                                                                *)
(***************************************************************************)
StorageSound == TypeOK /\ DbSound /\ BootRunsScript

(***************************************************************************)
(* "sfp match" on a sound database applies the parameters of a record of   *)
(* that part number, and reports no match only when there is none (or the  *)
(* EEPROM failed to answer).                                               *)
(***************************************************************************)
MatchFinds ==
    [][match.pc = "loop" /\ dbok =>
         /\ match'.pc = "matched" =>
              \E k \in DOMAIN db : db[k].pn = match.pn /\ dbsfp' = db[k]
         /\ match'.pc = "nomatch" /\ ~match'.missed =>
              \A k \in DOMAIN db : db[k].pn # match.pn]_vars

(***************************************************************************)
(* "sfp match" on a sound database comes to an end.                        *)
(***************************************************************************)
MatchEnds == match.pc = "loop" /\ dbok ~> match.pc # "loop"
=============================================================================
