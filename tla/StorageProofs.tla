--------------------------- MODULE StorageProofs ----------------------------
(***************************************************************************)
(* The SFP database and the boot script survive every interruption, for    *)
(* every size of the areas, set of commands and number of faults.          *)
(***************************************************************************)
EXTENDS Storage, SequenceTheorems, FiniteSetTheorems, TLAPS

(***************************************************************************)
(* The last record of a full database reaches into the size of the script, *)
(* and a line that ends past the boot buffer is not executed.              *)
(***************************************************************************)
AreasApart == MaxSfps < SfpsMax /\ MaxScript <= BufSize + 1

Memories == [Addresses -> Bytes]
Records == [pn : Bytes, dTx : Bytes, dRx : Bytes, chksum : Bytes]
Writes  == [to : Int, byte : Bytes, of : {"record", "count", "text", "used"}]

RecordOf(m, pos) == [pn |-> m[RecordAt(pos)], dTx |-> m[RecordAt(pos) + 1],
                     dRx |-> m[RecordAt(pos) + 2], chksum |-> m[RecordAt(pos) + 3]]
SizeOf(m) == m[EE_BASE_INIT] * (ByteMax + 1) + m[EE_BASE_INIT + 1]

\* The memory m holds the database d.
HoldsDb(m, d) ==
    /\ m[EE_BASE_SFP] = Len(d) /\ Len(d) <= MaxSfps
    /\ \A k \in 1 .. Len(d) : RecordOf(m, k - 1) = d[k] /\ d[k].chksum = Checksum(d[k])

\* The k-th line of s begins at offset at[k] of the script area of m; the lines
\* fill the script.
Layout(m, s, at) ==
    /\ at \in [1 .. Len(s) + 1 -> 0 .. MaxScript]
    /\ at[1] = 0 /\ at[Len(s) + 1] = SizeOf(m)
    /\ \A j, k \in 1 .. Len(s) + 1 : j < k => at[j] < at[k]
    /\ \A q \in 0 .. SizeOf(m) - 1 : \E k \in 1 .. Len(s) : at[k] <= q /\ q < at[k + 1]
    /\ \A k \in 1 .. Len(s) :
         /\ Len(s[k]) = at[k + 1] - at[k] - 1
         /\ m[EE_SCRIPT + at[k + 1] - 1] = Newline
         /\ \A n \in 1 .. Len(s[k]) :
              m[EE_SCRIPT + at[k] + n - 1] = s[k][n] /\ s[k][n] # Newline

HoldsScript(m, s) ==
    SizeOf(m) <= MaxScript /\ \E at \in [1 .. Len(s) + 1 -> 0 .. MaxScript] : Layout(m, s, at)

\* The first n of the writes ws are in the memory, if no other of the n came
\* after it there.
Written(m, ws, n) ==
    \A k \in 1 .. n :
      (\A j \in k + 1 .. n : ws[j].to # ws[k].to) => m[ws[k].to] = ws[k].byte

Rest(ws, n) == SubSeq(ws, n + 1, Len(ws))
-----------------------------------------------------------------------------
(* What the command being executed has still to do.                        *)

ErasingDb == todo = Write(EE_BASE_SFP, <<0>>, "count") /\ goal.db = <<>>

\* c: the count before; n: writes done.
AddingSfp(c, r, n) ==
    /\ todo = Rest(SfpWrites(c, r), n) /\ goal.db # <<>>
    /\ c \in 0 .. MaxSfps - 1 \/ c = ByteMax
    /\ r.chksum = Checksum(r)
    /\ dbok => /\ c = Len(db) /\ goal.db = Append(db, r)
               /\ Written(mem, SfpWrites(c, r), n)

ErasingScript(n) ==
    /\ todo = Rest(Write(EE_BASE_INIT, Used(0), "used"), n) /\ goal.script = <<>>
    /\ n = 1 => mem[EE_BASE_INIT] = 0

\* u: the size before.
AddingCommand(u, cmd, n) ==
    LET ws == InitWrites(u, cmd)
    IN  /\ todo = Rest(ws, n)
        /\ initok => /\ ScriptSize = u /\ u + 2 * Len(cmd) <= MaxScript
                     /\ goal.script = Append(script, Line(cmd))
                     /\ Written(mem, ws, n)
        /\ ~initok /\ n + 1 < Len(ws) => mem[EE_BASE_INIT + 1] # 0

Executing ==
    \/ todo = <<>>
    \/ ErasingDb
    \/ \E c \in Bytes, r \in Records, n \in 0 .. 4 : AddingSfp(c, r, n)
    \/ \E n \in 0 .. 1 : ErasingScript(n)
    \/ \E cmd \in Commands, u \in Bytes :
         \E n \in 0 .. Len(InitWrites(u, cmd)) - 1 : AddingCommand(u, cmd, n)

\* eeprom_match_sfp: on a sound database, the records before match.i were looked
\* at, and only the first turn may find match.count wrong.
Matching ==
    match.pc = "loop" =>
      /\ todo = <<>> /\ match.pn \in Pns /\ dbsfp.pn # match.pn
      /\ dbok => /\ match.i \in 0 .. match.count
                 /\ match.count = IF match.i = 0 THEN 1 ELSE Len(db)
                 /\ ~match.missed => \A k \in 1 .. match.i : db[k].pn # match.pn

Matches == [pc : {"idle", "loop", "matched", "nomatch"}, pn : Pns \cup {0},
            i : Int, count : Bytes, missed : BOOLEAN]
Goals   == [db : Seq(Records), script : Seq(Seq(Bytes))]

Typed ==
    /\ mem \in Memories /\ todo \in Seq(Writes)
    /\ match \in Matches /\ match.i = Int8(match.i) /\ dbsfp \in Records
    /\ db \in Seq(Records) /\ script \in Seq(Seq(Bytes)) /\ goal \in Goals
    /\ dbok \in BOOLEAN /\ initok \in BOOLEAN /\ faults \in 0 .. MaxFaults

CountOk    == mem[EE_BASE_SFP] \in 0 .. MaxSfps \cup {ByteMax}
DbHeld     == IF dbok THEN HoldsDb(mem, db) ELSE db = <<>>
ScriptHeld == IF initok THEN HoldsScript(mem, script) ELSE script = <<>> /\ ScriptSize # 0

(***************************************************************************)
(* The inductive invariant.                                                *)
(***************************************************************************)
StorageInv == Typed /\ CountOk /\ DbHeld /\ ScriptHeld /\ Executing /\ Matching
-----------------------------------------------------------------------------
(* The constants.                                                          *)

\* The areas of the chip that the proofs refer to.
LEMMA Areas ==
    /\ SfpsMax \in Nat \ {0} /\ ByteMax \in Nat /\ BufSize \in Nat
    /\ MaxSfps \in Nat /\ MaxScript \in Nat
    /\ EE_BASE_SFP = 1 /\ EE_BASE_INIT = 4 * SfpsMax /\ EE_SCRIPT = 4 * SfpsMax + 2
    /\ SfpsMax + 4 < ByteMax /\ MaxSfps <= SfpsMax /\ MaxScript < ByteMax
    /\ 2 * SfpsMax <= ByteMax
BY StorageAssumption DEF StorageAssumption, EE_BASE_SFP, EE_BASE_INIT, EE_SCRIPT,
  EE_BASE_CAL, CalSize, RecSize

\* The chip is looked at from its first cell to the end of the larger area.
LEMMA AddressesAre ==
    \E top \in Nat : /\ Addresses = 0 .. EE_SCRIPT + top
                     /\ BufSize <= top /\ MaxScript <= top
<1> DEFINE S == {BufSize, MaxScript}
<1>1. Max(S) \in S /\ \A y \in S : Max(S) >= y
  <2>1. \E x \in S : \A y \in S : x >= y
    <3>1. CASE BufSize >= MaxScript
      BY <3>1, Areas
    <3>2. CASE ~(BufSize >= MaxScript)
      BY <3>2, Areas
    <3>3. QED
      BY <3>1, <3>2
  <2>2. QED
    BY <2>1 DEF Max
<1>2. Max(S) \in Nat /\ BufSize <= Max(S) /\ MaxScript <= Max(S)
  BY <1>1, Areas
<1>3. QED
  BY <1>2 DEF Addresses, EE_BASE_CAL

\* Every cell that matters exists.
LEMMA InAddresses ==
    /\ 0 .. EE_SCRIPT + MaxScript \subseteq Addresses
    /\ 0 .. EE_SCRIPT + BufSize \subseteq Addresses
    /\ Addresses \subseteq Nat
BY AddressesAre, Areas

\* The record that a blank count selects is past the script.
LEMMA BlankRecord == RecordAt(ByteMax) > EE_SCRIPT + MaxScript
BY Areas DEF RecordAt, RecSize

\* A record that may be added lies in the chip, in front of the script.
LEMMA RecordCells ==
    ASSUME AreasApart, NEW pos \in 0 .. MaxSfps - 1
    PROVE  /\ RecordAt(pos) = 4 * pos + 2
           /\ 1 < RecordAt(pos) /\ RecordAt(pos) + 3 < EE_BASE_INIT
           /\ RecordAt(pos) .. RecordAt(pos) + 3 \subseteq Addresses
BY Areas, InAddresses DEF AreasApart, RecordAt, RecSize

(* uint8_t and int8_t.                                                     *)
LEMMA Uint8Is ==
    ASSUME NEW n \in Int
    PROVE  /\ Uint8(n) \in Bytes
           /\ n \in Bytes => Uint8(n) = n
           /\ n + ByteMax + 1 \in Bytes => Uint8(n) = n + ByteMax + 1
           /\ n = ByteMax + 1 => Uint8(n) = 0
BY Areas DEF Uint8, Bytes

\* A count survives eeprom_match_sfp's int8_t and uint8_t, also -1 for an error.
LEMMA Int8Is ==
    ASSUME NEW n \in Int
    PROVE  /\ Int8(n) \in Int /\ Int8(Int8(n)) = Int8(n)
           /\ n \in Bytes => Uint8(Int8(n)) = n
           /\ n \in 0 .. SfpsMax => Int8(n) = n
           /\ Uint8(Int8(-1)) = ByteMax
<1>1. /\ Uint8(n) \in Bytes /\ Int8(n) \in {Uint8(n), Uint8(n) - ByteMax - 1}
      /\ n \in 0 .. SfpsMax => Int8(n) = n
  BY Areas, Uint8Is DEF Int8, Bytes
<1>2. Uint8(Int8(n)) = Uint8(n)
  BY <1>1, Areas, Uint8Is DEF Bytes
<1>3. Int8(Int8(n)) = Int8(n)
  BY <1>2 DEF Int8
<1>4. Uint8(-1) = ByteMax /\ Int8(-1) = -1
  BY Areas, Uint8Is DEF Int8, Bytes
<1>5. QED
  BY <1>1, <1>2, <1>3, <1>4, Areas, Uint8Is DEF Bytes
-----------------------------------------------------------------------------
(* The memory.                                                             *)

Put(m, w) == IF w.to \in Addresses THEN [m EXCEPT ![w.to] = w.byte] ELSE m

\* One byte written changes one cell.
LEMMA PutIs ==
    ASSUME NEW m \in Memories, NEW w \in Writes
    PROVE  /\ Put(m, w) \in Memories
           /\ \A a \in Addresses : Put(m, w)[a] = IF a = w.to THEN w.byte ELSE m[a]
BY DEF Put, Memories, Writes

\* The size of the script, a number of two bytes.
LEMMA SizeIs ==
    ASSUME NEW m \in Memories
    PROVE  /\ SizeOf(m) \in Nat
           /\ SizeOf(m) <= ByteMax => m[EE_BASE_INIT] = 0
           /\ m[EE_BASE_INIT] = 0 => SizeOf(m) = m[EE_BASE_INIT + 1]
           /\ SizeOf(m) = 0 <=> m[EE_BASE_INIT] = 0 /\ m[EE_BASE_INIT + 1] = 0
           /\ SizeOf(m) = BlankSize => m[EE_BASE_INIT + 1] = ByteMax
<1>1. EE_BASE_INIT \in Addresses /\ EE_BASE_INIT + 1 \in Addresses
  BY Areas, InAddresses
<1> DEFINE hi == m[EE_BASE_INIT]
           lo == m[EE_BASE_INIT + 1]
<1>2. hi \in 0 .. ByteMax /\ lo \in 0 .. ByteMax /\ ByteMax \in Nat
  BY <1>1, Areas DEF Memories, Bytes
<1>3. SizeOf(m) = hi * (ByteMax + 1) + lo
  BY DEF SizeOf
<1> HIDE DEF hi, lo
<1>4. hi * (ByteMax + 1) \in Nat /\ (hi # 0 => hi * (ByteMax + 1) > ByteMax)
      /\ (hi = 0 => hi * (ByteMax + 1) = 0)
  BY <1>2
<1>5. (hi * (ByteMax + 1)) + lo = ((ByteMax + 1) * (ByteMax + 1)) - 1 => lo = ByteMax
  <2>1. CASE hi = ByteMax
    BY <1>2, <2>1
  <2>2. CASE hi < ByteMax
    <3>1. hi * (ByteMax + 1) <= (ByteMax - 1) * (ByteMax + 1)
      BY <1>2, <2>2
    <3>2. QED
      BY <1>2, <3>1
  <2>3. QED
    BY <1>2, <2>1, <2>2
<1>6. QED
  BY <1>2, <1>3, <1>4, <1>5 DEF BlankSize, hi, lo
-----------------------------------------------------------------------------
(* The writes of a command.                                                *)

\* The first of the writes that remain, and those that remain after it.
LEMMA RestIs ==
    ASSUME NEW S, NEW ws \in Seq(S), NEW n \in 0 .. Len(ws) - 1
    PROVE  /\ Rest(ws, n) # <<>> /\ Rest(ws, n) \in Seq(S)
           /\ Head(Rest(ws, n)) = ws[n + 1] /\ ws[n + 1] \in S
           /\ Tail(Rest(ws, n)) = Rest(ws, n + 1)
           /\ Rest(ws, n)[Len(Rest(ws, n))] = ws[Len(ws)]
<1>1. /\ Rest(ws, n) \in Seq(S) /\ Len(Rest(ws, n)) = Len(ws) - n
      /\ \A k \in 1 .. Len(ws) - n : Rest(ws, n)[k] = ws[n + k]
  BY SubSeqProperties DEF Rest
<1>2. /\ Head(SubSeq(ws, n + 1, Len(ws))) = ws[n + 1]
      /\ Tail(SubSeq(ws, n + 1, Len(ws))) = SubSeq(ws, n + 2, Len(ws))
  BY HeadTailOfSubSeq, LenProperties
<1>3. Len(ws) \in Nat /\ Len(ws) - n \in 1 .. Len(ws)
  BY LenProperties
<1>4. Rest(ws, n) # <<>>
  BY <1>1, <1>3, EmptySeq
<1>5. QED
  BY <1>1, <1>2, <1>3, <1>4, ElementOfSeq DEF Rest

\* A sequence of length one.
LEMMA OneElement ==
    ASSUME NEW S, NEW s \in Seq(S), Len(s) = 1
    PROVE  s = <<s[1]>>
<1>1. s[1] \in S
  BY ElementOfSeq
<1> DEFINE t == <<s[1]>>
<1>2. t \in Seq(S) /\ Len(t) = 1 /\ t[1] = s[1]
  BY <1>1
<1> HIDE DEF t
<1>3. \A i \in 1 .. Len(s) : s[i] = t[i]
  BY <1>2
<1>4. s = t
  BY <1>2, <1>3, SeqEqual
<1>5. QED
  BY <1>4 DEF t

\* Before the first write all remain, before the last one only it.
LEMMA RestEnds ==
    ASSUME NEW S, NEW ws \in Seq(S), ws # <<>>
    PROVE  /\ Rest(ws, 0) = ws /\ Rest(ws, Len(ws)) = <<>>
           /\ Rest(ws, Len(ws) - 1) = <<ws[Len(ws)]>>
<1>1. Len(ws) \in Nat \ {0}
  BY EmptySeq, LenProperties
<1>2. Rest(ws, 0) = ws
  BY <1>1, SubSeqProperties, SeqEqual DEF Rest
<1>3. Rest(ws, Len(ws)) = <<>>
  BY <1>1 DEF Rest
<1>4. Rest(ws, Len(ws) - 1) = <<ws[Len(ws)]>>
  <2>1. ws[Len(ws)] \in S /\ \A i \in Len(ws) .. Len(ws) : ws[i] \in S
    BY <1>1, ElementOfSeq
  <2>2. /\ SubSeq(ws, Len(ws), Len(ws)) \in Seq(S)
        /\ Len(SubSeq(ws, Len(ws), Len(ws))) = 1
        /\ SubSeq(ws, Len(ws), Len(ws))[1] = ws[Len(ws)]
    BY <1>1, <2>1, SubSeqProperties
  <2>3. SubSeq(ws, Len(ws), Len(ws)) = <<ws[Len(ws)]>>
    BY <2>2, OneElement
  <2>4. QED
    BY <1>1, <2>3 DEF Rest
<1>5. QED
  BY <1>2, <1>3, <1>4

\* eeprom_write's bytes go to consecutive cells.
LEMMA WriteIs ==
    ASSUME NEW to \in Int, NEW bytes \in Seq(Bytes),
           NEW of \in {"record", "count", "text", "used"}
    PROVE  /\ Write(to, bytes, of) \in Seq(Writes)
           /\ Len(Write(to, bytes, of)) = Len(bytes)
           /\ \A k \in 1 .. Len(bytes) :
                Write(to, bytes, of)[k] = [to |-> to + k - 1, byte |-> bytes[k], of |-> of]
<1>1. Len(bytes) \in Nat /\ DOMAIN bytes = 1 .. Len(bytes)
  BY LenProperties
<1>2. \A k \in 1 .. Len(bytes) : [to |-> to + k - 1, byte |-> bytes[k], of |-> of] \in Writes
  BY <1>1, ElementOfSeq DEF Writes
<1>3. QED
  BY <1>1, <1>2 DEF Write

\* The elements of two sequences put together.
LEMMA ConcatIs ==
    ASSUME NEW S, NEW s \in Seq(S), NEW t \in Seq(S)
    PROVE  /\ s \o t \in Seq(S) /\ Len(s \o t) = Len(s) + Len(t)
           /\ \A k \in 1 .. Len(s) : (s \o t)[k] = s[k]
           /\ \A k \in 1 .. Len(t) : (s \o t)[Len(s) + k] = t[k]
<1>1. /\ s \o t \in Seq(S) /\ Len(s \o t) = Len(s) + Len(t)
      /\ \A k \in 1 .. Len(s) + Len(t) :
           (s \o t)[k] = IF k <= Len(s) THEN s[k] ELSE t[k - Len(s)]
  BY ConcatProperties
<1>2. Len(s) \in Nat /\ Len(t) \in Nat
  BY LenProperties
<1>3. \A k \in 1 .. Len(t) : (s \o t)[Len(s) + k] = t[k]
  <2> TAKE k \in 1 .. Len(t)
  <2>1. Len(s) + k \in 1 .. Len(s) + Len(t) /\ ~(Len(s) + k <= Len(s))
        /\ (Len(s) + k) - Len(s) = k
    BY <1>2
  <2>2. QED
    BY <1>1, <2>1
<1>4. QED
  BY <1>1, <1>2, <1>3

\* The size of the script as two bytes; its high byte is zero while it fits.
LEMMA UsedIs ==
    ASSUME NEW n \in Nat
    PROVE  /\ Used(n) \in Seq(Bytes) /\ Len(Used(n)) = 2
           /\ n <= ByteMax => Used(n) = <<0, n>>
<1>1. n \div (ByteMax + 1) \in Int /\ (n <= ByteMax => n \div (ByteMax + 1) = 0)
  BY Areas
<1>2. Uint8(n) \in Bytes /\ Uint8(n \div (ByteMax + 1)) \in Bytes
  BY <1>1, Uint8Is
<1>3. n <= ByteMax => Uint8(n) = n /\ Uint8(n \div (ByteMax + 1)) = 0
  BY <1>1, Uint8Is, Areas DEF Bytes
<1>4. QED
  BY <1>2, <1>3 DEF Used

(* One byte, and two.                                                      *)
LEMMA EraseIs ==
    /\ Write(EE_BASE_SFP, <<0>>, "count") \in Seq(Writes)
    /\ Write(EE_BASE_SFP, <<0>>, "count") # <<>>
    /\ Len(Write(EE_BASE_SFP, <<0>>, "count")) = 1
    /\ Write(EE_BASE_SFP, <<0>>, "count")[1] = [to |-> EE_BASE_SFP, byte |-> 0, of |-> "count"]
    /\ Write(EE_BASE_INIT, Used(0), "used") \in Seq(Writes)
    /\ Write(EE_BASE_INIT, Used(0), "used") # <<>>
    /\ Len(Write(EE_BASE_INIT, Used(0), "used")) = 2
    /\ Write(EE_BASE_INIT, Used(0), "used")[1]
         = [to |-> EE_BASE_INIT, byte |-> 0, of |-> "used"]
    /\ Write(EE_BASE_INIT, Used(0), "used")[2]
         = [to |-> EE_BASE_INIT + 1, byte |-> 0, of |-> "used"]
<1> DEFINE one == <<0>>
           two == Used(0)
<1>1. 0 \in Bytes /\ 0 <= ByteMax /\ EE_BASE_SFP = 1 /\ EE_BASE_INIT \in Nat
  BY Areas DEF Bytes
<1>2. one \in Seq(Bytes) /\ Len(one) = 1 /\ one[1] = 0
  BY <1>1
<1>3. two \in Seq(Bytes) /\ Len(two) = 2 /\ two[1] = 0 /\ two[2] = 0
  BY <1>1, UsedIs
<1> HIDE DEF one, two
<1>4. /\ Write(EE_BASE_SFP, one, "count") \in Seq(Writes)
      /\ Len(Write(EE_BASE_SFP, one, "count")) = 1
      /\ Write(EE_BASE_SFP, one, "count")[1]
           = [to |-> EE_BASE_SFP + 1 - 1, byte |-> one[1], of |-> "count"]
  BY <1>1, <1>2, WriteIs
<1>5. /\ Write(EE_BASE_INIT, two, "used") \in Seq(Writes)
      /\ Len(Write(EE_BASE_INIT, two, "used")) = 2
      /\ Write(EE_BASE_INIT, two, "used")[1]
           = [to |-> EE_BASE_INIT + 1 - 1, byte |-> two[1], of |-> "used"]
      /\ Write(EE_BASE_INIT, two, "used")[2]
           = [to |-> EE_BASE_INIT + 2 - 1, byte |-> two[2], of |-> "used"]
  BY <1>1, <1>3, WriteIs
<1>6. EE_BASE_SFP + 1 - 1 = EE_BASE_SFP /\ EE_BASE_INIT + 1 - 1 = EE_BASE_INIT
      /\ EE_BASE_INIT + 2 - 1 = EE_BASE_INIT + 1
  BY <1>1
<1>7. Write(EE_BASE_SFP, one, "count") # <<>> /\ Write(EE_BASE_INIT, two, "used") # <<>>
  <2>1. Len(Write(EE_BASE_SFP, one, "count")) # 0 /\ Len(Write(EE_BASE_INIT, two, "used")) # 0
    BY <1>4, <1>5
  <2>2. QED
    BY <2>1, EmptySeq
<1>8. QED
  BY <1>2, <1>3, <1>4, <1>5, <1>6, <1>7 DEF one, two

(* Four bytes of record, then the count.                                   *)
LEMMA SfpWritesAre ==
    ASSUME NEW c \in Bytes, NEW r \in Records
    PROVE  /\ SfpWrites(c, r) \in Seq(Writes) /\ Len(SfpWrites(c, r)) = 5
           /\ \A k \in 1 .. 4 : SfpWrites(c, r)[k]
                = [to |-> RecordAt(c) + k - 1, byte |-> Encode(r)[k], of |-> "record"]
           /\ SfpWrites(c, r)[5] = [to |-> EE_BASE_SFP, byte |-> Uint8(c + 1), of |-> "count"]
<1> DEFINE rec == Write(RecordAt(c), Encode(r), "record")
           one == <<Uint8(c + 1)>>
           cnt == Write(EE_BASE_SFP, one, "count")
<1>1. Encode(r) \in Seq(Bytes) /\ Len(Encode(r)) = 4
  BY DEF Encode, Records
<1>2. RecordAt(c) \in Int /\ EE_BASE_SFP = 1 /\ c \in Int
  BY Areas DEF RecordAt, RecSize, Bytes
<1>3. Uint8(c + 1) \in Bytes
  BY <1>2, Uint8Is
<1>4. one \in Seq(Bytes) /\ Len(one) = 1 /\ one[1] = Uint8(c + 1)
  BY <1>3
<1> HIDE DEF one
<1>5. /\ rec \in Seq(Writes) /\ Len(rec) = 4
      /\ \A k \in 1 .. 4 :
           rec[k] = [to |-> RecordAt(c) + k - 1, byte |-> Encode(r)[k], of |-> "record"]
  BY <1>1, <1>2, WriteIs
<1>6. /\ cnt \in Seq(Writes) /\ Len(cnt) = 1
      /\ cnt[1] = [to |-> EE_BASE_SFP, byte |-> Uint8(c + 1), of |-> "count"]
  <2>1. cnt[1] = [to |-> EE_BASE_SFP + 1 - 1, byte |-> one[1], of |-> "count"]
    BY <1>2, <1>4, WriteIs
  <2>2. QED
    BY <2>1, <1>2, <1>4, WriteIs
<1> HIDE DEF rec, cnt
<1>7. SfpWrites(c, r) = rec \o cnt
  BY DEF SfpWrites, rec, cnt, one
<1>8. /\ rec \o cnt \in Seq(Writes) /\ Len(rec \o cnt) = Len(rec) + Len(cnt)
      /\ \A k \in 1 .. Len(rec) : (rec \o cnt)[k] = rec[k]
      /\ \A k \in 1 .. Len(cnt) : (rec \o cnt)[Len(rec) + k] = cnt[k]
  <2>1. rec \in Seq(Writes) /\ cnt \in Seq(Writes)
    BY <1>5, <1>6
  <2>2. QED
    BY ONLY <2>1, ConcatIs
<1>9. QED
  BY <1>5, <1>6, <1>7, <1>8

(* The words of a command.                                                 *)
LEMMA WordsAre ==
    ASSUME NEW cmd \in Commands
    PROVE  /\ Len(cmd) \in Nat \ {0}
           /\ Words(cmd) \in Seq(Bytes) /\ Len(Words(cmd)) = 2 * Len(cmd)
           /\ \A k \in 1 .. 2 * Len(cmd) : Words(cmd)[k] # Newline
           /\ Line(cmd) \in Seq(Bytes) /\ Len(Line(cmd)) = 2 * Len(cmd) - 1
           /\ \A k \in 1 .. 2 * Len(cmd) - 1 : Line(cmd)[k] = Words(cmd)[k]
<1>1. /\ cmd \in Seq(Letters) /\ cmd # <<>>
      /\ Letters \subseteq Bytes /\ Space \in Bytes
      /\ Newline \notin Letters /\ Newline # Space
  BY StorageAssumption DEF StorageAssumption
<1>2. Len(cmd) \in Nat \ {0}
  BY <1>1, EmptySeq, LenProperties
<1> DEFINE W(k) == IF k % 2 = 1 THEN cmd[(k + 1) \div 2] ELSE Space
<1>3. ASSUME NEW k \in 1 .. 2 * Len(cmd)
      PROVE  W(k) \in Letters \cup {Space}
  <2>1. CASE k % 2 = 1
    <3>1. (k + 1) \div 2 \in 1 .. Len(cmd)
      BY <1>2
    <3>2. QED
      BY <1>1, <2>1, <3>1, ElementOfSeq
  <2>2. CASE k % 2 # 1
    BY <2>2
  <2>3. QED
    BY <2>1, <2>2
<1>4. Words(cmd) = [k \in 1 .. 2 * Len(cmd) |-> W(k)]
  BY DEF Words
<1> HIDE DEF W
<1>5. \A k \in 1 .. 2 * Len(cmd) : W(k) \in Bytes /\ W(k) # Newline
  BY <1>1, <1>3
<1>6. /\ Words(cmd) \in Seq(Bytes) /\ Len(Words(cmd)) = 2 * Len(cmd)
      /\ \A k \in 1 .. 2 * Len(cmd) : Words(cmd)[k] # Newline
  BY <1>2, <1>4, <1>5
<1>7. /\ Line(cmd) \in Seq(Bytes) /\ Len(Line(cmd)) = 2 * Len(cmd) - 1
      /\ \A k \in 1 .. 2 * Len(cmd) - 1 : Line(cmd)[k] = Words(cmd)[k]
  BY <1>2, <1>6, SubSeqProperties DEF Line
<1>8. QED
  BY <1>2, <1>6, <1>7

(* The words, the newline over the last separator, the size.               *)
LEMMA InitWritesAre ==
    ASSUME NEW cmd \in Commands, NEW u \in Nat
    PROVE  LET L  == Len(cmd)
               ws == InitWrites(u, cmd)
           IN  /\ ws \in Seq(Writes) /\ Len(ws) = 2 * L + 3
               /\ \A k \in 1 .. 2 * L :
                    ws[k] = [to |-> EE_SCRIPT + u + k - 1, byte |-> Words(cmd)[k],
                             of |-> "text"]
               /\ ws[2 * L + 1]
                    = [to |-> EE_SCRIPT + u + 2 * L - 1, byte |-> Newline, of |-> "text"]
               /\ ws[2 * L + 2]
                    = [to |-> EE_BASE_INIT, byte |-> Used(u + 2 * L)[1], of |-> "used"]
               /\ ws[2 * L + 3]
                    = [to |-> EE_BASE_INIT + 1, byte |-> Used(u + 2 * L)[2], of |-> "used"]
<1> DEFINE L     == Len(cmd)
           ws    == InitWrites(u, cmd)
           words == Words(cmd)
           nl    == <<Newline>>
           used  == Used(u + 2 * L)
           A     == Write(EE_SCRIPT + u, words, "text")
           B     == Write(EE_SCRIPT + u + 2 * L - 1, nl, "text")
           C     == Write(EE_BASE_INIT, used, "used")
<1>1. L \in Nat \ {0} /\ words \in Seq(Bytes) /\ Len(words) = 2 * L
  BY WordsAre
<1>2. nl \in Seq(Bytes) /\ Len(nl) = 1 /\ nl[1] = Newline
  BY StorageAssumption DEF StorageAssumption
<1>3. used \in Seq(Bytes) /\ Len(used) = 2
  BY <1>1, UsedIs
<1>4. EE_SCRIPT + u \in Nat /\ EE_SCRIPT + u + 2 * L - 1 \in Nat /\ EE_BASE_INIT \in Nat
  BY <1>1, Areas
<1>5. ws = (A \o B) \o C
  BY DEF InitWrites
<1> HIDE DEF L, ws, words, nl, used
<1>6. /\ A \in Seq(Writes) /\ Len(A) = 2 * L
      /\ \A k \in 1 .. 2 * L :
           A[k] = [to |-> EE_SCRIPT + u + k - 1, byte |-> words[k], of |-> "text"]
  BY <1>1, <1>4, WriteIs
<1>7. /\ B \in Seq(Writes) /\ Len(B) = 1
      /\ B[1] = [to |-> EE_SCRIPT + u + 2 * L - 1, byte |-> Newline, of |-> "text"]
  <2>1. B[1] = [to |-> EE_SCRIPT + u + 2 * L - 1 + 1 - 1, byte |-> nl[1], of |-> "text"]
    BY <1>2, <1>4, WriteIs
  <2>2. EE_SCRIPT + u + 2 * L - 1 + 1 - 1 = EE_SCRIPT + u + 2 * L - 1
    BY <1>1, Areas
  <2>3. QED
    BY <1>2, <1>4, <2>1, <2>2, WriteIs
<1>8. /\ C \in Seq(Writes) /\ Len(C) = 2
      /\ C[1] = [to |-> EE_BASE_INIT, byte |-> used[1], of |-> "used"]
      /\ C[2] = [to |-> EE_BASE_INIT + 1, byte |-> used[2], of |-> "used"]
  <2>1. /\ C[1] = [to |-> EE_BASE_INIT + 1 - 1, byte |-> used[1], of |-> "used"]
        /\ C[2] = [to |-> EE_BASE_INIT + 2 - 1, byte |-> used[2], of |-> "used"]
    BY <1>3, <1>4, WriteIs
  <2>2. EE_BASE_INIT + 1 - 1 = EE_BASE_INIT /\ EE_BASE_INIT + 2 - 1 = EE_BASE_INIT + 1
    BY Areas
  <2>3. QED
    BY <1>3, <1>4, <2>1, <2>2, WriteIs
<1> HIDE DEF A, B, C
<1>9. /\ A \o B \in Seq(Writes) /\ Len(A \o B) = Len(A) + Len(B)
      /\ \A k \in 1 .. Len(A) : (A \o B)[k] = A[k]
      /\ \A k \in 1 .. Len(B) : (A \o B)[Len(A) + k] = B[k]
  <2>1. A \in Seq(Writes) /\ B \in Seq(Writes)
    BY <1>6, <1>7
  <2>2. QED
    BY ONLY <2>1, ConcatIs
<1> DEFINE AB == A \o B
<1>10. /\ AB \in Seq(Writes) /\ Len(AB) = 2 * L + 1
       /\ \A k \in 1 .. 2 * L : AB[k] = A[k]
       /\ AB[2 * L + 1] = B[1]
  BY <1>1, <1>6, <1>7, <1>9
<1> HIDE DEF AB
<1>11. /\ AB \o C \in Seq(Writes) /\ Len(AB \o C) = Len(AB) + Len(C)
       /\ \A k \in 1 .. Len(AB) : (AB \o C)[k] = AB[k]
       /\ \A k \in 1 .. Len(C) : (AB \o C)[Len(AB) + k] = C[k]
  <2>1. AB \in Seq(Writes) /\ C \in Seq(Writes)
    BY <1>8, <1>10
  <2>2. QED
    BY ONLY <2>1, ConcatIs
<1>12. ws = AB \o C
  BY <1>5 DEF AB
<1>13. /\ ws \in Seq(Writes) /\ Len(ws) = 2 * L + 3
       /\ \A k \in 1 .. 2 * L + 1 : ws[k] = AB[k]
       /\ ws[(2 * L + 1) + 1] = C[1] /\ ws[(2 * L + 1) + 2] = C[2]
  BY <1>1, <1>8, <1>10, <1>11, <1>12
<1>14. (2 * L + 1) + 1 = 2 * L + 2 /\ (2 * L + 1) + 2 = 2 * L + 3
       /\ 2 * L + 1 \in 1 .. 2 * L + 1 /\ 1 .. 2 * L \subseteq 1 .. 2 * L + 1
  BY <1>1
<1>15. QED
  BY <1>6, <1>7, <1>8, <1>10, <1>13, <1>14 DEF L, ws, words, used

\* One more write of a command leaves the others in the memory.
LEMMA WrittenNext ==
    ASSUME NEW m \in Memories, NEW ws \in Seq(Writes), NEW n \in 0 .. Len(ws) - 1,
           \A k \in 1 .. Len(ws) : ws[k].to \in Addresses, Written(m, ws, n)
    PROVE  Written(Put(m, ws[n + 1]), ws, n + 1)
<1>1. Len(ws) \in Nat /\ n \in Nat /\ n + 1 \in 1 .. Len(ws) /\ ws[n + 1] \in Writes
  BY LenProperties, ElementOfSeq
<1> DEFINE m1 == Put(m, ws[n + 1])
<1>2. \A a \in Addresses : m1[a] = IF a = ws[n + 1].to THEN ws[n + 1].byte ELSE m[a]
  BY <1>1, PutIs
<1> HIDE DEF m1
<1>3. ASSUME NEW k \in 1 .. n + 1, \A j \in k + 1 .. n + 1 : ws[j].to # ws[k].to
      PROVE  m1[ws[k].to] = ws[k].byte
  <2>1. CASE k = n + 1
    BY <1>1, <1>2, <2>1
  <2>2. CASE k \in 1 .. n
    <3>1. n + 1 \in k + 1 .. n + 1 /\ k \in 1 .. Len(ws)
      BY <1>1, <2>2
    <3>2. \A j \in k + 1 .. n : ws[j].to # ws[k].to
      BY <1>1, <1>3, <2>2
    <3>3. m[ws[k].to] = ws[k].byte
      BY <2>2, <3>2 DEF Written
    <3>4. QED
      BY <1>2, <1>3, <3>1, <3>3
  <2>3. QED
    BY <1>1, <2>1, <2>2
<1>4. QED
  BY <1>3 DEF Written, m1
-----------------------------------------------------------------------------
(* The database in the memory.                                             *)

\* A record is its four cells.
LEMMA RecordIs ==
    ASSUME AreasApart, NEW m \in Memories, NEW pos \in 0 .. MaxSfps - 1
    PROVE  RecordOf(m, pos) \in Records
BY RecordCells DEF RecordOf, Records, Memories, RecordAt

\* A write behind the records leaves the database as it is.
LEMMA DbKept ==
    ASSUME AreasApart, NEW m, NEW m1, NEW d \in Seq(Records), HoldsDb(m, d),
           \A a \in 1 .. 4 * Len(d) + 1 : m1[a] = m[a]
    PROVE  HoldsDb(m1, d)
<1>1. Len(d) \in Nat /\ Len(d) <= MaxSfps /\ m1[EE_BASE_SFP] = m[EE_BASE_SFP]
  BY Areas, LenProperties DEF HoldsDb
<1>2. ASSUME NEW k \in 1 .. Len(d)
      PROVE  RecordOf(m1, k - 1) = RecordOf(m, k - 1)
  <2>1. k - 1 \in 0 .. MaxSfps - 1
    BY <1>1, Areas
  <2>2. RecordAt(k - 1) = 4 * k - 2
    BY <2>1, RecordCells
  <2>3. RecordAt(k - 1) .. RecordAt(k - 1) + 3 \subseteq 1 .. 4 * Len(d) + 1
    BY <1>1, <2>2
  <2>4. \A i \in 0 .. 3 : m1[RecordAt(k - 1) + i] = m[RecordAt(k - 1) + i]
    BY <2>2, <2>3
  <2>5. /\ m1[RecordAt(k - 1)] = m[RecordAt(k - 1)]
        /\ m1[RecordAt(k - 1) + 1] = m[RecordAt(k - 1) + 1]
        /\ m1[RecordAt(k - 1) + 2] = m[RecordAt(k - 1) + 2]
        /\ m1[RecordAt(k - 1) + 3] = m[RecordAt(k - 1) + 3]
    BY <2>2, <2>4
  <2>6. QED
    BY <2>5 DEF RecordOf
<1>3. QED
  BY <1>1, <1>2 DEF HoldsDb

\* The record after the last one and the count make the database one longer.
LEMMA DbAppended ==
    ASSUME AreasApart, NEW m, NEW m1, NEW d \in Seq(Records), HoldsDb(m, d),
           NEW r \in Records, r.chksum = Checksum(r),
           Len(d) < MaxSfps, m1[EE_BASE_SFP] = Len(d) + 1, RecordOf(m1, Len(d)) = r,
           \A a \in 2 .. 4 * Len(d) + 1 : m1[a] = m[a]
    PROVE  HoldsDb(m1, Append(d, r))
<1>1. Len(d) \in Nat /\ Len(d) < MaxSfps
  BY LenProperties
<1>2. /\ Len(Append(d, r)) = Len(d) + 1 /\ Append(d, r)[Len(d) + 1] = r
      /\ \A k \in 1 .. Len(d) : Append(d, r)[k] = d[k]
  BY AppendProperties
<1>3. ASSUME NEW k \in 1 .. Len(d)
      PROVE  RecordOf(m1, k - 1) = RecordOf(m, k - 1)
  <2>1. k - 1 \in 0 .. MaxSfps - 1
    BY <1>1, Areas
  <2>2. RecordAt(k - 1) = 4 * k - 2
    BY <2>1, RecordCells
  <2>3. RecordAt(k - 1) .. RecordAt(k - 1) + 3 \subseteq 2 .. 4 * Len(d) + 1
    BY <1>1, <2>2
  <2>4. /\ m1[RecordAt(k - 1)] = m[RecordAt(k - 1)]
        /\ m1[RecordAt(k - 1) + 1] = m[RecordAt(k - 1) + 1]
        /\ m1[RecordAt(k - 1) + 2] = m[RecordAt(k - 1) + 2]
        /\ m1[RecordAt(k - 1) + 3] = m[RecordAt(k - 1) + 3]
    BY <2>2, <2>3
  <2>5. QED
    BY <2>4 DEF RecordOf
<1>4. ASSUME NEW k \in 1 .. Len(d) + 1
      PROVE  /\ RecordOf(m1, k - 1) = Append(d, r)[k]
             /\ Append(d, r)[k].chksum = Checksum(Append(d, r)[k])
  <2>1. CASE k = Len(d) + 1
    <3>1. k - 1 = Len(d)
      BY <1>1, <2>1
    <3>2. QED
      BY <1>2, <2>1, <3>1
  <2>2. CASE k \in 1 .. Len(d)
    BY <1>2, <1>3, <2>2 DEF HoldsDb
  <2>3. QED
    BY <1>1, <2>1, <2>2
<1> DEFINE d1 == Append(d, r)
<1>5. Len(d1) = Len(d) + 1 /\ Len(d) + 1 <= MaxSfps /\ m1[EE_BASE_SFP] = Len(d1)
  BY <1>1, <1>2, Areas
<1>6. \A k \in 1 .. Len(d1) : RecordOf(m1, k - 1) = d1[k] /\ d1[k].chksum = Checksum(d1[k])
  BY <1>4, <1>5
<1> HIDE DEF d1
<1>7. HoldsDb(m1, d1)
  BY <1>5, <1>6 DEF HoldsDb
<1>8. QED
  BY <1>7 DEF d1

(* The four bytes of a record, read back.                                  *)
LEMMA RecordRead ==
    ASSUME NEW m, NEW c, NEW r \in Records, RecordAt(c) \in Int,
           \A k \in 1 .. 4 : m[RecordAt(c) + k - 1] = Encode(r)[k]
    PROVE  RecordOf(m, c) = r
<1> DEFINE e == Encode(r)
<1>1. e[1] = r.pn /\ e[2] = r.dTx /\ e[3] = r.dRx /\ e[4] = r.chksum
  BY DEF Encode
<1>2. /\ m[RecordAt(c) + 1 - 1] = e[1] /\ m[RecordAt(c) + 2 - 1] = e[2]
      /\ m[RecordAt(c) + 3 - 1] = e[3] /\ m[RecordAt(c) + 4 - 1] = e[4]
  OBVIOUS
<1> HIDE DEF e
<1>3. /\ m[RecordAt(c)] = e[1] /\ m[RecordAt(c) + 1] = e[2]
      /\ m[RecordAt(c) + 2] = e[3] /\ m[RecordAt(c) + 3] = e[4]
  <2>1. /\ RecordAt(c) + 1 - 1 = RecordAt(c) /\ RecordAt(c) + 2 - 1 = RecordAt(c) + 1
        /\ RecordAt(c) + 3 - 1 = RecordAt(c) + 2 /\ RecordAt(c) + 4 - 1 = RecordAt(c) + 3
    OBVIOUS
  <2>2. QED
    BY <1>2, <2>1
<1>4. RecordOf(m, c) = [pn |-> r.pn, dTx |-> r.dTx, dRx |-> r.dRx, chksum |-> r.chksum]
  BY <1>1, <1>3 DEF RecordOf
<1>5. QED
  BY <1>4 DEF Records
-----------------------------------------------------------------------------
(* The script in the memory.                                               *)

\* What a layout says of the offsets.
LEMMA LayoutIs ==
    ASSUME NEW m \in Memories, NEW s \in Seq(Seq(Bytes)), NEW at, Layout(m, s, at)
    PROVE  /\ Len(s) \in Nat /\ at[1] = 0 /\ at[Len(s) + 1] = SizeOf(m)
           /\ \A k \in 1 .. Len(s) + 1 : at[k] \in 0 .. SizeOf(m)
           /\ \A k \in 1 .. Len(s) : /\ k + 1 \in 1 .. Len(s) + 1 /\ at[k] < at[k + 1]
                                     /\ Len(s[k]) = at[k + 1] - at[k] - 1
                                     /\ s[k] \in Seq(Bytes)
<1>1. Len(s) \in Nat /\ at \in [1 .. Len(s) + 1 -> 0 .. MaxScript] /\ SizeOf(m) \in Nat
      /\ at[1] = 0 /\ at[Len(s) + 1] = SizeOf(m)
  BY LenProperties, SizeIs DEF Layout
<1>2. \A k \in 1 .. Len(s) + 1 : at[k] \in 0 .. SizeOf(m)
  <2> TAKE k \in 1 .. Len(s) + 1
  <2>1. CASE k = Len(s) + 1
    BY <1>1, <2>1
  <2>2. CASE k < Len(s) + 1
    <3>1. at[k] < at[Len(s) + 1]
      BY <1>1, <2>2 DEF Layout
    <3>2. at[k] \in Nat
      BY <1>1, Areas
    <3>3. QED
      BY <1>1, <3>1, <3>2
  <2>3. QED
    BY <1>1, <2>1, <2>2
<1>3. ASSUME NEW k \in 1 .. Len(s)
      PROVE  /\ k + 1 \in 1 .. Len(s) + 1 /\ at[k] < at[k + 1]
             /\ Len(s[k]) = at[k + 1] - at[k] - 1
             /\ s[k] \in Seq(Bytes)
  <2>1. k \in 1 .. Len(s) + 1 /\ k + 1 \in 1 .. Len(s) + 1 /\ k < k + 1
    BY <1>1
  <2>2. QED
    BY <2>1, ElementOfSeq DEF Layout
<1>4. QED
  BY <1>1, <1>2, <1>3

\* A write behind the script leaves it as it is.
LEMMA ScriptKept ==
    ASSUME NEW m \in Memories, NEW m1, NEW s \in Seq(Seq(Bytes)), HoldsScript(m, s),
           SizeOf(m1) = SizeOf(m),
           \A q \in 0 .. SizeOf(m) - 1 : m1[EE_SCRIPT + q] = m[EE_SCRIPT + q]
    PROVE  HoldsScript(m1, s)
<1>1. SizeOf(m) <= MaxScript /\ SizeOf(m) \in Nat
  BY SizeIs DEF HoldsScript
<1>2. PICK at \in [1 .. Len(s) + 1 -> 0 .. MaxScript] : Layout(m, s, at)
  BY DEF HoldsScript
<1>3. ASSUME NEW k \in 1 .. Len(s)
      PROVE  /\ Len(s[k]) = at[k + 1] - at[k] - 1
             /\ m1[EE_SCRIPT + at[k + 1] - 1] = Newline
             /\ \A n \in 1 .. Len(s[k]) :
                  m1[EE_SCRIPT + at[k] + n - 1] = s[k][n] /\ s[k][n] # Newline
  <2>1. /\ at[k] \in 0 .. SizeOf(m) /\ at[k + 1] \in 0 .. SizeOf(m) /\ at[k] < at[k + 1]
        /\ Len(s[k]) = at[k + 1] - at[k] - 1
    BY <1>2, LayoutIs
  <2>2. m1[EE_SCRIPT + at[k + 1] - 1] = Newline
    <3>1. at[k + 1] - 1 \in 0 .. SizeOf(m) - 1
      BY <1>1, <2>1
    <3>2. EE_SCRIPT + at[k + 1] - 1 = EE_SCRIPT + (at[k + 1] - 1)
      BY <2>1, Areas
    <3>3. m[EE_SCRIPT + at[k + 1] - 1] = Newline
      BY <1>2 DEF Layout
    <3>4. QED
      BY <3>1, <3>2, <3>3
  <2>3. ASSUME NEW n \in 1 .. Len(s[k])
        PROVE  m1[EE_SCRIPT + at[k] + n - 1] = s[k][n] /\ s[k][n] # Newline
    <3>1. at[k] + n - 1 \in 0 .. SizeOf(m) - 1
      BY <1>1, <2>1
    <3>2. EE_SCRIPT + at[k] + n - 1 = EE_SCRIPT + (at[k] + n - 1)
      BY <2>1, Areas
    <3>3. m[EE_SCRIPT + at[k] + n - 1] = s[k][n] /\ s[k][n] # Newline
      BY <1>2 DEF Layout
    <3>4. QED
      BY <3>1, <3>2, <3>3
  <2>4. QED
    BY <2>1, <2>2, <2>3
<1>4. Layout(m1, s, at)
  BY <1>2, <1>3 DEF Layout
<1>5. QED
  BY <1>1, <1>4 DEF HoldsScript

\* A script of size zero has no lines.
LEMMA ScriptEmpty ==
    ASSUME NEW m \in Memories
    PROVE  /\ SizeOf(m) = 0 => HoldsScript(m, <<>>)
           /\ \A s \in Seq(Seq(Bytes)) :
                HoldsScript(m, s) => (SizeOf(m) = 0 <=> s = <<>>)
<1>1. ASSUME SizeOf(m) = 0
      PROVE  HoldsScript(m, <<>>)
  <2> DEFINE at == [k \in 1 .. 1 |-> 0]
  <2>1. Len(<<>>) = 0 /\ 0 <= MaxScript
    BY Areas
  <2>2. at \in [1 .. 1 -> 0 .. MaxScript] /\ at[1] = 0
    BY <2>1, Areas
  <2> HIDE DEF at
  <2>3. Layout(m, <<>>, at)
    BY <1>1, <2>1, <2>2 DEF Layout
  <2>4. QED
    BY <1>1, <2>1, <2>2, <2>3 DEF HoldsScript
<1>2. ASSUME NEW s \in Seq(Seq(Bytes)), HoldsScript(m, s)
      PROVE  SizeOf(m) = 0 <=> s = <<>>
  <2>1. PICK at \in [1 .. Len(s) + 1 -> 0 .. MaxScript] : Layout(m, s, at)
    BY <1>2 DEF HoldsScript
  <2>2. CASE s = <<>>
    <3>1. Len(s) + 1 = 1
      BY <2>2
    <3>2. at[1] = 0 /\ at[Len(s) + 1] = SizeOf(m)
      BY <2>1 DEF Layout
    <3>3. SizeOf(m) = 0
      BY <3>1, <3>2
    <3>4. QED
      BY <2>2, <3>3
  <2>3. CASE s # <<>>
    <3>1. Len(s) \in Nat \ {0}
      BY <2>3, EmptySeq
    <3>2. 1 \in 1 .. Len(s) /\ 1 + 1 = 2
      BY <3>1
    <3>3. at[1] \in 0 .. SizeOf(m) /\ at[2] \in 0 .. SizeOf(m) /\ at[1] < at[2]
      BY <2>1, <3>2, LayoutIs
    <3>4. SizeOf(m) # 0
      BY <3>3
    <3>5. QED
      BY <2>3, <3>4
  <2>4. QED
    BY <2>2, <2>3
<1>3. QED
  BY <1>1, <1>2

(* A line is added behind the u characters of the others.                  *)
LineAdded(m, m1, u, line) ==
    /\ SizeOf(m) = u /\ SizeOf(m1) = u + Len(line) + 1 /\ SizeOf(m1) <= MaxScript
    /\ \A q \in 0 .. u - 1 : m1[EE_SCRIPT + q] = m[EE_SCRIPT + q]
    /\ m1[EE_SCRIPT + u + Len(line)] = Newline
    /\ \A n \in 1 .. Len(line) :
         m1[EE_SCRIPT + u + n - 1] = line[n] /\ line[n] # Newline

\* The words behind the script, the newline and the size make it one line longer.
LEMMA ScriptAppended ==
    ASSUME NEW m \in Memories, NEW m1 \in Memories, NEW s \in Seq(Seq(Bytes)),
           HoldsScript(m, s), NEW line \in Seq(Bytes), NEW u, LineAdded(m, m1, u, line)
    PROVE  HoldsScript(m1, Append(s, line))
<1> DEFINE N == Len(s)
<1>1. /\ u \in Nat /\ Len(line) \in Nat /\ N \in Nat /\ EE_SCRIPT \in Nat
      /\ u + Len(line) + 1 \in 0 .. MaxScript /\ MaxScript \in Nat
      /\ SizeOf(m) = u /\ SizeOf(m1) = u + Len(line) + 1
  BY SizeIs, LenProperties, Areas DEF LineAdded
<1>2. PICK at \in [1 .. N + 1 -> 0 .. MaxScript] : Layout(m, s, at)
  BY DEF HoldsScript
<1> DEFINE at1 == [k \in 1 .. N + 2 |-> IF k = N + 2 THEN u + Len(line) + 1 ELSE at[k]]
           s1  == Append(s, line)
<1>3. /\ Len(s1) = N + 1 /\ s1[N + 1] = line /\ \A k \in 1 .. N : s1[k] = s[k]
      /\ s1 \in Seq(Seq(Bytes))
  BY AppendProperties
<1>4. /\ at[N + 1] = u /\ at[1] = 0
      /\ \A k \in 1 .. N + 1 : at[k] \in 0 .. u
      /\ \A k \in 1 .. N : /\ k + 1 \in 1 .. N + 1 /\ at[k] < at[k + 1]
                           /\ Len(s[k]) = at[k + 1] - at[k] - 1
  BY <1>1, <1>2, LayoutIs
<1>5. /\ at1 \in [1 .. N + 2 -> 0 .. MaxScript]
      /\ at1[N + 2] = u + Len(line) + 1
      /\ \A k \in 1 .. N + 1 : at1[k] = at[k]
  BY <1>1, <1>2
<1> HIDE DEF N, at1, s1
<1>6. at1[1] = 0 /\ at1[N + 1] = u /\ at1[(N + 1) + 1] = SizeOf(m1)
  BY <1>1, <1>4, <1>5
<1>7. ASSUME NEW j \in 1 .. N + 2, NEW k \in 1 .. N + 2, j < k
      PROVE  at1[j] < at1[k]
  <2>1. j \in 1 .. N + 1
    BY <1>1, <1>7
  <2>2. CASE k = N + 2
    BY <1>1, <1>4, <1>5, <2>1, <2>2
  <2>3. CASE k \in 1 .. N + 1
    BY <1>2, <1>5, <1>7, <2>1, <2>3 DEF Layout, N
  <2>4. QED
    BY <1>1, <2>2, <2>3
<1>8. ASSUME NEW q \in 0 .. SizeOf(m1) - 1
      PROVE  \E k \in 1 .. N + 1 : at1[k] <= q /\ q < at1[k + 1]
  <2>1. CASE q < u
    <3>1. PICK k \in 1 .. N : at[k] <= q /\ q < at[k + 1]
      <4>1. q \in 0 .. SizeOf(m) - 1
        BY <1>1, <2>1
      <4>2. QED
        BY <1>2, <4>1 DEF Layout, N
    <3>2. k \in 1 .. N + 1 /\ k + 1 \in 1 .. N + 1
      BY <1>1
    <3>3. QED
      BY <1>5, <3>1, <3>2
  <2>2. CASE q >= u
    <3>1. at1[N + 1] <= q /\ q < at1[(N + 1) + 1] /\ N + 1 \in 1 .. N + 1
      BY <1>1, <1>6, <2>2
    <3>2. QED
      BY <3>1
  <2>3. QED
    BY <1>1, <2>1, <2>2
<1>9. ASSUME NEW k \in 1 .. N + 1
      PROVE  /\ Len(s1[k]) = at1[k + 1] - at1[k] - 1
             /\ m1[EE_SCRIPT + at1[k + 1] - 1] = Newline
             /\ \A n \in 1 .. Len(s1[k]) :
                  m1[EE_SCRIPT + at1[k] + n - 1] = s1[k][n] /\ s1[k][n] # Newline
  <2>1. CASE k = N + 1
    <3>1. at1[k] = u /\ at1[k + 1] = u + Len(line) + 1 /\ s1[k] = line
      BY <1>1, <1>3, <1>5, <1>6, <2>1
    <3>2. EE_SCRIPT + at1[k + 1] - 1 = EE_SCRIPT + u + Len(line)
      BY <1>1, <3>1
    <3>3. Len(line) = at1[k + 1] - at1[k] - 1
      BY <1>1, <3>1
    <3>4. QED
      BY <3>1, <3>2, <3>3 DEF LineAdded
  <2>2. CASE k \in 1 .. N
    <3>1. /\ at1[k] = at[k] /\ at1[k + 1] = at[k + 1] /\ s1[k] = s[k]
          /\ at[k] \in 0 .. u /\ at[k + 1] \in 0 .. u /\ at[k] < at[k + 1]
          /\ Len(s[k]) = at[k + 1] - at[k] - 1
      BY <1>1, <1>3, <1>4, <1>5, <2>2
    <3> DEFINE a == at[k]
               b == at[k + 1]
    <3>a. a \in Nat /\ b \in Nat /\ a < b /\ b <= u /\ Len(s[k]) = b - a - 1
          /\ u \in Nat /\ EE_SCRIPT \in Nat
      BY <1>1, <3>1
    <3> HIDE DEF a, b
    <3>2. m1[EE_SCRIPT + b - 1] = Newline
      <4>1. b - 1 \in 0 .. u - 1 /\ EE_SCRIPT + b - 1 = EE_SCRIPT + (b - 1)
        BY <3>a
      <4>2. m[EE_SCRIPT + b - 1] = Newline
        BY <1>2, <2>2 DEF Layout, N, b
      <4>3. QED
        BY <4>1, <4>2 DEF LineAdded
    <3>3. ASSUME NEW n \in 1 .. Len(s[k])
          PROVE  m1[EE_SCRIPT + a + n - 1] = s[k][n] /\ s[k][n] # Newline
      <4>1. a + n - 1 \in 0 .. u - 1 /\ EE_SCRIPT + a + n - 1 = EE_SCRIPT + (a + n - 1)
        BY <3>a
      <4>2. m[EE_SCRIPT + a + n - 1] = s[k][n] /\ s[k][n] # Newline
        BY <1>2, <2>2 DEF Layout, N, a
      <4>3. QED
        BY <4>1, <4>2 DEF LineAdded
    <3>4. QED
      BY <3>1, <3>2, <3>3 DEF a, b
  <2>3. QED
    BY <1>1, <2>1, <2>2
<1>10. Layout(m1, s1, at1) /\ at1 \in [1 .. Len(s1) + 1 -> 0 .. MaxScript]
  <2>1. Len(s1) + 1 = N + 2 /\ 1 .. Len(s1) = 1 .. N + 1 /\ Len(s1) = N + 1
    BY <1>1, <1>3
  <2>2. QED
    BY <1>5, <1>6, <1>7, <1>8, <1>9, <2>1 DEF Layout
<1>11. HoldsScript(m1, s1)
  BY <1>1, <1>10 DEF HoldsScript
<1>12. QED
  BY <1>11 DEF s1

(* An enumeration without repetition counts what it enumerates.            *)
LEMMA Enumerated ==
    ASSUME NEW f, NEW k \in Nat, \A i, j \in 1 .. k : i < j => f[i] # f[j]
    PROVE  Cardinality({f[i] : i \in 1 .. k}) = k
<1> DEFINE S == {f[i] : i \in 1 .. k}
           g == [i \in 1 .. k |-> f[i]]
<1>1. g \in [1 .. k -> S] /\ \A i, j \in 1 .. k : g[i] = g[j] => i = j
  <2>1. \A i, j \in 1 .. k : i = j \/ i < j \/ j < i
    OBVIOUS
  <2>2. QED
    BY <2>1
<1>2. \A t \in S : \E i \in 1 .. k : g[i] = t
  OBVIOUS
<1>3. g \in Bijection(1 .. k, S)
  BY <1>1, <1>2 DEF Bijection, Injection, Surjection, IsInjective
<1>4. ExistsBijection(1 .. k, S)
  BY <1>3 DEF ExistsBijection
<1>5. QED
  BY <1>4, FS_CountingElements

(* The lines that eeprom_init_readcmd finds are those of the script.       *)
LEMMA LinesAre ==
    ASSUME AreasApart, mem \in Memories, script \in Seq(Seq(Bytes)),
           NEW at, Layout(mem, script, at), SizeOf(mem) <= MaxScript
    PROVE  {l \in Lines : l.from < ScriptSize}
             = {[from |-> at[k], end |-> at[k + 1] - 1] : k \in 1 .. Len(script)}
<1> DEFINE size == SizeOf(mem)
           N    == Len(script)
<1>1. /\ size \in Nat /\ N \in Nat /\ BufSize \in Nat /\ EE_SCRIPT \in Nat
      /\ size <= BufSize + 1 /\ ScriptSize = size
  BY SizeIs, LenProperties, Areas DEF AreasApart, ScriptSize, SizeOf
<1>2. ASSUME NEW k \in 1 .. N
      PROVE  /\ at[k] \in 0 .. size /\ at[k + 1] \in 0 .. size /\ at[k] < at[k + 1]
             /\ Char(at[k + 1] - 1) = Newline
             /\ \A q \in at[k] .. at[k + 1] - 2 : Char(q) # Newline
  <2> DEFINE a == at[k]
             b == at[k + 1]
  <2>1. a \in 0 .. size /\ b \in 0 .. size /\ a < b /\ Len(script[k]) = b - a - 1
    BY <1>1, LayoutIs
  <2>2. /\ mem[EE_SCRIPT + b - 1] = Newline
        /\ \A n \in 1 .. Len(script[k]) :
             mem[EE_SCRIPT + a + n - 1] = script[k][n] /\ script[k][n] # Newline
    BY DEF Layout
  <2> HIDE DEF a, b
  <2>3. EE_SCRIPT + b - 1 = EE_SCRIPT + (b - 1)
    BY <1>1, <2>1
  <2>4. ASSUME NEW q \in a .. b - 2
        PROVE  mem[EE_SCRIPT + q] # Newline
    <3> DEFINE n == q - a + 1
    <3>1. n \in 1 .. b - a - 1 /\ EE_SCRIPT + a + n - 1 = EE_SCRIPT + q
      BY <1>1, <2>1
    <3> HIDE DEF n
    <3>2. QED
      BY <2>1, <2>2, <3>1
  <2>5. QED
    BY <2>1, <2>2, <2>3, <2>4 DEF Char, a, b
<1>3. at[1] = 0
  BY DEF Layout
<1>4. \A q \in 0 .. size - 1 : \E k \in 1 .. N : at[k] <= q /\ q < at[k + 1]
  BY DEF Layout
<1> HIDE DEF size, N
<1>5. ASSUME NEW k \in 1 .. N
      PROVE  /\ [from |-> at[k], end |-> at[k + 1] - 1] \in Lines
             /\ at[k] < ScriptSize
  <2> DEFINE a == at[k]
             e == at[k + 1] - 1
  <2>1. /\ a \in 0 .. BufSize /\ e \in 0 .. BufSize /\ a <= e /\ a < size
        /\ Char(e) = Newline /\ \A q \in a .. e - 1 : Char(q) # Newline
    <3>1. at[k] \in 0 .. size /\ at[k + 1] \in 0 .. size /\ at[k] < at[k + 1]
      BY <1>2
    <3>2. e - 1 = at[k + 1] - 2
      BY <3>1
    <3>3. QED
      BY <1>1, <1>2, <3>1, <3>2
  <2>2. a = 0 \/ Char(a - 1) = Newline
    <3>1. CASE k = 1
      BY <1>3, <3>1
    <3>2. CASE k # 1
      <4>1. k - 1 \in 1 .. N /\ (k - 1) + 1 = k
        BY <1>1, <3>2
      <4>2. Char(at[(k - 1) + 1] - 1) = Newline
        BY <1>2, <4>1
      <4>3. QED
        BY <4>1, <4>2
    <3>3. QED
      BY <3>1, <3>2
  <2> HIDE DEF a, e
  <2>3. [from |-> a, end |-> e] \in Lines
    BY <2>1, <2>2 DEF Lines
  <2>4. QED
    BY <1>1, <2>1, <2>3 DEF a, e
<1>6. ASSUME NEW l \in Lines, l.from < ScriptSize
      PROVE  \E k \in 1 .. N : l = [from |-> at[k], end |-> at[k + 1] - 1]
  <2>1. /\ l \in [from : 0 .. BufSize, end : 0 .. BufSize]
        /\ l.from <= l.end /\ Char(l.end) = Newline
        /\ l.from = 0 \/ Char(l.from - 1) = Newline
        /\ \A q \in l.from .. l.end - 1 : Char(q) # Newline
    BY DEF Lines
  <2> DEFINE f == l.from
             e == l.end
  <2>2. f \in Nat /\ e \in Nat /\ f <= e /\ l = [from |-> f, end |-> e] /\ f \in 0 .. size - 1
    BY <1>1, <1>6, <2>1
  <2>3. /\ Char(e) = Newline
        /\ f = 0 \/ Char(f - 1) = Newline
        /\ \A q \in f .. e - 1 : Char(q) # Newline
    BY <2>1
  <2> HIDE DEF f, e
  <2>4. PICK k \in 1 .. N : at[k] <= f /\ f < at[k + 1]
    BY <1>4, <2>2
  <2> DEFINE a == at[k]
             b == at[k + 1]
  <2>5. /\ a \in 0 .. size /\ b \in 0 .. size /\ a <= f /\ f < b
        /\ Char(b - 1) = Newline /\ \A q \in a .. b - 2 : Char(q) # Newline
    BY <1>2, <2>4
  <2> HIDE DEF a, b
  <2>6. f = a
    <3>1. CASE f > a
      <4>1. f - 1 \in a .. b - 2 /\ f # 0
        BY <1>1, <2>2, <2>5, <3>1
      <4>2. QED
        BY <2>3, <2>5, <4>1
    <3>2. QED
      BY <1>1, <2>2, <2>5, <3>1
  <2>7. e = b - 1
    <3>1. CASE e < b - 1
      <4>1. e \in a .. b - 2
        BY <1>1, <2>2, <2>5, <2>6, <3>1
      <4>2. QED
        BY <2>3, <2>5, <4>1
    <3>2. CASE e > b - 1
      <4>1. b - 1 \in f .. e - 1
        BY <1>1, <2>2, <2>5, <3>2
      <4>2. QED
        BY <2>3, <2>5, <4>1
    <3>3. QED
      BY <1>1, <2>2, <2>5, <3>1, <3>2
  <2>8. QED
    BY <2>2, <2>6, <2>7 DEF a, b
<1>7. QED
  BY <1>5, <1>6 DEF N

(* The next boot executes the script in the memory.                        *)
LEMMA BootRuns ==
    ASSUME AreasApart, mem \in Memories, script \in Seq(Seq(Bytes)), HoldsScript(mem, script)
    PROVE  BootScript = script
<1>1. PICK at \in [1 .. Len(script) + 1 -> 0 .. MaxScript] : Layout(mem, script, at)
  BY DEF HoldsScript
<1> DEFINE N     == Len(script)
           ln    == [k \in 1 .. N |-> [from |-> at[k], end |-> at[k + 1] - 1]]
           lines == {l \in Lines : l.from < ScriptSize}
           Rank(l) == Cardinality({m \in lines : m.from < l.from})
           Nth(k) == CHOOSE l \in lines : Rank(l) = k - 1
<1>2. /\ N \in Nat /\ EE_SCRIPT \in Nat
      /\ \A k \in 1 .. N : /\ at[k] \in Nat /\ at[k + 1] \in Nat /\ at[k] < at[k + 1]
                           /\ Len(script[k]) = at[k + 1] - at[k] - 1
                           /\ script[k] \in Seq(Bytes)
  <2>1. SizeOf(mem) \in Nat
    BY SizeIs
  <2>2. QED
    BY <1>1, <2>1, LayoutIs, Areas
<1>3. lines = {ln[k] : k \in 1 .. N}
  <2>1. lines = {[from |-> at[k], end |-> at[k + 1] - 1] : k \in 1 .. N}
    BY <1>1, LinesAre DEF HoldsScript
  <2>2. QED
    BY <2>1
<1>4. \A j, k \in 1 .. N : j < k => ln[j].from < ln[k].from
  <2> TAKE j, k \in 1 .. N
  <2>1. j \in 1 .. N + 1 /\ k \in 1 .. N + 1
    BY <1>2
  <2>2. j < k => at[j] < at[k]
    BY <1>1, <2>1 DEF Layout
  <2>3. QED
    BY <2>2
<1>5. \A k \in 1 .. N : ln[k].from \in Nat /\ ln[k].from = at[k] /\ ln[k].end = at[k + 1] - 1
  BY <1>2
<1> HIDE DEF ln, lines
<1>5a. \A i, j \in 1 .. N : i < j => ln[i] # ln[j]
  <2> SUFFICES ASSUME NEW i \in 1 .. N, NEW j \in 1 .. N, i < j
               PROVE  ln[i].from # ln[j].from
    OBVIOUS
  <2> DEFINE x == ln[i].from
             y == ln[j].from
  <2>1. x < y /\ x \in Nat /\ y \in Nat
    BY <1>4, <1>5
  <2> HIDE DEF x, y
  <2>2. x # y
    BY <2>1
  <2>3. QED
    BY <2>2 DEF x, y
<1>6. Cardinality(lines) = N
  BY <1>2, <1>3, <1>5a, Enumerated
<1>7. ASSUME NEW k \in 1 .. N
      PROVE  Rank(ln[k]) = k - 1
  <2>1. {m \in lines : m.from < ln[k].from} = {ln[i] : i \in 1 .. k - 1}
    <3>1. ASSUME NEW i \in 1 .. N
          PROVE  ln[i].from < ln[k].from <=> i \in 1 .. k - 1
      <4> DEFINE x == ln[i].from
                 y == ln[k].from
      <4>1. /\ x \in Nat /\ y \in Nat
            /\ i < k => x < y
            /\ k < i => y < x
            /\ i = k => x = y
        BY <1>4, <1>5
      <4> HIDE DEF x, y
      <4>2. x < y <=> i \in 1 .. k - 1
        BY <4>1
      <4>3. QED
        BY <4>2 DEF x, y
    <3>2. 1 .. k - 1 \subseteq 1 .. N
      BY <1>2
    <3>3. QED
      BY <1>3, <3>1, <3>2
  <2>2. k - 1 \in Nat /\ \A i, j \in 1 .. k - 1 : i < j => ln[i] # ln[j]
    <3>1. 1 .. k - 1 \subseteq 1 .. N
      BY <1>2
    <3>2. QED
      BY <1>2, <1>5a, <3>1
  <2>3. Cardinality({ln[i] : i \in 1 .. k - 1}) = k - 1
    BY <2>2, Enumerated
  <2>4. QED
    BY <2>1, <2>3
<1> HIDE DEF Rank
<1>8. ASSUME NEW k \in 1 .. N
      PROVE  Nth(k) = ln[k]
  <2>1. ln[k] \in lines /\ Rank(ln[k]) = k - 1
    BY <1>3, <1>7
  <2>2. \A l \in lines : Rank(l) = k - 1 => l = ln[k]
    <3> TAKE l \in lines
    <3>1. PICK j \in 1 .. N : l = ln[j]
      BY <1>3
    <3>2. Rank(l) = j - 1
      BY <1>7, <3>1
    <3>3. Rank(l) = k - 1 => j = k
      BY <1>2, <3>2
    <3>4. QED
      BY <3>1, <3>3
  <2>3. QED
    BY <2>1, <2>2
<1>9. BootScript = [k \in 1 .. N |->
                      [n \in 1 .. Nth(k).end - Nth(k).from |-> Char(Nth(k).from + n - 1)]]
  BY <1>6 DEF BootScript, lines, Rank
<1> HIDE DEF Nth
<1>10. ASSUME NEW k \in 1 .. N
       PROVE  [n \in 1 .. Nth(k).end - Nth(k).from |-> Char(Nth(k).from + n - 1)] = script[k]
  <2> DEFINE a == at[k]
             b == at[k + 1]
             line == script[k]
  <2>1. Nth(k).from = a /\ Nth(k).end = b - 1
    BY <1>5, <1>8
  <2>2. a \in Nat /\ b \in Nat /\ Len(line) = b - a - 1 /\ line \in Seq(Bytes)
    BY <1>2
  <2>3. \A n \in 1 .. Len(line) : mem[EE_SCRIPT + a + n - 1] = line[n]
    BY <1>1 DEF Layout
  <2> HIDE DEF a, b, line
  <2>4. (b - 1) - a = Len(line)
    BY <2>2
  <2>5. \A n \in 1 .. Len(line) : Char(a + n - 1) = line[n]
    <3> TAKE n \in 1 .. Len(line)
    <3>1. EE_SCRIPT + (a + n - 1) = EE_SCRIPT + a + n - 1
      BY <1>2, <2>2
    <3>2. QED
      BY <2>3, <3>1 DEF Char
  <2>6. line = [n \in 1 .. Len(line) |-> line[n]]
    BY <2>2
  <2>7. [n \in 1 .. Len(line) |-> Char(a + n - 1)] = line
    BY <2>5, <2>6
  <2>8. QED
    BY <2>1, <2>4, <2>7 DEF line
<1>11. script = [k \in 1 .. N |-> script[k]]
  OBVIOUS
<1>12. QED
  BY <1>9, <1>10, <1>11
-----------------------------------------------------------------------------
(* The commands begin.                                                     *)

\* The values that a command starts with have their types.
LEMMA IdleIs == /\ Idle \in Matches /\ Idle.i = Int8(Idle.i) /\ Idle.pc = "idle"
                /\ NoRecord \in Records /\ NoGoal \in Goals
<1>1. 0 \in Bytes /\ 0 \in 0 .. SfpsMax
  BY Areas DEF Bytes
<1>2. Int8(0) = 0
  BY <1>1, Int8Is
<1>3. QED
  BY <1>1, <1>2 DEF Idle, Matches, NoRecord, Records, NoGoal, Goals

\* A command that has only begun has changed nothing.
LEMMA CommandStep ==
    ASSUME StorageInv, NEW ws \in Seq(Writes), NEW d \in Seq(Records),
           NEW s \in Seq(Seq(Bytes)), Command(ws, d, s), Executing'
    PROVE  StorageInv'
<1>1. /\ todo' = ws /\ goal' = [db |-> d, script |-> s]
      /\ match' = Idle /\ dbsfp' = NoRecord
      /\ UNCHANGED <<mem, db, dbok, script, initok, faults>>
  BY DEF Command
<1>2. Typed'
  BY <1>1, IdleIs DEF StorageInv, Typed, Goals
<1>3. CountOk' /\ DbHeld' /\ ScriptHeld'
  BY <1>1 DEF StorageInv, CountOk, DbHeld, ScriptHeld, ScriptSize
<1>4. Matching'
  BY <1>1, IdleIs DEF Matching
<1>5. QED
  BY <1>2, <1>3, <1>4 DEF StorageInv

\* "sfp erase" begins.
LEMMA SfpEraseStep == ASSUME StorageInv, SfpErase PROVE StorageInv'
<1> DEFINE ws == Write(EE_BASE_SFP, <<0>>, "count")
<1>1. ws \in Seq(Writes)
  BY EraseIs
<1>2. Command(ws, <<>>, script)
  BY DEF SfpErase
<1> HIDE DEF ws
<1>3. ErasingDb'
  BY <1>2 DEF ErasingDb, Command, ws
<1>4. Executing'
  BY <1>3 DEF Executing
<1>5. <<>> \in Seq(Records) /\ script \in Seq(Seq(Bytes))
  BY DEF StorageInv, Typed
<1>6. QED
  BY <1>1, <1>2, <1>4, <1>5, CommandStep

\* "init erase" begins.
LEMMA InitEraseStep == ASSUME StorageInv, InitErase PROVE StorageInv'
<1> DEFINE ws == Write(EE_BASE_INIT, Used(0), "used")
<1>1. ws \in Seq(Writes) /\ ws # <<>> /\ Rest(ws, 0) = ws
  BY EraseIs, RestEnds
<1>2. Command(ws, db, <<>>)
  BY DEF InitErase
<1>3. ErasingScript(0)'
  BY <1>1, <1>2 DEF ErasingScript, Command
<1>4. Executing'
  BY <1>3 DEF Executing
<1>5. db \in Seq(Records) /\ <<>> \in Seq(Seq(Bytes))
  BY DEF StorageInv, Typed
<1>6. QED
  BY <1>1, <1>2, <1>4, <1>5, CommandStep

\* "sfp add" begins: the record goes behind the last one, or past the script.
LEMMA SfpAddStep ==
    ASSUME AreasApart, StorageInv, NEW pn \in Pns, NEW par \in Params, SfpAdd(pn, par)
    PROVE  StorageInv'
<1>0. PICK c \in Bytes : c = mem[EE_BASE_SFP]
  BY Areas, InAddresses DEF StorageInv, Typed, Memories
<1> DEFINE sfp == [pn |-> pn, dTx |-> par, dRx |-> par, chksum |-> 0]
           r   == [sfp EXCEPT !.chksum = Checksum(sfp)]
           ws  == SfpWrites(c, r)
           d   == Append(db, r)
<1>1. r \in Records /\ r.chksum = Checksum(r)
  <2>1. pn \in Bytes /\ par \in Bytes /\ pn \in Int /\ par \in Int
    BY StorageAssumption DEF StorageAssumption, Bytes
  <2>2. Checksum(sfp) \in Bytes
    BY <2>1, Uint8Is DEF Checksum
  <2>3. Checksum(r) = Checksum(sfp)
    BY DEF Checksum
  <2>4. QED
    BY <2>1, <2>2, <2>3 DEF Records
<1>2. /\ c # SfpsMax /\ (c < SfpsMax => c < MaxSfps)
      /\ Command(ws, d, script)
  BY <1>0 DEF SfpAdd
<1>3. c \in 0 .. MaxSfps - 1 \/ c = ByteMax
  BY <1>0, <1>2, Areas DEF StorageInv, CountOk, AreasApart
<1> HIDE DEF r
<1>4. ws \in Seq(Writes) /\ Len(ws) = 5
  BY <1>1, SfpWritesAre
<1>5. Rest(ws, 0) = ws
  BY <1>4, RestEnds, EmptySeq
<1>6. dbok => c = Len(db)
  BY <1>0 DEF StorageInv, DbHeld, HoldsDb
<1>7. db \in Seq(Records) /\ script \in Seq(Seq(Bytes)) /\ d \in Seq(Records) /\ d # <<>>
  <2>1. db \in Seq(Records) /\ script \in Seq(Seq(Bytes))
    BY DEF StorageInv, Typed
  <2>2. Append(db, r) \in Seq(Records) /\ Len(Append(db, r)) = Len(db) + 1 /\ Len(db) \in Nat
    BY <1>1, <2>1, AppendProperties, LenProperties
  <2>3. Len(db) + 1 # 0
    BY <2>2
  <2>4. QED
    BY <2>1, <2>2, <2>3, EmptySeq
<1>8. AddingSfp(c, r, 0)'
  <2>1. todo' = ws /\ goal'.db = d /\ UNCHANGED <<mem, db, dbok>>
    BY <1>2 DEF Command
  <2>2. Written(mem', ws, 0)
    BY DEF Written
  <2>3. QED
    BY <1>1, <1>3, <1>5, <1>6, <1>7, <2>1, <2>2 DEF AddingSfp
<1>9. Executing'
  BY <1>1, <1>8 DEF Executing
<1>10. QED
  BY <1>2, <1>4, <1>7, <1>9, CommandStep

\* "init add" begins: the words go behind the script, or into a blank area.
LEMMA InitAddStep ==
    ASSUME StorageInv, NEW cmd \in Commands, InitAdd(cmd)
    PROVE  StorageInv'
<1> DEFINE L    == Len(cmd)
           size == SizeOf(mem)
           used == IF size = BlankSize THEN 0 ELSE size
<1>0. /\ mem \in Memories /\ db \in Seq(Records) /\ script \in Seq(Seq(Bytes))
      /\ ScriptSize = size
  BY DEF StorageInv, Typed, ScriptSize, SizeOf
<1>1. /\ IF initok THEN used + 2 * L <= MaxScript ELSE used <= ByteMax
      /\ Command(InitWrites(used, cmd), db, Append(script, Line(cmd)))
  BY <1>0 DEF InitAdd
<1>2. /\ L \in Nat /\ size \in Nat
      /\ initok => size <= MaxScript
      /\ ~initok => size # 0
  BY <1>0, SizeIs, WordsAre DEF StorageInv, ScriptHeld, HoldsScript
<1>3. /\ used \in Bytes
      /\ initok => size = used
      /\ ~initok => mem[EE_BASE_INIT + 1] # 0
  <2>1. /\ size <= ByteMax => size = mem[EE_BASE_INIT + 1]
        /\ size = BlankSize => mem[EE_BASE_INIT + 1] = ByteMax
    BY <1>0, SizeIs
  <2>2. CASE initok
    <3>1. size <= ByteMax /\ size # ByteMax
      BY <1>2, <2>2, Areas
    <3>2. size # BlankSize
      BY <2>1, <3>1
    <3>3. QED
      BY <1>2, <2>2, <3>1, <3>2 DEF Bytes
  <2>3. CASE ~initok
    BY <1>1, <1>2, <2>1, <2>3, Areas DEF Bytes
  <2>4. QED
    BY <2>2, <2>3
<1> HIDE DEF size, used
<1>4. PICK u \in Bytes : u = used
  BY <1>3
<1> DEFINE ws == InitWrites(u, cmd)
           s  == Append(script, Line(cmd))
<1>5. /\ ws \in Seq(Writes) /\ Len(ws) = 2 * L + 3 /\ Len(ws) \in Nat /\ Len(ws) # 0
      /\ ws # <<>> /\ Rest(ws, 0) = ws
  <2>1. u \in Nat
    BY DEF Bytes
  <2>2. ws \in Seq(Writes) /\ Len(ws) = 2 * L + 3
    BY <2>1, InitWritesAre
  <2>3. Len(ws) \in Nat /\ Len(ws) # 0
    BY <1>2, <2>2
  <2>4. ws # <<>>
    BY <2>3, EmptySeq
  <2>5. QED
    BY <2>2, <2>3, <2>4, RestEnds
<1>6. Command(ws, db, s)
  BY <1>1, <1>4
<1>7. s \in Seq(Seq(Bytes))
  BY <1>0, WordsAre, AppendProperties
<1>8. AddingCommand(u, cmd, 0)'
  <2>1. todo' = ws /\ goal'.script = s /\ UNCHANGED <<mem, script, initok>>
    BY <1>6 DEF Command
  <2>2. Written(mem', ws, 0)
    BY DEF Written
  <2>3. initok => size = u /\ u + 2 * L <= MaxScript
    BY <1>1, <1>3, <1>4
  <2>4. ScriptSize' = size
    BY <1>0, <2>1 DEF ScriptSize
  <2>5. ~initok => mem[EE_BASE_INIT + 1] # 0
    BY <1>3
  <2>6. QED
    BY <1>5, <2>1, <2>2, <2>3, <2>4, <2>5 DEF AddingCommand
<1>9. Executing'
  <2>1. 0 \in 0 .. Len(ws) - 1
    BY <1>5
  <2>2. QED
    BY <1>8, <2>1 DEF Executing
<1>10. QED
  BY <1>0, <1>5, <1>6, <1>7, <1>9, CommandStep
-----------------------------------------------------------------------------
(* A byte is written.                                                      *)

\* A write elsewhere leaves the database alone, and the script.
LEMMA DbSame ==
    ASSUME AreasApart, StorageInv, dbok' = dbok, db' = db,
           \A a \in 1 .. 4 * MaxSfps + 1 : mem'[a] = mem[a]
    PROVE  CountOk' /\ DbHeld'
<1>1. CountOk'
  BY Areas DEF StorageInv, CountOk
<1>2. CASE dbok
  <2>1. db \in Seq(Records) /\ HoldsDb(mem, db) /\ Len(db) \in Nat /\ Len(db) <= MaxSfps
    BY <1>2, LenProperties DEF StorageInv, Typed, DbHeld, HoldsDb
  <2>2. 1 .. 4 * Len(db) + 1 \subseteq 1 .. 4 * MaxSfps + 1
    BY <2>1, Areas
  <2>3. HoldsDb(mem', db)
    BY <2>1, <2>2, DbKept
  <2>4. QED
    BY <1>1, <1>2, <2>3 DEF DbHeld
<1>3. CASE ~dbok
  BY <1>1, <1>3 DEF StorageInv, DbHeld
<1>4. QED
  BY <1>2, <1>3

\* ... and the script, when its size and its characters are not written.
LEMMA ScriptSame ==
    ASSUME StorageInv, initok' = initok, script' = script,
           \A a \in EE_BASE_INIT .. EE_SCRIPT - 1 : mem'[a] = mem[a],
           initok => \A q \in 0 .. SizeOf(mem) - 1 : mem'[EE_SCRIPT + q] = mem[EE_SCRIPT + q]
    PROVE  ScriptHeld' /\ ScriptSize' = ScriptSize /\ SizeOf(mem') = SizeOf(mem)
<1>1. /\ mem \in Memories /\ script \in Seq(Seq(Bytes))
      /\ ScriptSize = SizeOf(mem) /\ ScriptSize' = SizeOf(mem')
  BY DEF StorageInv, Typed, ScriptSize, SizeOf
<1>2. mem'[EE_BASE_INIT] = mem[EE_BASE_INIT] /\ mem'[EE_BASE_INIT + 1] = mem[EE_BASE_INIT + 1]
  BY Areas
<1>3. SizeOf(mem') = SizeOf(mem)
  BY <1>2 DEF SizeOf
<1>4. CASE initok
  <2>1. HoldsScript(mem, script)
    BY <1>4 DEF StorageInv, ScriptHeld
  <2>2. HoldsScript(mem', script)
    BY <1>1, <1>3, <1>4, <2>1, ScriptKept
  <2>3. QED
    BY <1>1, <1>3, <1>4, <2>2 DEF ScriptHeld
<1>5. CASE ~initok
  BY <1>1, <1>3, <1>5 DEF StorageInv, ScriptHeld
<1>6. QED
  BY <1>4, <1>5

\* What one byte written changes, whatever it is.
LEMMA WriteByteIs ==
    ASSUME StorageInv, WriteByte, NEW w, w = Head(todo)
    PROVE  /\ w \in Writes /\ mem' = Put(mem, w) /\ mem \in Memories /\ mem' \in Memories
           /\ \A a \in Addresses : mem'[a] = IF a = w.to THEN w.byte ELSE mem[a]
           /\ todo' = Tail(todo) /\ goal' = IF todo' = <<>> THEN NoGoal ELSE goal
           /\ dbok' = (dbok \/ (w.of = "count" /\ goal.db = <<>>))
           /\ initok' = (initok \/ (w.of = "used" /\ ScriptSize' = 0))
           /\ db' = IF w.of = "count" /\ dbok THEN goal.db ELSE db
           /\ script' = IF w.of = "used" /\ initok /\ mem'[w.to] # mem[w.to]
                        THEN goal.script ELSE script
           /\ Typed' /\ Matching'
<1>1. /\ todo # <<>> /\ mem' = Put(mem, w)
      /\ todo' = Tail(todo) /\ goal' = IF todo' = <<>> THEN NoGoal ELSE goal
      /\ dbok' = (dbok \/ (w.of = "count" /\ goal.db = <<>>))
      /\ initok' = (initok \/ (w.of = "used" /\ ScriptSize' = 0))
      /\ db' = IF w.of = "count" /\ dbok THEN goal.db ELSE db
      /\ script' = IF w.of = "used" /\ initok /\ mem'[w.to] # mem[w.to]
                   THEN goal.script ELSE script
      /\ UNCHANGED <<match, dbsfp, faults>>
  BY DEF WriteByte, Done, Put
<1>2. mem \in Memories /\ todo \in Seq(Writes) /\ goal \in Goals
      /\ db \in Seq(Records) /\ script \in Seq(Seq(Bytes))
  BY DEF StorageInv, Typed
<1>3. w \in Writes /\ Tail(todo) \in Seq(Writes)
  BY <1>1, <1>2, HeadTailProperties
<1>4. /\ mem' \in Memories
      /\ \A a \in Addresses : mem'[a] = IF a = w.to THEN w.byte ELSE mem[a]
  BY <1>1, <1>2, <1>3, PutIs
<1>5. goal.db \in Seq(Records) /\ goal.script \in Seq(Seq(Bytes)) /\ NoGoal \in Goals
  BY <1>2, IdleIs DEF Goals
<1>6. Typed'
  <2>1. todo' \in Seq(Writes) /\ goal' \in Goals
    BY <1>1, <1>2, <1>3, <1>5
  <2>2. db' \in Seq(Records) /\ script' \in Seq(Seq(Bytes))
    BY <1>1, <1>2, <1>5
  <2>3. dbok' \in BOOLEAN /\ initok' \in BOOLEAN
    BY <1>1 DEF StorageInv, Typed
  <2>4. /\ match' \in Matches /\ match'.i = Int8(match'.i) /\ dbsfp' \in Records
        /\ faults' \in 0 .. MaxFaults
    BY <1>1 DEF StorageInv, Typed
  <2>5. QED
    BY <1>4, <2>1, <2>2, <2>3, <2>4 DEF Typed
<1>7. Matching'
  <2>1. match.pc # "loop"
    BY <1>1 DEF StorageInv, Matching
  <2>2. QED
    BY <1>1, <2>1 DEF Matching
<1>8. QED
  BY <1>1, <1>2, <1>3, <1>4, <1>6, <1>7

\* The count of "sfp erase": from here on the database is known.
LEMMA EraseDbByte ==
    ASSUME AreasApart, StorageInv, WriteByte, ErasingDb
    PROVE  StorageInv'
<1> DEFINE ws == Write(EE_BASE_SFP, <<0>>, "count")
<1>1. /\ ws \in Seq(Writes) /\ Len(ws) = 1 /\ ws # <<>>
      /\ ws[1] = [to |-> EE_BASE_SFP, byte |-> 0, of |-> "count"]
  BY EraseIs
<1>2. todo = ws /\ goal.db = <<>>
  BY DEF ErasingDb
<1> HIDE DEF ws
<1>3. PICK w : w = Head(todo)
  OBVIOUS
<1>4. w = [to |-> EE_BASE_SFP, byte |-> 0, of |-> "count"] /\ Tail(todo) = <<>>
  <2>1. Rest(ws, 0) = ws /\ Rest(ws, 1) = <<>>
    BY <1>1, RestEnds
  <2>2. Head(Rest(ws, 0)) = ws[0 + 1] /\ Tail(Rest(ws, 0)) = Rest(ws, 0 + 1)
    BY <1>1, RestIs
  <2>3. QED
    BY <1>1, <1>2, <1>3, <2>1, <2>2
<1>5. /\ mem' \in Memories /\ Typed' /\ Matching'
      /\ \A a \in Addresses : mem'[a] = IF a = 1 THEN 0 ELSE mem[a]
      /\ todo' = <<>> /\ dbok' = TRUE /\ initok' = initok /\ script' = script
      /\ db' = IF dbok THEN <<>> ELSE db
  <2>1. w.to = 1 /\ w.byte = 0 /\ w.of = "count" /\ w.of # "used"
    BY <1>4, Areas
  <2>2. /\ mem' \in Memories /\ Typed' /\ Matching'
        /\ \A a \in Addresses : mem'[a] = IF a = w.to THEN w.byte ELSE mem[a]
        /\ todo' = Tail(todo)
        /\ dbok' = (dbok \/ (w.of = "count" /\ goal.db = <<>>))
        /\ initok' = (initok \/ (w.of = "used" /\ ScriptSize' = 0))
        /\ db' = IF w.of = "count" /\ dbok THEN goal.db ELSE db
        /\ script' = IF w.of = "used" /\ initok /\ mem'[w.to] # mem[w.to]
                     THEN goal.script ELSE script
    BY <1>3, WriteByteIs
  <2>3. dbok \in BOOLEAN /\ initok \in BOOLEAN
    BY DEF StorageInv, Typed
  <2>4. QED
    BY <1>2, <1>4, <2>1, <2>2, <2>3
<1>6. db' = <<>>
  BY <1>5 DEF StorageInv, DbHeld
<1>7. mem'[EE_BASE_SFP] = 0 /\ EE_BASE_SFP = 1
  BY <1>5, Areas, InAddresses
<1>8. CountOk' /\ DbHeld'
  <2>1. Len(<<>>) = 0 /\ 0 \in 0 .. MaxSfps
    BY Areas
  <2>2. HoldsDb(mem', <<>>)
    BY <1>7, <2>1 DEF HoldsDb
  <2>3. QED
    BY <1>5, <1>6, <1>7, <2>1, <2>2 DEF CountOk, DbHeld
<1>9. ScriptHeld'
  <2>1. \A a \in EE_BASE_INIT .. EE_SCRIPT + MaxScript : mem'[a] = mem[a]
    BY <1>5, Areas, InAddresses
  <2>2. initok => SizeOf(mem) <= MaxScript
    BY DEF StorageInv, ScriptHeld, HoldsScript
  <2>3. QED
    BY <1>5, <2>1, <2>2, Areas, SizeIs, ScriptSame DEF StorageInv, Typed
<1>10. QED
  BY <1>5, <1>8, <1>9 DEF StorageInv, Executing

\* The write that is done, and whether one is left.
LEMMA RestWrite ==
    ASSUME NEW ws \in Seq(Writes), NEW n \in 0 .. Len(ws) - 1, todo = Rest(ws, n)
    PROVE  /\ Head(todo) = ws[n + 1] /\ ws[n + 1] \in Writes
           /\ Tail(todo) = Rest(ws, n + 1)
           /\ n + 1 = Len(ws) => Tail(todo) = <<>>
           /\ n + 1 < Len(ws) => Tail(todo) # <<>>
<1>1. Len(ws) \in Nat /\ n \in Nat /\ Len(ws) # 0
  BY LenProperties
<1>2. ws # <<>>
  BY <1>1, EmptySeq
<1>3. /\ Head(todo) = ws[n + 1] /\ ws[n + 1] \in Writes
      /\ Tail(todo) = Rest(ws, n + 1)
  BY RestIs
<1>4. n + 1 = Len(ws) => Tail(todo) = <<>>
  BY <1>2, <1>3, RestEnds
<1>5. n + 1 < Len(ws) => Tail(todo) # <<>>
  <2> SUFFICES ASSUME n + 1 < Len(ws)
               PROVE  Tail(todo) # <<>>
    OBVIOUS
  <2>1. n + 1 \in 0 .. Len(ws) - 1
    BY <1>1
  <2>2. Rest(ws, n + 1) # <<>>
    BY ONLY <2>1, ws \in Seq(Writes), RestIs
  <2>3. QED
    BY <1>3, <2>2
<1>6. QED
  BY <1>3, <1>4, <1>5

\* What a write that is not the last of its command leaves alone.
LEMMA DataByte ==
    ASSUME StorageInv, WriteByte, NEW w, w = Head(todo), Tail(todo) # <<>>,
           w.of \in {"record", "text"}
    PROVE  /\ w \in Writes /\ mem' = Put(mem, w) /\ mem \in Memories
           /\ \A a \in Addresses : a # w.to => mem'[a] = mem[a]
           /\ todo' = Tail(todo) /\ goal' = goal
           /\ dbok' = dbok /\ initok' = initok /\ db' = db /\ script' = script
           /\ Typed' /\ Matching'
<1>1. w.of # "count" /\ w.of # "used"
  OBVIOUS
<1>2. dbok \in BOOLEAN /\ initok \in BOOLEAN
  BY DEF StorageInv, Typed
<1>3. /\ w \in Writes /\ mem' = Put(mem, w) /\ mem \in Memories
      /\ \A a \in Addresses : mem'[a] = IF a = w.to THEN w.byte ELSE mem[a]
      /\ todo' = Tail(todo) /\ goal' = IF todo' = <<>> THEN NoGoal ELSE goal
      /\ dbok' = (dbok \/ (w.of = "count" /\ goal.db = <<>>))
      /\ initok' = (initok \/ (w.of = "used" /\ ScriptSize' = 0))
      /\ db' = IF w.of = "count" /\ dbok THEN goal.db ELSE db
      /\ script' = IF w.of = "used" /\ initok /\ mem'[w.to] # mem[w.to]
                   THEN goal.script ELSE script
      /\ Typed' /\ Matching'
  BY WriteByteIs
<1>4. QED
  BY <1>1, <1>2, <1>3

\* A byte of a record: the count still hides it.
LEMMA RecordByte ==
    ASSUME AreasApart, StorageInv, WriteByte, NEW c \in Bytes, NEW r \in Records,
           NEW n \in 0 .. 3, AddingSfp(c, r, n)
    PROVE  StorageInv'
<1> DEFINE ws == SfpWrites(c, r)
<1>0. /\ ws \in Seq(Writes) /\ Len(ws) = 5
      /\ \A k \in 1 .. 4 :
           ws[k] = [to |-> RecordAt(c) + k - 1, byte |-> Encode(r)[k], of |-> "record"]
      /\ ws[5] = [to |-> EE_BASE_SFP, byte |-> Uint8(c + 1), of |-> "count"]
  BY SfpWritesAre
<1>2. /\ todo = Rest(ws, n) /\ goal.db # <<>>
      /\ c \in 0 .. MaxSfps - 1 \/ c = ByteMax
      /\ r.chksum = Checksum(r)
      /\ dbok => c = Len(db) /\ goal.db = Append(db, r) /\ Written(mem, ws, n)
  BY DEF AddingSfp
<1> HIDE DEF ws
<1>1. /\ ws \in Seq(Writes) /\ Len(ws) = 5 /\ \A k \in 1 .. 4 : ws[k].to = RecordAt(c) + k - 1
      /\ \A k \in 1 .. 4 : ws[k].of = "record"
      /\ ws[5].to = 1
  BY <1>0, Areas
<1>3. n \in 0 .. Len(ws) - 1 /\ n + 1 \in 1 .. 4 /\ n + 1 < Len(ws)
  BY <1>1
<1> DEFINE w == ws[n + 1]
<1>4. /\ w = Head(todo) /\ Tail(todo) = Rest(ws, n + 1) /\ Tail(todo) # <<>>
      /\ w.of = "record" /\ w.to = RecordAt(c) + n
  <2>1. w.to = RecordAt(c) + (n + 1) - 1 /\ w.of = "record"
    BY <1>1, <1>3
  <2>2. RecordAt(c) + (n + 1) - 1 = RecordAt(c) + n
    BY Areas DEF RecordAt, RecSize, Bytes
  <2>3. QED
    BY <1>1, <1>2, <1>3, <2>1, <2>2, RestWrite
<1>5. /\ mem' = Put(mem, w) /\ mem \in Memories
      /\ \A a \in Addresses : a # w.to => mem'[a] = mem[a]
      /\ todo' = Rest(ws, n + 1) /\ goal' = goal
      /\ dbok' = dbok /\ initok' = initok /\ db' = db /\ script' = script
      /\ Typed' /\ Matching'
  BY <1>4, DataByte
<1>6. /\ \A a \in EE_BASE_INIT .. EE_SCRIPT + MaxScript : mem'[a] = mem[a]
      /\ \A a \in 1 .. 4 * c + 1 : a \in Addresses => mem'[a] = mem[a]
      /\ c = ByteMax => \A a \in 1 .. 4 * MaxSfps + 1 : mem'[a] = mem[a]
  <2>1. /\ RecordAt(c) = 4 * c + 2
        /\ w.to >= EE_BASE_INIT => w.to > EE_SCRIPT + MaxScript
        /\ c = ByteMax => w.to > EE_SCRIPT + MaxScript
    <3>1. CASE c \in 0 .. MaxSfps - 1
      BY <1>4, <3>1, RecordCells, Areas
    <3>2. CASE c = ByteMax
      BY <1>4, <3>2, BlankRecord, Areas DEF RecordAt, RecSize
    <3>3. QED
      BY <1>2, <3>1, <3>2
  <2>2. EE_BASE_INIT .. EE_SCRIPT + MaxScript \subseteq Addresses
        /\ 1 .. 4 * MaxSfps + 1 \subseteq Addresses
    BY Areas, InAddresses
  <2>3. w.to >= 4 * c + 2 /\ w.to \in Int /\ c \in Nat
    BY <1>4, <2>1, Areas DEF Bytes
  <2>4. \A a \in EE_BASE_INIT .. EE_SCRIPT + MaxScript : a # w.to
    BY <2>1, <2>3, Areas
  <2>5. \A a \in 1 .. 4 * c + 1 : a # w.to
    BY <2>3
  <2>6. c = ByteMax => \A a \in 1 .. 4 * MaxSfps + 1 : a # w.to
    BY <2>1, <2>3, Areas
  <2>7. QED
    BY <1>5, <2>2, <2>4, <2>5, <2>6
<1>7. CountOk' /\ DbHeld'
  <2>1. CountOk'
    <3>1. 1 \in Addresses /\ 1 \in 1 .. 4 * c + 1 /\ EE_BASE_SFP = 1
      BY Areas, InAddresses DEF Bytes
    <3>2. mem'[EE_BASE_SFP] = mem[EE_BASE_SFP]
      BY <1>6, <3>1
    <3>3. QED
      BY <3>2 DEF StorageInv, CountOk
  <2>2. CASE dbok
    <3>1. HoldsDb(mem, db) /\ db \in Seq(Records) /\ c = Len(db) /\ Len(db) <= MaxSfps
          /\ Len(db) \in Nat
      BY <1>2, <2>2, LenProperties DEF StorageInv, Typed, DbHeld, HoldsDb
    <3>2. \A a \in 1 .. 4 * Len(db) + 1 : mem'[a] = mem[a]
      <4>1. 1 .. 4 * Len(db) + 1 \subseteq Addresses
        BY <3>1, Areas, InAddresses
      <4>2. QED
        BY <1>6, <3>1, <4>1
    <3>3. HoldsDb(mem', db)
      BY <3>1, <3>2, DbKept
    <3>4. QED
      BY <1>5, <2>1, <2>2, <3>3 DEF DbHeld
  <2>3. CASE ~dbok
    BY <1>5, <2>1, <2>3 DEF StorageInv, DbHeld
  <2>4. QED
    BY <2>2, <2>3
<1>8. ScriptHeld'
  <2>1. initok => SizeOf(mem) <= MaxScript
    BY DEF StorageInv, ScriptHeld, HoldsScript
  <2>2. QED
    BY <1>5, <1>6, <2>1, Areas, SizeIs, ScriptSame
<1>9. Executing'
  <2>1. dbok => Written(mem', ws, n + 1)
    <3>1. CASE dbok
      <4>1. c \in 0 .. MaxSfps - 1
        <5>1. c = Len(db) /\ Len(db) <= MaxSfps
          BY <1>2, <3>1 DEF StorageInv, DbHeld, HoldsDb
        <5>2. c <= MaxSfps /\ (c \in 0 .. MaxSfps - 1 \/ c = ByteMax)
          BY <1>2, <5>1
        <5>3. QED
          BY ONLY <5>2, Areas
      <4>2. \A k \in 1 .. Len(ws) : ws[k].to \in Addresses
        <5>1. ASSUME NEW k \in 1 .. 4
              PROVE  ws[k].to \in Addresses
          <6>1. ws[k].to \in RecordAt(c) .. RecordAt(c) + 3
            BY <1>1, <4>1, RecordCells
          <6>2. QED
            BY <4>1, <6>1, RecordCells
        <5>2. ws[5].to = 1 /\ 1 \in Addresses
          BY <1>1, Areas, InAddresses
        <5>3. QED
          BY <1>1, <5>1, <5>2
      <4>3. QED
        BY <1>1, <1>2, <1>3, <1>5, <3>1, <4>2, WrittenNext
    <3>2. QED
      BY <3>1
  <2>2. AddingSfp(c, r, n + 1)'
    BY <1>2, <1>5, <2>1 DEF AddingSfp, ws
  <2>3. n + 1 \in 0 .. 4
    BY <1>3
  <2>4. QED
    BY <2>2, <2>3 DEF Executing
<1>10. QED
  BY <1>5, <1>7, <1>8, <1>9 DEF StorageInv

\* The count of "sfp add": the record becomes part of the database.
LEMMA CountByte ==
    ASSUME AreasApart, StorageInv, WriteByte, NEW c \in Bytes, NEW r \in Records,
           AddingSfp(c, r, 4)
    PROVE  StorageInv'
<1> DEFINE ws == SfpWrites(c, r)
<1>1. /\ ws \in Seq(Writes) /\ Len(ws) = 5
      /\ \A k \in 1 .. 4 :
           ws[k] = [to |-> RecordAt(c) + k - 1, byte |-> Encode(r)[k], of |-> "record"]
      /\ ws[5] = [to |-> EE_BASE_SFP, byte |-> Uint8(c + 1), of |-> "count"]
  BY SfpWritesAre
<1>2. /\ todo = Rest(ws, 4) /\ goal.db # <<>>
      /\ c \in 0 .. MaxSfps - 1 \/ c = ByteMax
      /\ r.chksum = Checksum(r)
      /\ dbok => c = Len(db) /\ goal.db = Append(db, r) /\ Written(mem, ws, 4)
  BY DEF AddingSfp
<1> HIDE DEF ws
<1> DEFINE w == ws[5]
<1>3. w = Head(todo) /\ Tail(todo) = <<>>
  <2>1. 4 \in 0 .. Len(ws) - 1 /\ 4 + 1 = Len(ws) /\ 4 + 1 = 5
    BY <1>1
  <2>2. Head(todo) = ws[4 + 1] /\ (4 + 1 = Len(ws) => Tail(todo) = <<>>)
    BY <1>1, <1>2, <2>1, RestWrite
  <2>3. QED
    BY <2>1, <2>2
<1>4. w.to = 1 /\ w.byte = Uint8(c + 1) /\ w.of = "count" /\ w.of # "used"
  BY <1>1, Areas
<1> HIDE DEF w
<1>5. /\ mem \in Memories /\ mem' \in Memories
      /\ \A a \in Addresses : mem'[a] = IF a = 1 THEN Uint8(c + 1) ELSE mem[a]
      /\ todo' = <<>> /\ dbok' = dbok /\ initok' = initok
      /\ db' = IF dbok THEN goal.db ELSE db
      /\ script' = script /\ Typed' /\ Matching'
  <2>1. dbok \in BOOLEAN /\ initok \in BOOLEAN
    BY DEF StorageInv, Typed
  <2>2. /\ mem \in Memories /\ mem' \in Memories
        /\ \A a \in Addresses : mem'[a] = IF a = w.to THEN w.byte ELSE mem[a]
        /\ todo' = Tail(todo)
        /\ dbok' = (dbok \/ (w.of = "count" /\ goal.db = <<>>))
        /\ initok' = (initok \/ (w.of = "used" /\ ScriptSize' = 0))
        /\ db' = IF w.of = "count" /\ dbok THEN goal.db ELSE db
        /\ script' = IF w.of = "used" /\ initok /\ mem'[w.to] # mem[w.to]
                     THEN goal.script ELSE script
        /\ Typed' /\ Matching'
    BY <1>3, WriteByteIs
  <2>3. QED
    BY <1>2, <1>3, <1>4, <2>1, <2>2
<1>6. /\ mem'[EE_BASE_SFP] = Uint8(c + 1) /\ EE_BASE_SFP = 1
      /\ \A a \in 2 .. EE_SCRIPT + MaxScript : mem'[a] = mem[a]
  BY <1>5, Areas, InAddresses
<1>7. CountOk'
  <2>1. CASE c \in 0 .. MaxSfps - 1
    <3>1. Uint8(c + 1) = c + 1
      BY <2>1, Areas, Uint8Is DEF Bytes
    <3>2. QED
      BY <1>6, <2>1, <3>1, Areas DEF CountOk
  <2>2. CASE c = ByteMax
    <3>1. Uint8(c + 1) = 0
      BY <2>2, Areas, Uint8Is
    <3>2. QED
      BY <1>6, <3>1, Areas DEF CountOk
  <2>3. QED
    BY <1>2, <2>1, <2>2
<1>8. DbHeld'
  <2>1. CASE dbok
    <3>1. HoldsDb(mem, db) /\ db \in Seq(Records) /\ c = Len(db) /\ Len(db) <= MaxSfps
          /\ Len(db) \in Nat
      BY <1>2, <2>1, LenProperties DEF StorageInv, Typed, DbHeld, HoldsDb
    <3>2. c \in 0 .. MaxSfps - 1 /\ Uint8(c + 1) = Len(db) + 1
      BY <1>2, <3>1, Areas, Uint8Is DEF Bytes
    <3>3. \A k \in 1 .. 4 : mem[RecordAt(c) + k - 1] = Encode(r)[k]
      <4> TAKE k \in 1 .. 4
      <4>1. \A j \in k + 1 .. 4 : j \in 1 .. 4 /\ ws[j].to # ws[k].to
        <5> TAKE j \in k + 1 .. 4
        <5>1. j \in 1 .. 4
          OBVIOUS
        <5>2. RecordAt(c) + j - 1 # RecordAt(c) + k - 1
          BY <3>2, RecordCells, Areas
        <5>3. QED
          BY <1>1, <5>1, <5>2
      <4>2. mem[ws[k].to] = ws[k].byte
        BY <1>2, <2>1, <4>1 DEF Written
      <4>3. QED
        BY <1>1, <4>2
    <3>4. RecordOf(mem, c) = r
      BY <3>2, <3>3, RecordCells, RecordRead
    <3>5. RecordOf(mem', c) = RecordOf(mem, c)
      <4>1. RecordAt(c) .. RecordAt(c) + 3 \subseteq 2 .. EE_SCRIPT + MaxScript
            /\ RecordAt(c) = 4 * c + 2
        BY <3>2, RecordCells, Areas
      <4>2. /\ mem'[RecordAt(c)] = mem[RecordAt(c)]
            /\ mem'[RecordAt(c) + 1] = mem[RecordAt(c) + 1]
            /\ mem'[RecordAt(c) + 2] = mem[RecordAt(c) + 2]
            /\ mem'[RecordAt(c) + 3] = mem[RecordAt(c) + 3]
        BY <1>6, <3>2, <4>1
      <4>3. QED
        BY <4>2 DEF RecordOf
    <3>6. \A a \in 2 .. 4 * Len(db) + 1 : mem'[a] = mem[a]
      BY <1>6, <3>1, Areas
    <3>7. Len(db) < MaxSfps /\ mem'[EE_BASE_SFP] = Len(db) + 1
      BY <1>6, <3>1, <3>2, Areas
    <3>8. HoldsDb(mem', Append(db, r))
      BY <1>2, <3>1, <3>4, <3>5, <3>6, <3>7, DbAppended
    <3>9. db' = Append(db, r)
      BY <1>2, <1>5, <2>1
    <3>10. QED
      BY <1>5, <2>1, <3>8, <3>9 DEF DbHeld
  <2>2. CASE ~dbok
    BY <1>5, <2>2 DEF StorageInv, DbHeld
  <2>3. QED
    BY <2>1, <2>2
<1>9. ScriptHeld'
  <2>1. initok => SizeOf(mem) <= MaxScript
    BY DEF StorageInv, ScriptHeld, HoldsScript
  <2>2. \A a \in EE_BASE_INIT .. EE_SCRIPT + MaxScript : mem'[a] = mem[a]
    BY <1>6, Areas
  <2>3. QED
    BY <1>5, <2>1, <2>2, Areas, SizeIs, ScriptSame
<1>10. QED
  BY <1>5, <1>7, <1>8, <1>9 DEF StorageInv, Executing

\* What a byte of the size of the script leaves alone.
LEMMA SizeByte ==
    ASSUME AreasApart, StorageInv, WriteByte, NEW w, w = Head(todo), w.of = "used",
           w.to \in {EE_BASE_INIT, EE_BASE_INIT + 1}
    PROVE  /\ mem \in Memories /\ mem' \in Memories /\ mem' = Put(mem, w) /\ w \in Writes
           /\ \A a \in Addresses : mem'[a] = IF a = w.to THEN w.byte ELSE mem[a]
           /\ EE_BASE_INIT \in Addresses /\ EE_BASE_INIT + 1 \in Addresses
           /\ todo' = Tail(todo) /\ goal' = IF todo' = <<>> THEN NoGoal ELSE goal
           /\ initok' = (initok \/ SizeOf(mem') = 0)
           /\ script' = IF initok /\ mem'[w.to] # mem[w.to] THEN goal.script ELSE script
           /\ Typed' /\ Matching' /\ CountOk' /\ DbHeld'
           /\ dbok' = dbok /\ db' = db
<1>1. w.of # "count" /\ dbok \in BOOLEAN /\ initok \in BOOLEAN
  BY DEF StorageInv, Typed
<1>2. /\ w \in Writes /\ mem' = Put(mem, w) /\ mem \in Memories /\ mem' \in Memories
      /\ \A a \in Addresses : mem'[a] = IF a = w.to THEN w.byte ELSE mem[a]
      /\ todo' = Tail(todo) /\ goal' = IF todo' = <<>> THEN NoGoal ELSE goal
      /\ dbok' = (dbok \/ (w.of = "count" /\ goal.db = <<>>))
      /\ initok' = (initok \/ (w.of = "used" /\ ScriptSize' = 0))
      /\ db' = IF w.of = "count" /\ dbok THEN goal.db ELSE db
      /\ script' = IF w.of = "used" /\ initok /\ mem'[w.to] # mem[w.to]
                   THEN goal.script ELSE script
      /\ Typed' /\ Matching'
  BY WriteByteIs
<1>3. /\ dbok' = dbok /\ db' = db /\ initok' = (initok \/ SizeOf(mem') = 0)
      /\ script' = IF initok /\ mem'[w.to] # mem[w.to] THEN goal.script ELSE script
  BY <1>1, <1>2 DEF ScriptSize, SizeOf
<1>4. \A a \in 1 .. 4 * MaxSfps + 1 : a \in Addresses /\ a # w.to
  BY Areas, InAddresses DEF AreasApart
<1>5. CountOk' /\ DbHeld'
  BY <1>2, <1>3, <1>4, DbSame
<1>6. EE_BASE_INIT \in Addresses /\ EE_BASE_INIT + 1 \in Addresses
  BY Areas, InAddresses
<1>7. QED
  BY <1>2, <1>3, <1>5, <1>6

\* A byte of "init erase": a size of zero with the second, if not the first.
LEMMA EraseScriptByte ==
    ASSUME AreasApart, StorageInv, WriteByte, NEW n \in 0 .. 1, ErasingScript(n)
    PROVE  StorageInv'
<1> DEFINE ws == Write(EE_BASE_INIT, Used(0), "used")
<1>1. /\ ws \in Seq(Writes) /\ Len(ws) = 2
      /\ ws[1] = [to |-> EE_BASE_INIT, byte |-> 0, of |-> "used"]
      /\ ws[2] = [to |-> EE_BASE_INIT + 1, byte |-> 0, of |-> "used"]
  BY EraseIs
<1>2. todo = Rest(ws, n) /\ goal.script = <<>> /\ (n = 1 => mem[EE_BASE_INIT] = 0)
  BY DEF ErasingScript
<1> HIDE DEF ws
<1>3. /\ script \in Seq(Seq(Bytes)) /\ mem \in Memories /\ initok \in BOOLEAN
      /\ IF initok THEN HoldsScript(mem, script) ELSE script = <<>> /\ SizeOf(mem) # 0
      /\ initok => SizeOf(mem) <= MaxScript
  BY DEF StorageInv, Typed, ScriptHeld, ScriptSize, SizeOf, HoldsScript
<1>4. CASE n = 0
  <2> DEFINE w == ws[1]
  <2>1. w = Head(todo) /\ Tail(todo) = Rest(ws, 1) /\ Tail(todo) # <<>>
    <3>1. 0 \in 0 .. Len(ws) - 1 /\ 0 + 1 = 1 /\ 0 + 1 < Len(ws)
      BY <1>1
    <3>2. /\ Head(todo) = ws[0 + 1] /\ Tail(todo) = Rest(ws, 0 + 1)
          /\ (0 + 1 < Len(ws) => Tail(todo) # <<>>)
      BY <1>1, <1>2, <1>4, <3>1, RestWrite
    <3>3. QED
      BY <3>1, <3>2
  <2>2. w.to = EE_BASE_INIT /\ w.byte = 0 /\ w.of = "used"
    BY <1>1
  <2> HIDE DEF w
  <2>3. /\ mem' \in Memories
        /\ \A a \in Addresses : mem'[a] = IF a = w.to THEN w.byte ELSE mem[a]
        /\ EE_BASE_INIT \in Addresses /\ EE_BASE_INIT + 1 \in Addresses
        /\ todo' = Tail(todo) /\ goal' = IF todo' = <<>> THEN NoGoal ELSE goal
        /\ initok' = (initok \/ SizeOf(mem') = 0)
        /\ script' = IF initok /\ mem'[w.to] # mem[w.to] THEN goal.script ELSE script
        /\ Typed' /\ Matching' /\ CountOk' /\ DbHeld'
    BY <2>1, <2>2, SizeByte
  <2>4. /\ mem'[EE_BASE_INIT] = 0
        /\ \A a \in Addresses : a # EE_BASE_INIT => mem'[a] = mem[a]
    BY <2>2, <2>3
  <2>5. goal' = goal
    BY <2>1, <2>3
  <2>6. ScriptHeld'
    <3>1. CASE initok
      <4>1. mem[EE_BASE_INIT] = 0
        BY <1>3, <3>1, SizeIs, Areas
      <4>2. script' = script /\ initok' = initok
        BY <2>2, <2>3, <2>4, <3>1, <4>1
      <4>3. \A a \in Addresses : mem'[a] = mem[a]
        BY <2>4, <4>1
      <4>4. \A a \in EE_BASE_INIT .. EE_SCRIPT + MaxScript : mem'[a] = mem[a]
        BY <4>3, Areas, InAddresses
      <4>5. QED
        BY <1>3, <4>2, <4>4, Areas, SizeIs, ScriptSame
    <3>2. CASE ~initok
      <4>1. script' = <<>>
        BY <1>3, <2>3, <3>2
      <4>2. CASE SizeOf(mem') = 0
        BY <2>3, <4>1, <4>2, ScriptEmpty DEF ScriptHeld
      <4>3. CASE SizeOf(mem') # 0
        BY <2>3, <3>2, <4>1, <4>3 DEF ScriptHeld, ScriptSize, SizeOf
      <4>4. QED
        BY <4>2, <4>3
    <3>3. QED
      BY <1>3, <3>1, <3>2
  <2>7. ErasingScript(1)'
    BY <1>2, <2>1, <2>3, <2>4, <2>5 DEF ErasingScript, ws
  <2>8. Executing'
    BY <2>7 DEF Executing
  <2>9. QED
    BY <2>3, <2>6, <2>8 DEF StorageInv
<1>5. CASE n = 1
  <2> DEFINE w == ws[2]
  <2>1. w = Head(todo) /\ Tail(todo) = <<>>
    <3>1. 1 \in 0 .. Len(ws) - 1 /\ 1 + 1 = 2 /\ 1 + 1 = Len(ws)
      BY <1>1
    <3>2. Head(todo) = ws[1 + 1] /\ (1 + 1 = Len(ws) => Tail(todo) = <<>>)
      BY <1>1, <1>2, <1>5, <3>1, RestWrite
    <3>3. QED
      BY <3>1, <3>2
  <2>2. w.to = EE_BASE_INIT + 1 /\ w.byte = 0 /\ w.of = "used"
    BY <1>1
  <2> HIDE DEF w
  <2>3. /\ mem' \in Memories
        /\ \A a \in Addresses : mem'[a] = IF a = w.to THEN w.byte ELSE mem[a]
        /\ EE_BASE_INIT \in Addresses /\ EE_BASE_INIT + 1 \in Addresses
        /\ todo' = Tail(todo)
        /\ initok' = (initok \/ SizeOf(mem') = 0)
        /\ script' = IF initok /\ mem'[w.to] # mem[w.to] THEN goal.script ELSE script
        /\ Typed' /\ Matching' /\ CountOk' /\ DbHeld'
    BY <2>1, <2>2, SizeByte
  <2>4. mem'[EE_BASE_INIT + 1] = 0 /\ mem'[EE_BASE_INIT] = 0 /\ mem[EE_BASE_INIT] = 0
    <3>1. EE_BASE_INIT # EE_BASE_INIT + 1
      BY Areas
    <3>2. QED
      BY <1>2, <1>5, <2>2, <2>3, <3>1
  <2>5. SizeOf(mem') = 0 /\ initok' = TRUE
    BY <2>3, <2>4, SizeIs
  <2>6. script' = <<>>
    <3>1. CASE initok
      <4>1. mem[EE_BASE_INIT + 1] = 0 => SizeOf(mem) = 0
        BY <1>3, <2>4, SizeIs
      <4>2. mem[EE_BASE_INIT + 1] = 0 => script = <<>>
        BY <1>3, <3>1, <4>1, ScriptEmpty
      <4>3. mem'[w.to] # mem[w.to] <=> mem[EE_BASE_INIT + 1] # 0
        BY <2>2, <2>4
      <4>4. QED
        BY <1>2, <2>3, <3>1, <4>2, <4>3
    <3>2. CASE ~initok
      BY <1>3, <2>3, <3>2
    <3>3. QED
      BY <1>3, <3>1, <3>2
  <2>7. ScriptHeld'
    BY <2>3, <2>5, <2>6, ScriptEmpty DEF ScriptHeld
  <2>8. QED
    BY <2>1, <2>3, <2>7 DEF StorageInv, Executing
<1>6. QED
  BY <1>4, <1>5

\* Where the writes of "init add" go.
LEMMA InitWritesTo ==
    ASSUME NEW cmd \in Commands, NEW u \in Bytes
    PROVE  LET L  == Len(cmd)
               ws == InitWrites(u, cmd)
           IN  /\ L \in Nat \ {0} /\ u \in Nat
               /\ ws \in Seq(Writes) /\ Len(ws) = 2 * L + 3
               /\ \A k \in 1 .. 2 * L : ws[k].to = EE_SCRIPT + u + k - 1
                                        /\ ws[k].byte = Words(cmd)[k]
               /\ ws[2 * L + 1].to = EE_SCRIPT + u + 2 * L - 1
               /\ ws[2 * L + 1].byte = Newline
               /\ \A k \in 1 .. 2 * L + 1 : ws[k].of = "text" /\ ws[k].to >= EE_SCRIPT + u
                                            /\ ws[k].to <= EE_SCRIPT + u + 2 * L - 1
                                            /\ ws[k].to \in Int
               /\ ws[2 * L + 2].to = EE_BASE_INIT /\ ws[2 * L + 3].to = EE_BASE_INIT + 1
               /\ ws[2 * L + 2].of = "used" /\ ws[2 * L + 3].of = "used"
               /\ ws[2 * L + 2].byte = Used(u + 2 * L)[1]
               /\ ws[2 * L + 3].byte = Used(u + 2 * L)[2]
<1> DEFINE L  == Len(cmd)
           ws == InitWrites(u, cmd)
<1>1. u \in Nat /\ L \in Nat \ {0} /\ EE_SCRIPT \in Nat
  BY WordsAre, Areas DEF Bytes
<1>2. /\ ws \in Seq(Writes) /\ Len(ws) = 2 * L + 3
      /\ \A k \in 1 .. 2 * L :
           ws[k] = [to |-> EE_SCRIPT + u + k - 1, byte |-> Words(cmd)[k], of |-> "text"]
      /\ ws[2 * L + 1]
           = [to |-> EE_SCRIPT + u + 2 * L - 1, byte |-> Newline, of |-> "text"]
      /\ ws[2 * L + 2]
           = [to |-> EE_BASE_INIT, byte |-> Used(u + 2 * L)[1], of |-> "used"]
      /\ ws[2 * L + 3]
           = [to |-> EE_BASE_INIT + 1, byte |-> Used(u + 2 * L)[2], of |-> "used"]
  BY <1>1, InitWritesAre
<1> HIDE DEF L, ws
<1>3. ASSUME NEW k \in 1 .. 2 * L + 1
      PROVE  /\ ws[k].of = "text" /\ ws[k].to >= EE_SCRIPT + u
             /\ ws[k].to <= EE_SCRIPT + u + 2 * L - 1 /\ ws[k].to \in Int
  <2>1. CASE k = 2 * L + 1
    <3>1. ws[k].of = "text" /\ ws[k].to = EE_SCRIPT + u + 2 * L - 1
      BY <1>2, <2>1
    <3>2. QED
      BY <1>1, <3>1
  <2>2. CASE k \in 1 .. 2 * L
    <3>1. ws[k] = [to |-> EE_SCRIPT + u + k - 1, byte |-> Words(cmd)[k], of |-> "text"]
      BY <1>2, <2>2
    <3>2. ws[k].of = "text" /\ ws[k].to = EE_SCRIPT + u + k - 1
      BY <3>1
    <3>3. QED
      BY <1>1, <2>2, <3>2
  <2>3. QED
    BY <1>1, <2>1, <2>2
<1>4. ASSUME NEW k \in 1 .. 2 * L
      PROVE  ws[k].to = EE_SCRIPT + u + k - 1 /\ ws[k].byte = Words(cmd)[k]
  <2>1. ws[k] = [to |-> EE_SCRIPT + u + k - 1, byte |-> Words(cmd)[k], of |-> "text"]
    BY <1>2
  <2>2. QED
    BY <2>1
<1>5. /\ ws[2 * L + 1].to = EE_SCRIPT + u + 2 * L - 1 /\ ws[2 * L + 1].byte = Newline
      /\ ws[2 * L + 2].to = EE_BASE_INIT /\ ws[2 * L + 3].to = EE_BASE_INIT + 1
      /\ ws[2 * L + 2].of = "used" /\ ws[2 * L + 3].of = "used"
      /\ ws[2 * L + 2].byte = Used(u + 2 * L)[1]
      /\ ws[2 * L + 3].byte = Used(u + 2 * L)[2]
  BY <1>2
<1>6. ws \in Seq(Writes) /\ Len(ws) = 2 * L + 3
  BY <1>2
<1>7. QED
  BY <1>1, <1>3, <1>4, <1>5, <1>6 DEF L, ws

\* The memory holds the writes to the script area, all of which fit.
LEMMA InitWritesFit ==
    ASSUME NEW cmd \in Commands, NEW u \in Bytes, u + 2 * Len(cmd) <= MaxScript
    PROVE  \A k \in 1 .. Len(InitWrites(u, cmd)) : InitWrites(u, cmd)[k].to \in Addresses
<1> DEFINE L  == Len(cmd)
           ws == InitWrites(u, cmd)
<1>1. /\ L \in Nat \ {0} /\ u \in Nat /\ Len(ws) = 2 * L + 3
      /\ \A k \in 1 .. 2 * L + 1 : ws[k].to >= EE_SCRIPT + u
                                   /\ ws[k].to <= EE_SCRIPT + u + 2 * L - 1
                                   /\ ws[k].to \in Int
      /\ ws[2 * L + 2].to = EE_BASE_INIT /\ ws[2 * L + 3].to = EE_BASE_INIT + 1
  BY InitWritesTo
<1>2. u + 2 * L <= MaxScript
  OBVIOUS
<1> HIDE DEF L, ws
<1>3. ASSUME NEW k \in 1 .. 2 * L + 1
      PROVE  ws[k].to \in Addresses
  <2> DEFINE t == ws[k].to
  <2>1. t >= EE_SCRIPT + u /\ t <= EE_SCRIPT + u + 2 * L - 1 /\ t \in Int
    BY <1>1
  <2> HIDE DEF t
  <2>2. t \in 0 .. EE_SCRIPT + MaxScript
    BY <1>1, <1>2, <2>1, Areas
  <2>3. QED
    BY <2>2, InAddresses DEF t
<1>4. EE_BASE_INIT \in Addresses /\ EE_BASE_INIT + 1 \in Addresses
  BY Areas, InAddresses
<1>5. ASSUME NEW k \in 1 .. Len(ws)
      PROVE  ws[k].to \in Addresses
  <2>1. k \in 1 .. 2 * L + 1 \/ k = 2 * L + 2 \/ k = 2 * L + 3
    BY <1>1
  <2>2. QED
    BY <1>1, <1>3, <1>4, <2>1
<1>6. QED
  BY <1>5 DEF ws

\* A character of a command: the size still hides it.
LEMMA TextByte ==
    ASSUME AreasApart, StorageInv, WriteByte, NEW cmd \in Commands, NEW u \in Bytes,
           NEW n \in 0 .. 2 * Len(cmd), AddingCommand(u, cmd, n)
    PROVE  StorageInv'
<1> DEFINE L  == Len(cmd)
           ws == InitWrites(u, cmd)
           w  == ws[n + 1]
<1>1. /\ L \in Nat \ {0} /\ u \in Nat /\ ws \in Seq(Writes) /\ Len(ws) = 2 * L + 3
      /\ \A k \in 1 .. 2 * L + 1 : ws[k].of = "text" /\ ws[k].to >= EE_SCRIPT + u
                                   /\ ws[k].to \in Int
  BY InitWritesTo
<1>2. /\ todo = Rest(ws, n)
      /\ initok => /\ ScriptSize = u /\ u + 2 * L <= MaxScript
                   /\ goal.script = Append(script, Line(cmd))
                   /\ Written(mem, ws, n)
      /\ ~initok /\ n + 1 < Len(ws) => mem[EE_BASE_INIT + 1] # 0
  BY DEF AddingCommand
<1>3. n \in 0 .. 2 * L
  OBVIOUS
<1>3a. initok => \A k \in 1 .. Len(ws) : ws[k].to \in Addresses
  BY <1>2, InitWritesFit
<1> HIDE DEF L, ws
<1>4. /\ n \in 0 .. Len(ws) - 1 /\ n + 1 \in 1 .. 2 * L + 1 /\ n + 1 < Len(ws)
      /\ n + 1 \in 0 .. Len(ws) - 1
  BY <1>1, <1>3
<1>5. /\ w = Head(todo) /\ Tail(todo) = Rest(ws, n + 1) /\ Tail(todo) # <<>>
      /\ w.of = "text" /\ w.to >= EE_SCRIPT + u /\ w.to \in Int
  BY <1>1, <1>2, <1>4, RestWrite
<1>6. /\ mem' = Put(mem, w) /\ mem \in Memories
      /\ \A a \in Addresses : a # w.to => mem'[a] = mem[a]
      /\ todo' = Rest(ws, n + 1) /\ goal' = goal
      /\ dbok' = dbok /\ initok' = initok /\ db' = db /\ script' = script
      /\ Typed' /\ Matching'
  BY <1>5, DataByte
<1>7. \A a \in 0 .. EE_SCRIPT + u - 1 : a \in Addresses => mem'[a] = mem[a]
  BY <1>1, <1>5, <1>6, Areas
<1>8. CountOk' /\ DbHeld'
  <2>1. 1 .. 4 * MaxSfps + 1 \subseteq 0 .. EE_SCRIPT + u - 1
        /\ 1 .. 4 * MaxSfps + 1 \subseteq Addresses
    BY <1>1, Areas, InAddresses
  <2>2. \A a \in 1 .. 4 * MaxSfps + 1 : mem'[a] = mem[a]
    BY <1>7, <2>1
  <2>3. QED
    BY <1>6, <2>2, DbSame
<1>9. ScriptHeld' /\ ScriptSize' = ScriptSize /\ mem'[EE_BASE_INIT + 1] = mem[EE_BASE_INIT + 1]
  <2>1. EE_BASE_INIT .. EE_SCRIPT - 1 \subseteq 0 .. EE_SCRIPT + u - 1
        /\ EE_BASE_INIT .. EE_SCRIPT - 1 \subseteq Addresses
    BY <1>1, Areas, InAddresses
  <2>2. \A a \in EE_BASE_INIT .. EE_SCRIPT - 1 : mem'[a] = mem[a]
    BY <1>7, <2>1
  <2>3. ASSUME initok, NEW q \in 0 .. SizeOf(mem) - 1
        PROVE  mem'[EE_SCRIPT + q] = mem[EE_SCRIPT + q]
    <3>1. SizeOf(mem) = u /\ u <= MaxScript
      <4>1. ScriptSize = SizeOf(mem)
        BY DEF ScriptSize, SizeOf
      <4>2. ScriptSize = u /\ u + 2 * L <= MaxScript
        BY <1>2, <2>3
      <4>3. u <= MaxScript
        BY <1>1, <4>2, Areas
      <4>4. QED
        BY <4>1, <4>2, <4>3
    <3>2. q \in 0 .. u - 1
      BY <3>1
    <3>3. EE_SCRIPT \in Nat /\ MaxScript \in Nat
      BY Areas
    <3>4. EE_SCRIPT + q \in 0 .. EE_SCRIPT + u - 1 /\ EE_SCRIPT + q \in 0 .. EE_SCRIPT + MaxScript
      <4>1. u \in Nat /\ u <= MaxScript
        BY <1>1, <3>1
      <4>2. QED
        BY ONLY <3>2, <3>3, <4>1
    <3>5. QED
      BY <1>7, <3>4, InAddresses
  <2>4. EE_BASE_INIT + 1 \in EE_BASE_INIT .. EE_SCRIPT - 1
    BY Areas
  <2>5. QED
    BY <1>6, <2>2, <2>3, <2>4, ScriptSame
<1>10. Executing'
  <2>1. initok => Written(mem', ws, n + 1)
    <3>1. CASE initok
      BY <1>1, <1>2, <1>3a, <1>4, <1>6, <3>1, WrittenNext
    <3>2. QED
      BY <3>1
  <2>2. AddingCommand(u, cmd, n + 1)'
    BY <1>2, <1>4, <1>6, <1>9, <2>1 DEF AddingCommand, ws, L
  <2>3. QED
    BY <1>4, <2>2 DEF Executing, ws
<1>11. QED
  BY <1>6, <1>8, <1>9, <1>10 DEF StorageInv

\* The high byte of the size, zero before and after.
LEMMA HighByte ==
    ASSUME AreasApart, StorageInv, WriteByte, NEW cmd \in Commands, NEW u \in Bytes,
           AddingCommand(u, cmd, 2 * Len(cmd) + 1)
    PROVE  StorageInv'
<1> DEFINE L  == Len(cmd)
           n  == 2 * L + 1
           ws == InitWrites(u, cmd)
           w  == ws[2 * L + 2]
<1>1. /\ L \in Nat \ {0} /\ u \in Nat /\ ws \in Seq(Writes) /\ Len(ws) = 2 * L + 3
      /\ w.to = EE_BASE_INIT /\ w.byte = Used(u + 2 * L)[1] /\ w.of = "used"
  BY InitWritesTo
<1>2. /\ todo = Rest(ws, n)
      /\ initok => /\ ScriptSize = u /\ u + 2 * L <= MaxScript
                   /\ goal.script = Append(script, Line(cmd))
                   /\ Written(mem, ws, n)
      /\ ~initok /\ n + 1 < Len(ws) => mem[EE_BASE_INIT + 1] # 0
  BY DEF AddingCommand
<1>2a. initok => \A k \in 1 .. Len(ws) : ws[k].to \in Addresses
  BY <1>2, InitWritesFit
<1> HIDE DEF L, ws
<1>3. /\ n \in 0 .. Len(ws) - 1 /\ n + 1 = 2 * L + 2 /\ n + 1 < Len(ws)
      /\ n + 1 \in 0 .. Len(ws) - 1 /\ ~(n + 1 + 1 < Len(ws))
  BY <1>1
<1> HIDE DEF n
<1>4. w = Head(todo) /\ Tail(todo) = Rest(ws, n + 1) /\ Tail(todo) # <<>>
  <2>1. Head(todo) = ws[n + 1] /\ Tail(todo) = Rest(ws, n + 1) /\ Tail(todo) # <<>>
    BY <1>1, <1>2, <1>3, RestWrite
  <2>2. QED
    BY <1>3, <2>1
<1>5. w.to = EE_BASE_INIT /\ w.byte = Used(u + 2 * L)[1] /\ w.of = "used"
  BY <1>1
<1>6. w = ws[n + 1]
  BY <1>3
<1> HIDE DEF w
<1>7. /\ mem \in Memories /\ mem' \in Memories /\ mem' = Put(mem, w)
      /\ \A a \in Addresses : mem'[a] = IF a = w.to THEN w.byte ELSE mem[a]
      /\ EE_BASE_INIT \in Addresses /\ EE_BASE_INIT + 1 \in Addresses
      /\ todo' = Tail(todo) /\ goal' = IF todo' = <<>> THEN NoGoal ELSE goal
      /\ initok' = (initok \/ SizeOf(mem') = 0)
      /\ script' = IF initok /\ mem'[w.to] # mem[w.to] THEN goal.script ELSE script
      /\ Typed' /\ Matching' /\ CountOk' /\ DbHeld'
  BY <1>4, <1>5, SizeByte
<1>8. goal' = goal /\ todo' = Rest(ws, n + 1)
  BY <1>4, <1>7
<1>9. CASE initok
  <2>1. SizeOf(mem) <= MaxScript /\ SizeOf(mem) = u /\ mem[EE_BASE_INIT] = 0
    <3>1. SizeOf(mem) <= MaxScript /\ SizeOf(mem) = u
      BY <1>2, <1>9 DEF StorageInv, ScriptHeld, HoldsScript, ScriptSize, SizeOf
    <3>2. SizeOf(mem) <= ByteMax
      BY <1>1, <3>1, Areas
    <3>3. QED
      BY <1>7, <3>1, <3>2, SizeIs
  <2>2. w.byte = 0
    <3>1. u + 2 * L \in Nat /\ u + 2 * L <= ByteMax
      BY <1>1, <1>2, <1>9, Areas
    <3>2. Used(u + 2 * L) = <<0, u + 2 * L>>
      BY <3>1, UsedIs
    <3>3. QED
      BY <1>5, <3>2
  <2>3. \A a \in Addresses : mem'[a] = mem[a]
    BY <1>5, <1>7, <2>1, <2>2
  <2>4. initok' = initok /\ script' = script
    BY <1>5, <1>7, <1>9, <2>3
  <2>5. ScriptHeld' /\ ScriptSize' = ScriptSize
    <3>1. \A a \in EE_BASE_INIT .. EE_SCRIPT + MaxScript : mem'[a] = mem[a]
      BY <2>3, Areas, InAddresses
    <3>2. QED
      BY <1>1, <2>1, <2>4, <3>1, Areas, ScriptSame
  <2>6. Written(mem', ws, n + 1)
    BY <1>1, <1>2, <1>2a, <1>3, <1>6, <1>7, <1>9, WrittenNext
  <2>7. AddingCommand(u, cmd, n + 1)'
    BY <1>2, <1>8, <1>9, <2>4, <2>5, <2>6 DEF AddingCommand, ws, L
  <2>8. Executing'
    BY <1>3, <2>7 DEF Executing, ws
  <2>9. QED
    BY <1>7, <2>5, <2>8 DEF StorageInv
<1>10. CASE ~initok
  <2>1. mem'[EE_BASE_INIT + 1] # 0
    <3>1. EE_BASE_INIT + 1 # EE_BASE_INIT
      BY Areas
    <3>2. QED
      BY <1>2, <1>3, <1>5, <1>7, <1>10, <3>1
  <2>2. SizeOf(mem') # 0
    BY <1>7, <2>1, SizeIs
  <2>3. initok' = FALSE /\ script' = <<>>
    BY <1>7, <1>10, <2>2 DEF StorageInv, ScriptHeld
  <2>4. ScriptHeld'
    BY <2>2, <2>3 DEF ScriptHeld, ScriptSize, SizeOf
  <2>5. AddingCommand(u, cmd, n + 1)'
    BY <1>3, <1>8, <2>3 DEF AddingCommand, ws, L
  <2>6. Executing'
    BY <1>3, <2>5 DEF Executing, ws
  <2>7. QED
    BY <1>7, <2>4, <2>6 DEF StorageInv
<1>11. QED
  BY <1>9, <1>10

\* The script area holds the words and the newline.
LEMMA TextWritten ==
    ASSUME NEW m, NEW cmd \in Commands, NEW u \in Bytes,
           Written(m, InitWrites(u, cmd), 2 * Len(cmd) + 2)
    PROVE  LET L == Len(cmd)
           IN  /\ m[EE_SCRIPT + u + 2 * L - 1] = Newline
               /\ \A k \in 1 .. 2 * L - 1 : m[EE_SCRIPT + u + k - 1] = Line(cmd)[k]
<1> DEFINE L  == Len(cmd)
           ws == InitWrites(u, cmd)
<1>1. /\ L \in Nat \ {0} /\ u \in Nat
      /\ \A k \in 1 .. 2 * L : ws[k].to = EE_SCRIPT + u + k - 1
                               /\ ws[k].byte = Words(cmd)[k]
      /\ ws[2 * L + 1].to = EE_SCRIPT + u + 2 * L - 1
      /\ ws[2 * L + 1].byte = Newline
      /\ ws[2 * L + 2].to = EE_BASE_INIT
  BY InitWritesTo
<1>2. \A k \in 1 .. 2 * L - 1 : Line(cmd)[k] = Words(cmd)[k]
  BY WordsAre
<1>3. \A k \in 1 .. 2 * L + 2 :
        (\A j \in k + 1 .. 2 * L + 2 : ws[j].to # ws[k].to) => m[ws[k].to] = ws[k].byte
  BY DEF Written
<1>4. EE_SCRIPT \in Nat /\ EE_BASE_INIT \in Nat /\ EE_BASE_INIT < EE_SCRIPT
  BY Areas
<1> HIDE DEF L, ws
<1>5. m[EE_SCRIPT + u + 2 * L - 1] = Newline
  <2>1. 2 * L + 1 \in 1 .. 2 * L + 2
    BY <1>1
  <2>2. \A j \in 2 * L + 1 + 1 .. 2 * L + 2 : ws[j].to # ws[2 * L + 1].to
    <3> TAKE j \in 2 * L + 1 + 1 .. 2 * L + 2
    <3>1. j = 2 * L + 2
      BY <1>1
    <3>2. EE_BASE_INIT # EE_SCRIPT + u + 2 * L - 1
      BY <1>1, <1>4
    <3>3. QED
      BY <1>1, <3>1, <3>2
  <2>3. QED
    BY <1>1, <1>3, <2>1, <2>2
<1>6. ASSUME NEW k \in 1 .. 2 * L - 1
      PROVE  m[EE_SCRIPT + u + k - 1] = Line(cmd)[k]
  <2>1. k \in 1 .. 2 * L /\ k \in 1 .. 2 * L + 2
    BY <1>1
  <2>2. \A j \in k + 1 .. 2 * L + 2 : ws[j].to # ws[k].to
    <3> TAKE j \in k + 1 .. 2 * L + 2
    <3>1. CASE j \in 1 .. 2 * L
      <4>1. EE_SCRIPT + u + j - 1 # EE_SCRIPT + u + k - 1
        BY <1>1, <1>4
      <4>2. QED
        BY <1>1, <2>1, <3>1, <4>1
    <3>2. CASE j = 2 * L + 1
      <4>1. EE_SCRIPT + u + 2 * L - 1 # EE_SCRIPT + u + k - 1
        BY <1>1, <1>4
      <4>2. QED
        BY <1>1, <2>1, <3>2, <4>1
    <3>3. CASE j = 2 * L + 2
      <4>1. EE_BASE_INIT # EE_SCRIPT + u + k - 1
        BY <1>1, <1>4
      <4>2. QED
        BY <1>1, <2>1, <3>3, <4>1
    <3>4. j \in 1 .. 2 * L \/ j = 2 * L + 1 \/ j = 2 * L + 2
      BY <1>1
    <3>5. QED
      BY <3>1, <3>2, <3>3, <3>4
  <2>3. m[ws[k].to] = ws[k].byte
    BY <1>3, <2>1, <2>2
  <2>4. QED
    BY <1>1, <1>2, <2>1, <2>3
<1>7. QED
  BY <1>5, <1>6 DEF L

\* The low byte of the size: the command becomes part of the script.
LEMMA LowByte ==
    ASSUME AreasApart, StorageInv, WriteByte, NEW cmd \in Commands, NEW u \in Bytes,
           AddingCommand(u, cmd, 2 * Len(cmd) + 2)
    PROVE  StorageInv'
<1> DEFINE L    == Len(cmd)
           n    == 2 * L + 2
           ws   == InitWrites(u, cmd)
           w    == ws[2 * L + 3]
           line == Line(cmd)
<1>1. /\ L \in Nat \ {0} /\ u \in Nat /\ ws \in Seq(Writes) /\ Len(ws) = 2 * L + 3
      /\ w.to = EE_BASE_INIT + 1 /\ w.byte = Used(u + 2 * L)[2] /\ w.of = "used"
  BY InitWritesTo
<1>2. /\ todo = Rest(ws, n)
      /\ initok => /\ ScriptSize = u /\ u + 2 * L <= MaxScript
                   /\ goal.script = Append(script, line)
                   /\ Written(mem, ws, n)
  BY DEF AddingCommand
<1>3. initok => /\ mem[EE_SCRIPT + u + 2 * L - 1] = Newline
                /\ \A k \in 1 .. 2 * L - 1 : mem[EE_SCRIPT + u + k - 1] = line[k]
  BY <1>2, TextWritten
<1>4. /\ line \in Seq(Bytes) /\ Len(line) = 2 * L - 1
      /\ \A k \in 1 .. 2 * L - 1 : line[k] # Newline
  <2>1. /\ Words(cmd) \in Seq(Bytes) /\ \A k \in 1 .. 2 * L : Words(cmd)[k] # Newline
        /\ line \in Seq(Bytes) /\ Len(line) = 2 * L - 1
        /\ \A k \in 1 .. 2 * L - 1 : line[k] = Words(cmd)[k]
    BY WordsAre
  <2>2. 1 .. 2 * L - 1 \subseteq 1 .. 2 * L
    BY <1>1
  <2>3. QED
    BY <2>1, <2>2
<1> HIDE DEF L, ws, line
<1>5. n \in 0 .. Len(ws) - 1 /\ n + 1 = 2 * L + 3 /\ n + 1 = Len(ws)
  BY <1>1
<1> HIDE DEF n
<1>6. w = Head(todo) /\ Tail(todo) = <<>>
  <2>1. Head(todo) = ws[n + 1] /\ Tail(todo) = <<>>
    BY <1>1, <1>2, <1>5, RestWrite
  <2>2. QED
    BY <1>5, <2>1
<1> HIDE DEF w
<1>7. /\ mem \in Memories /\ mem' \in Memories
      /\ \A a \in Addresses : mem'[a] = IF a = w.to THEN w.byte ELSE mem[a]
      /\ EE_BASE_INIT \in Addresses /\ EE_BASE_INIT + 1 \in Addresses
      /\ todo' = Tail(todo)
      /\ initok' = (initok \/ SizeOf(mem') = 0)
      /\ script' = IF initok /\ mem'[w.to] # mem[w.to] THEN goal.script ELSE script
      /\ Typed' /\ Matching' /\ CountOk' /\ DbHeld'
  BY <1>1, <1>6, SizeByte
<1>8. script \in Seq(Seq(Bytes)) /\ initok \in BOOLEAN
  BY DEF StorageInv, Typed
<1>9. CASE initok
  <2>1. HoldsScript(mem, script) /\ SizeOf(mem) = u
    BY <1>2, <1>9 DEF StorageInv, ScriptHeld, ScriptSize, SizeOf
  <2>2. u <= ByteMax /\ u + 2 * L \in Nat /\ u + 2 * L <= ByteMax /\ u + 2 * L <= MaxScript
    BY <1>1, <1>2, <1>9, Areas
  <2>3. w.byte = u + 2 * L
    <3>1. Used(u + 2 * L) = <<0, u + 2 * L>>
      BY <2>2, UsedIs
    <3>2. QED
      BY <1>1, <3>1
  <2>4. mem[EE_BASE_INIT] = 0 /\ mem[EE_BASE_INIT + 1] = u
    BY <1>7, <2>1, <2>2, SizeIs
  <2>5. mem'[EE_BASE_INIT] = 0 /\ mem'[EE_BASE_INIT + 1] = u + 2 * L
    <3>1. EE_BASE_INIT # EE_BASE_INIT + 1
      BY Areas
    <3>2. QED
      BY <1>1, <1>7, <2>3, <2>4, <3>1
  <2>6. SizeOf(mem') = u + 2 * L
    BY <1>7, <2>5, SizeIs
  <2>7. script' = Append(script, line) /\ initok' = TRUE
    <3>1. u + 2 * L # u
      BY <1>1
    <3>2. mem'[w.to] # mem[w.to]
      BY <1>1, <2>4, <2>5, <3>1
    <3>3. QED
      BY <1>2, <1>7, <1>9, <3>2
  <2>8. \A q \in 0 .. MaxScript : mem'[EE_SCRIPT + q] = mem[EE_SCRIPT + q]
    <3> TAKE q \in 0 .. MaxScript
    <3>1. EE_SCRIPT + q \in 0 .. EE_SCRIPT + MaxScript /\ EE_SCRIPT + q # EE_BASE_INIT + 1
      BY Areas
    <3>2. QED
      BY <1>1, <1>7, <3>1, InAddresses
  <2>9. LineAdded(mem, mem', u, line)
    <3>1. SizeOf(mem') = u + Len(line) + 1 /\ SizeOf(mem') <= MaxScript
      BY <1>1, <1>4, <2>2, <2>6
    <3>2. \A q \in 0 .. u - 1 : mem'[EE_SCRIPT + q] = mem[EE_SCRIPT + q]
      <4>1. 0 .. u - 1 \subseteq 0 .. MaxScript
        BY <1>1, <2>2, Areas
      <4>2. QED
        BY <2>8, <4>1
    <3>3. mem'[EE_SCRIPT + u + Len(line)] = Newline
      <4>1. u + 2 * L - 1 \in 0 .. MaxScript /\ EE_SCRIPT + u + Len(line) = EE_SCRIPT + (u + 2 * L - 1)
            /\ EE_SCRIPT + u + 2 * L - 1 = EE_SCRIPT + (u + 2 * L - 1)
        BY <1>1, <1>4, <2>2, Areas
      <4>2. QED
        BY <1>3, <1>9, <2>8, <4>1
    <3>4. ASSUME NEW k \in 1 .. Len(line)
          PROVE  mem'[EE_SCRIPT + u + k - 1] = line[k] /\ line[k] # Newline
      <4>1. k \in 1 .. 2 * L - 1
        BY <1>4
      <4>2. u + k - 1 \in 0 .. MaxScript
        BY <1>1, <2>2, <4>1, Areas
      <4>3. EE_SCRIPT + u + k - 1 = EE_SCRIPT + (u + k - 1)
        <5>1. u \in Int /\ k \in Int /\ EE_SCRIPT \in Int
          BY <1>1, <4>1, Areas
        <5>2. QED
          BY ONLY <5>1
      <4>4. QED
        BY <1>3, <1>4, <1>9, <2>8, <4>1, <4>2, <4>3
    <3>5. QED
      BY <2>1, <3>1, <3>2, <3>3, <3>4 DEF LineAdded
  <2>10. HoldsScript(mem', Append(script, line))
    BY <1>4, <1>7, <1>8, <2>1, <2>9, ScriptAppended
  <2>11. ScriptHeld'
    BY <2>7, <2>10 DEF ScriptHeld
  <2>12. QED
    BY <1>6, <1>7, <2>11 DEF StorageInv, Executing
<1>10. CASE ~initok
  <2>1. script' = <<>>
    BY <1>7, <1>10 DEF StorageInv, ScriptHeld
  <2>2. CASE SizeOf(mem') = 0
    <3>1. ScriptHeld'
      BY <1>7, <2>1, <2>2, ScriptEmpty DEF ScriptHeld
    <3>2. QED
      BY <1>6, <1>7, <3>1 DEF StorageInv, Executing
  <2>3. CASE SizeOf(mem') # 0
    <3>1. ScriptHeld'
      BY <1>7, <1>10, <2>1, <2>3 DEF ScriptHeld, ScriptSize, SizeOf
    <3>2. QED
      BY <1>6, <1>7, <3>1 DEF StorageInv, Executing
  <2>4. QED
    BY <2>2, <2>3
<1>11. QED
  BY <1>9, <1>10

\* A byte of any command.
LEMMA WriteByteStep == ASSUME AreasApart, StorageInv, WriteByte PROVE StorageInv'
<1>1. todo # <<>> /\ Executing
  BY DEF WriteByte, StorageInv
<1>2. CASE ErasingDb
  BY <1>2, EraseDbByte
<1>3. CASE \E c \in Bytes, r \in Records, n \in 0 .. 4 : AddingSfp(c, r, n)
  <2>1. PICK c \in Bytes, r \in Records, n \in 0 .. 4 : AddingSfp(c, r, n)
    BY <1>3
  <2>2. n \in 0 .. 3 \/ n = 4
    OBVIOUS
  <2>3. QED
    BY <2>1, <2>2, RecordByte, CountByte
<1>4. CASE \E n \in 0 .. 1 : ErasingScript(n)
  BY <1>4, EraseScriptByte
<1>5. CASE \E cmd \in Commands, u \in Bytes :
             \E n \in 0 .. Len(InitWrites(u, cmd)) - 1 : AddingCommand(u, cmd, n)
  <2>1. PICK cmd \in Commands, u \in Bytes :
               \E n \in 0 .. Len(InitWrites(u, cmd)) - 1 : AddingCommand(u, cmd, n)
    BY <1>5
  <2>2. PICK n \in 0 .. Len(InitWrites(u, cmd)) - 1 : AddingCommand(u, cmd, n)
    BY <2>1
  <2>3. Len(cmd) \in Nat /\ Len(InitWrites(u, cmd)) = 2 * Len(cmd) + 3
    BY InitWritesTo
  <2>4. n \in 0 .. 2 * Len(cmd) \/ n = 2 * Len(cmd) + 1 \/ n = 2 * Len(cmd) + 2
    BY <2>3
  <2>5. CASE n \in 0 .. 2 * Len(cmd)
    BY <2>2, <2>5, TextByte
  <2>6. CASE n = 2 * Len(cmd) + 1
    BY <2>2, <2>6, HighByte
  <2>7. CASE n = 2 * Len(cmd) + 2
    BY <2>2, <2>7, LowByte
  <2>8. QED
    BY <2>4, <2>5, <2>6, <2>7
<1>6. QED
  BY <1>1, <1>2, <1>3, <1>4, <1>5 DEF Executing
-----------------------------------------------------------------------------
(* A command is cut short.                                                 *)

\* Only "sfp add" writes records.
LEMMA RecordPending ==
    ASSUME StorageInv, todo # <<>>, Head(todo).of = "record"
    PROVE  \E c \in Bytes, r \in Records, n \in 0 .. 3 : AddingSfp(c, r, n)
<1>1. ~ErasingDb
  <2> SUFFICES ASSUME ErasingDb PROVE FALSE
    OBVIOUS
  <2> DEFINE ws == Write(EE_BASE_SFP, <<0>>, "count")
  <2>1. ws \in Seq(Writes) /\ Len(ws) = 1 /\ ws # <<>> /\ ws[1].of = "count"
    BY EraseIs
  <2>2. todo = ws
    BY DEF ErasingDb
  <2> HIDE DEF ws
  <2>3. Rest(ws, 0) = ws /\ 0 \in 0 .. Len(ws) - 1 /\ 0 + 1 = 1
    BY <2>1, RestEnds
  <2>4. Head(todo) = ws[0 + 1]
    BY <2>1, <2>2, <2>3, RestWrite
  <2>5. QED
    BY <2>1, <2>3, <2>4
<1>2. ASSUME NEW n \in 0 .. 1, ErasingScript(n)
      PROVE  FALSE
  <2> DEFINE ws == Write(EE_BASE_INIT, Used(0), "used")
  <2>1. ws \in Seq(Writes) /\ Len(ws) = 2 /\ ws[1].of = "used" /\ ws[2].of = "used"
    BY EraseIs
  <2>2. todo = Rest(ws, n)
    BY <1>2 DEF ErasingScript
  <2> HIDE DEF ws
  <2>3. n \in 0 .. Len(ws) - 1 /\ n + 1 \in {1, 2}
    BY <2>1
  <2>4. Head(todo) = ws[n + 1]
    BY <2>1, <2>2, <2>3, RestWrite
  <2>5. QED
    BY <2>1, <2>3, <2>4
<1>3. ASSUME NEW cmd \in Commands, NEW u \in Bytes,
             NEW n \in 0 .. Len(InitWrites(u, cmd)) - 1, AddingCommand(u, cmd, n)
      PROVE  FALSE
  <2> DEFINE L  == Len(cmd)
             ws == InitWrites(u, cmd)
  <2>1. /\ L \in Nat /\ ws \in Seq(Writes) /\ Len(ws) = 2 * L + 3
        /\ \A k \in 1 .. 2 * L + 1 : ws[k].of = "text"
        /\ ws[2 * L + 2].of = "used" /\ ws[2 * L + 3].of = "used"
    BY InitWritesTo
  <2>2. todo = Rest(ws, n) /\ n \in 0 .. Len(ws) - 1
    BY <1>3 DEF AddingCommand
  <2> HIDE DEF L, ws
  <2>3. n + 1 \in 1 .. 2 * L + 1 \/ n + 1 = 2 * L + 2 \/ n + 1 = 2 * L + 3
    BY <2>1, <2>2
  <2>4. Head(todo) = ws[n + 1]
    BY <2>1, <2>2, RestWrite
  <2>5. QED
    BY <2>1, <2>3, <2>4
<1>4. ASSUME NEW c \in Bytes, NEW r \in Records, AddingSfp(c, r, 4)
      PROVE  FALSE
  <2> DEFINE ws == SfpWrites(c, r)
  <2>1. ws \in Seq(Writes) /\ Len(ws) = 5 /\ ws[5].of = "count"
    <3>1. ws[5] = [to |-> EE_BASE_SFP, byte |-> Uint8(c + 1), of |-> "count"]
      BY SfpWritesAre
    <3>2. ws \in Seq(Writes) /\ Len(ws) = 5
      BY SfpWritesAre
    <3>3. QED
      BY <3>1, <3>2
  <2>2. todo = Rest(ws, 4)
    BY <1>4 DEF AddingSfp
  <2> HIDE DEF ws
  <2>3. 4 \in 0 .. Len(ws) - 1 /\ 4 + 1 = 5
    BY <2>1
  <2>4. Head(todo) = ws[4 + 1]
    BY <2>1, <2>2, <2>3, RestWrite
  <2>5. QED
    BY <2>1, <2>3, <2>4
<1>5. PICK c \in Bytes, r \in Records, n \in 0 .. 4 : AddingSfp(c, r, n)
  BY <1>1, <1>2, <1>3 DEF StorageInv, Executing
<1>6. n # 4
  BY <1>4, <1>5
<1>7. n \in 0 .. 3
  BY <1>6
<1>8. QED
  BY <1>5, <1>7

\* A write that failed: of a record it leaves the count to write, of others nothing.
LEMMA WriteFailsStep == ASSUME StorageInv, WriteFails PROVE StorageInv'
<1>1. /\ todo # <<>> /\ faults < MaxFaults /\ faults' = faults + 1
      /\ UNCHANGED <<mem, match, dbsfp, script, initok>>
      /\ goal' = IF todo' = <<>> THEN NoGoal ELSE goal
  BY DEF WriteFails, Done
<1>2. faults' \in 0 .. MaxFaults
  BY <1>1, StorageAssumption DEF StorageInv, Typed, StorageAssumption
<1>3. goal' \in Goals
  BY <1>1, IdleIs DEF StorageInv, Typed
<1>4. CountOk' /\ ScriptHeld'
  BY <1>1 DEF StorageInv, CountOk, ScriptHeld, ScriptSize
<1>5. Matching'
  <2>1. match.pc # "loop"
    BY <1>1 DEF StorageInv, Matching
  <2>2. QED
    BY <1>1, <2>1 DEF Matching
<1>6. CASE Head(todo).of = "record"
  <2>1. PICK c \in Bytes, r \in Records, n \in 0 .. 3 : AddingSfp(c, r, n)
    BY <1>1, <1>6, RecordPending
  <2> DEFINE ws == SfpWrites(c, r)
  <2>2. ws \in Seq(Writes) /\ Len(ws) = 5
    BY SfpWritesAre
  <2>3. /\ todo = Rest(ws, n) /\ goal.db # <<>> /\ r.chksum = Checksum(r)
        /\ c \in 0 .. MaxSfps - 1 \/ c = ByteMax
    BY <2>1 DEF AddingSfp
  <2> HIDE DEF ws
  <2>4. n \in 0 .. Len(ws) - 1 /\ Len(ws) # 0 /\ Len(ws) - 1 = 4 /\ 4 \in 0 .. Len(ws) - 1
    BY <2>2
  <2>5. ws # <<>>
    BY <2>4, EmptySeq
  <2>6. todo[Len(todo)] = ws[Len(ws)] /\ Rest(ws, 4) = <<ws[Len(ws)]>>
    BY <2>2, <2>3, <2>4, <2>5, RestIs, RestEnds
  <2>7. todo' = Rest(ws, 4) /\ dbok' = FALSE /\ db' = <<>>
    BY <1>6, <2>6 DEF WriteFails
  <2>8. Rest(ws, 4) \in Seq(Writes) /\ Rest(ws, 4) # <<>>
    BY <2>2, <2>4, RestIs
  <2>9. goal' = goal
    BY <1>1, <2>7, <2>8
  <2>10. AddingSfp(c, r, 4)'
    BY <2>3, <2>7, <2>9 DEF AddingSfp, ws
  <2>11. Executing' /\ DbHeld'
    BY <2>7, <2>10 DEF Executing, DbHeld
  <2>12. Typed'
    <3>1. <<>> \in Seq(Records)
      BY EmptySeq
    <3>2. db' \in Seq(Records) /\ dbok' \in BOOLEAN
      BY <2>7, <3>1
    <3>3. todo' \in Seq(Writes)
      BY <2>7, <2>8
    <3>4. QED
      BY <1>1, <1>2, <1>3, <3>2, <3>3 DEF StorageInv, Typed
  <2>13. QED
    BY <1>4, <1>5, <2>11, <2>12 DEF StorageInv
<1>7. CASE Head(todo).of # "record"
  <2>1. todo' = <<>> /\ dbok' = dbok
    BY <1>7 DEF WriteFails, StorageInv, Typed
  <2>2. db' = db
    BY <2>1 DEF WriteFails, StorageInv, DbHeld
  <2>3. DbHeld'
    BY <1>1, <2>1, <2>2 DEF StorageInv, DbHeld
  <2>4. Typed'
    BY <1>1, <1>2, <1>3, <2>1, <2>2 DEF StorageInv, Typed
  <2>5. QED
    BY <1>4, <1>5, <2>1, <2>3, <2>4 DEF StorageInv, Executing
<1>8. QED
  BY <1>6, <1>7

\* A command cut short has changed nothing that is held.
LEMMA CrashStep == ASSUME StorageInv, Crash PROVE StorageInv'
<1>1. /\ todo # <<>> => faults < MaxFaults
      /\ faults' = IF todo # <<>> THEN faults + 1 ELSE faults
      /\ todo' = <<>> /\ match' = Idle /\ dbsfp' = NoRecord /\ goal' = NoGoal
      /\ UNCHANGED <<mem, db, dbok, script, initok>>
  BY DEF Crash
<1>2. faults' \in 0 .. MaxFaults
  BY <1>1, StorageAssumption DEF StorageInv, Typed, StorageAssumption
<1>3. Typed'
  BY <1>1, <1>2, IdleIs DEF StorageInv, Typed
<1>4. CountOk' /\ ScriptHeld' /\ DbHeld'
  BY <1>1 DEF StorageInv, CountOk, ScriptHeld, DbHeld, ScriptSize
<1>5. Matching' /\ Executing'
  BY <1>1, IdleIs DEF Matching, Executing
<1>6. QED
  BY <1>3, <1>4, <1>5 DEF StorageInv
-----------------------------------------------------------------------------
(* eeprom_match_sfp.                                                       *)

\* "sfp match" begins: no record was looked at.
LEMMA MatchStartStep == ASSUME StorageInv, NEW pn \in Pns, MatchStart(pn) PROVE StorageInv'
<1>1. /\ todo = <<>> /\ match' = [Idle EXCEPT !.pc = "loop", !.pn = pn, !.count = 1]
      /\ dbsfp' = NoRecord
      /\ UNCHANGED <<mem, todo, db, dbok, script, initok, goal, faults>>
  BY DEF MatchStart, histVars
<1>2. match' = [pc |-> "loop", pn |-> pn, i |-> 0, count |-> 1, missed |-> FALSE]
  BY <1>1 DEF Idle
<1>3. Int8(0) = 0 /\ 1 \in Bytes /\ pn # 0 /\ 0 \in Bytes
  <2>1. 0 \in 0 .. SfpsMax /\ 1 \in Bytes /\ 0 \in Bytes
    BY Areas DEF Bytes
  <2>2. QED
    BY <2>1, Int8Is, StorageAssumption DEF StorageAssumption
<1>4. match' \in Matches /\ match'.i = Int8(match'.i) /\ dbsfp' \in Records
  BY <1>1, <1>2, <1>3, IdleIs DEF Matches
<1>5. Typed'
  BY <1>1, <1>4 DEF StorageInv, Typed
<1>6. CountOk' /\ ScriptHeld' /\ DbHeld'
  BY <1>1 DEF StorageInv, CountOk, ScriptHeld, DbHeld, ScriptSize
<1>7. Executing'
  BY <1>1 DEF Executing
<1>8. Matching'
  <2>1. match'.i = 0 /\ match'.count = 1 /\ match'.pn = pn
    BY <1>2
  <2>2. dbsfp'.pn = 0
    BY <1>1 DEF NoRecord
  <2>3. todo' = <<>> /\ 0 \in 0 .. 1 /\ \A k \in 1 .. 0 : db'[k].pn # pn
    BY <1>1
  <2>4. QED
    BY <1>3, <2>1, <2>2, <2>3 DEF Matching
<1>9. QED
  BY <1>5, <1>6, <1>7, <1>8 DEF StorageInv

\* The loop is over.
LEMMA MatchEndStep == ASSUME StorageInv, MatchEnd PROVE StorageInv'
<1>1. /\ match.pc = "loop" /\ match' = [match EXCEPT !.pc = "nomatch"]
      /\ UNCHANGED <<mem, todo, dbsfp, db, dbok, script, initok, goal, faults>>
  BY DEF MatchEnd, histVars
<1>2. match' \in Matches /\ match'.i = match.i /\ match'.pc = "nomatch"
  BY <1>1 DEF StorageInv, Typed, Matches
<1>3. Typed'
  BY <1>1, <1>2 DEF StorageInv, Typed
<1>4. CountOk' /\ ScriptHeld' /\ DbHeld'
  BY <1>1 DEF StorageInv, CountOk, ScriptHeld, DbHeld, ScriptSize
<1>5. Matching'
  BY <1>2 DEF Matching
<1>6. Executing'
  BY <1>1 DEF Matching, Executing, StorageInv
<1>7. QED
  BY <1>3, <1>4, <1>5, <1>6 DEF StorageInv

\* The ways a turn changes the local variables.
LEMMA MatchTurns ==
    ASSUME NEW m \in Matches, NEW b \in BOOLEAN
    PROVE  /\ [m EXCEPT !.pc = "nomatch", !.missed = b]
                = [pc |-> "nomatch", pn |-> m.pn, i |-> m.i, count |-> m.count, missed |-> b]
           /\ [m EXCEPT !.pc = "matched"]
                = [pc |-> "matched", pn |-> m.pn, i |-> m.i, count |-> m.count,
                   missed |-> m.missed]
<1>1. ASSUME NEW q \in Matches
      PROVE  q = [pc |-> q.pc, pn |-> q.pn, i |-> q.i, count |-> q.count, missed |-> q.missed]
  BY DEF Matches
<1> DEFINE x == [m EXCEPT !.pc = "nomatch", !.missed = b]
           y == [m EXCEPT !.pc = "matched"]
<1>2. x \in Matches /\ x.pc = "nomatch" /\ x.pn = m.pn /\ x.i = m.i /\ x.count = m.count
      /\ x.missed = b
  BY DEF Matches
<1>3. y \in Matches /\ y.pc = "matched" /\ y.pn = m.pn /\ y.i = m.i /\ y.count = m.count
      /\ y.missed = m.missed
  BY DEF Matches
<1> HIDE DEF x, y
<1>5. x = [pc |-> "nomatch", pn |-> m.pn, i |-> m.i, count |-> m.count, missed |-> b]
  BY <1>1, <1>2
<1>6. y = [pc |-> "matched", pn |-> m.pn, i |-> m.i, count |-> m.count, missed |-> m.missed]
  BY <1>1, <1>3
<1>7. QED
  BY <1>5, <1>6 DEF x, y

\* ... and what it is when it goes on.
LEMMA MatchGoesOn ==
    ASSUME NEW m \in Matches, NEW j \in Int, NEW c \in Bytes, NEW b \in BOOLEAN
    PROVE  [m EXCEPT !.i = j, !.count = c, !.missed = b]
             = [pc |-> m.pc, pn |-> m.pn, i |-> j, count |-> c, missed |-> b]
<1>1. ASSUME NEW q \in Matches
      PROVE  q = [pc |-> q.pc, pn |-> q.pn, i |-> q.i, count |-> q.count, missed |-> q.missed]
  BY DEF Matches
<1> DEFINE z == [m EXCEPT !.i = j, !.count = c, !.missed = b]
<1>2. z \in Matches /\ z.pc = m.pc /\ z.pn = m.pn /\ z.i = j /\ z.count = c /\ z.missed = b
  BY DEF Matches
<1> HIDE DEF z
<1>3. z = [pc |-> m.pc, pn |-> m.pn, i |-> j, count |-> c, missed |-> b]
  BY <1>1, <1>2
<1>4. QED
  BY <1>3 DEF z

\* eeprom_get_sfp: what it returns is a record.
LEMMA GetSfpIs ==
    ASSUME StorageInv, NEW pos \in Bytes
    PROVE  GetSfp(pos).sfp \in Records /\ GetSfp(pos).rv \in Int
<1>1. mem \in Memories /\ dbsfp \in Records /\ pos \in Nat
  BY DEF StorageInv, Typed, Bytes
<1>2. mem[EE_BASE_SFP] \in Int
  BY <1>1, Areas, InAddresses DEF Memories, Bytes
<1>3. CASE pos >= SfpsMax
  BY <1>1, <1>3 DEF GetSfp, EE_RET_POSERR
<1>4. CASE ~(pos >= SfpsMax) /\ (pos = 0 /\ mem[EE_BASE_SFP] = 0)
  BY <1>1, <1>4 DEF GetSfp
<1>5. CASE ~(pos >= SfpsMax) /\ ~(pos = 0 /\ mem[EE_BASE_SFP] = 0)
  <2>1. RecordIn(pos) \in Records
    <3>1. RecordAt(pos) = 4 * pos + 2
      BY <1>1, Areas DEF RecordAt, RecSize
    <3>2. RecordAt(pos) .. RecordAt(pos) + 3 \subseteq Addresses
      BY <1>1, <1>5, <3>1, Areas, InAddresses
    <3>3. /\ mem[RecordAt(pos)] \in Bytes /\ mem[RecordAt(pos) + 1] \in Bytes
          /\ mem[RecordAt(pos) + 2] \in Bytes /\ mem[RecordAt(pos) + 3] \in Bytes
      BY <1>1, <3>1, <3>2 DEF Memories
    <3>4. QED
      BY <3>3 DEF RecordIn, Records
  <2>2. GetSfp(pos) = [sfp |-> RecordIn(pos),
                       rv  |-> IF Checksum(RecordIn(pos)) # RecordIn(pos).chksum
                               THEN EE_RET_CORRPT ELSE mem[EE_BASE_SFP]]
    BY <1>5 DEF GetSfp
  <2>3. QED
    BY <1>2, <2>1, <2>2 DEF EE_RET_CORRPT
<1>6. QED
  BY <1>3, <1>4, <1>5

\* ... and on a sound database the record at pos, with the number of records.
LEMMA GetSfpSound ==
    ASSUME AreasApart, StorageInv, dbok
    PROVE  /\ Len(db) \in Nat /\ Len(db) <= MaxSfps
           /\ Len(db) = 0 => GetSfp(0) = [sfp |-> dbsfp, rv |-> 0]
           /\ \A pos \in 0 .. Len(db) - 1 : GetSfp(pos) = [sfp |-> db[pos + 1], rv |-> Len(db)]
<1>1. /\ db \in Seq(Records) /\ Len(db) \in Nat /\ Len(db) <= MaxSfps
      /\ mem[EE_BASE_SFP] = Len(db)
      /\ \A k \in 1 .. Len(db) : RecordOf(mem, k - 1) = db[k] /\ db[k].chksum = Checksum(db[k])
  BY LenProperties DEF StorageInv, Typed, DbHeld, HoldsDb
<1>2. ASSUME Len(db) = 0
      PROVE  GetSfp(0) = [sfp |-> dbsfp, rv |-> 0]
  <2>1. ~(0 >= SfpsMax) /\ mem[EE_BASE_SFP] = 0
    BY <1>1, <1>2, Areas
  <2>2. QED
    BY <2>1 DEF GetSfp
<1>3. ASSUME NEW pos \in 0 .. Len(db) - 1
      PROVE  GetSfp(pos) = [sfp |-> db[pos + 1], rv |-> Len(db)]
  <2>1. ~(pos >= SfpsMax) /\ mem[EE_BASE_SFP] # 0 /\ pos + 1 \in 1 .. Len(db) /\ (pos + 1) - 1 = pos
    BY <1>1, Areas DEF AreasApart
  <2>2. RecordIn(pos) = db[pos + 1]
    <3>1. RecordIn(pos) = RecordOf(mem, pos)
      BY DEF RecordIn, RecordOf
    <3>2. RecordOf(mem, (pos + 1) - 1) = db[pos + 1]
      BY <1>1, <2>1
    <3>3. QED
      BY <2>1, <3>1, <3>2
  <2>3. Checksum(RecordIn(pos)) = RecordIn(pos).chksum
    BY <1>1, <2>1, <2>2
  <2>4. GetSfp(pos) = [sfp |-> RecordIn(pos),
                       rv  |-> IF Checksum(RecordIn(pos)) # RecordIn(pos).chksum
                               THEN EE_RET_CORRPT ELSE mem[EE_BASE_SFP]]
    BY <2>1 DEF GetSfp
  <2>5. QED
    BY <1>1, <2>2, <2>3, <2>4
<1>4. QED
  BY <1>1, <1>2, <1>3

\* What MatchFinds says of a step.
MatchRight ==
    match.pc = "loop" /\ dbok =>
      /\ match'.pc = "matched" =>
           \E k \in DOMAIN db : db[k].pn = match.pn /\ dbsfp' = db[k]
      /\ match'.pc = "nomatch" /\ ~match'.missed =>
           \A k \in DOMAIN db : db[k].pn # match.pn

\* A turn of the loop: record i is looked at, the first turn takes the count.
LEMMA MatchTurnStep ==
    ASSUME AreasApart, StorageInv, MatchTurn
    PROVE  StorageInv' /\ MatchRight
<1>1. /\ match.pc = "loop" /\ match.i < match.count
      /\ UNCHANGED <<mem, todo, db, dbok, script, initok, goal, faults>>
  BY DEF MatchTurn, histVars
<1> DEFINE Got(ok) == IF ok THEN GetSfp(Uint8(match.i))
                            ELSE [sfp |-> dbsfp, rv |-> EE_RET_I2CERR]
           Gives(ok, got, count) ==
             /\ dbsfp' = got.sfp
             /\ match' =
                  IF match.i = 0 /\ count \in {0, ByteMax}
                  THEN [match EXCEPT !.pc = "nomatch", !.missed = ~ok]
                  ELSE IF got.sfp.pn = match.pn
                  THEN [match EXCEPT !.pc = "matched"]
                  ELSE [match EXCEPT !.i = Int8(@ + 1), !.count = count,
                                     !.missed = @ \/ ~ok]
<1>2. PICK ok \in {TRUE, ~Nacks} : Gives(ok, Got(ok), SfpCount(Got(ok).rv))
  BY DEF MatchTurn
<1> DEFINE got   == Got(ok)
           count == SfpCount(got.rv)
           i     == match.i
           pn    == match.pn
<1>3. Gives(ok, got, count)
  BY <1>2
<1>4. /\ match \in Matches /\ i \in Int /\ match.count \in Bytes /\ match.missed \in BOOLEAN
      /\ dbsfp \in Records /\ ok \in BOOLEAN
  BY StorageAssumption DEF StorageInv, Typed, Matches, StorageAssumption
<1>5. Uint8(i) \in Bytes /\ (i \in Bytes => Uint8(i) = i)
  BY <1>4, Uint8Is
<1>6. got.sfp \in Records /\ got.rv \in Int
  BY <1>4, <1>5, GetSfpIs DEF EE_RET_I2CERR
<1>7. /\ count = IF i = 0 THEN Uint8(Int8(got.rv)) ELSE match.count
      /\ count \in Bytes
  <2>1. Uint8(Int8(got.rv)) \in Bytes
    BY <1>6, Int8Is, Uint8Is
  <2>2. QED
    BY <1>4, <2>1 DEF SfpCount
<1>8. /\ todo = <<>> /\ pn \in Pns /\ dbsfp.pn # pn
      /\ dbok => /\ i \in 0 .. match.count
                 /\ match.count = IF i = 0 THEN 1 ELSE Len(db)
                 /\ ~match.missed => \A k \in 1 .. i : db[k].pn # pn
  BY <1>1 DEF StorageInv, Matching
<1>9. dbok =>
        /\ Len(db) \in Nat /\ Len(db) <= MaxSfps /\ i \in Nat
        /\ ok /\ Len(db) = 0 => i = 0 /\ count = 0 /\ got.sfp = dbsfp
        /\ ok /\ Len(db) # 0 => /\ got.sfp = db[i + 1] /\ i + 1 \in 1 .. Len(db)
                                /\ count = Len(db)
        /\ ~ok => /\ got.sfp = dbsfp
                  /\ i = 0 => count = ByteMax
                  /\ i # 0 => count = Len(db) /\ i + 1 \in 1 .. Len(db)
  <2> SUFFICES ASSUME dbok
               PROVE  /\ Len(db) \in Nat /\ Len(db) <= MaxSfps /\ i \in Nat
                      /\ ok /\ Len(db) = 0 => i = 0 /\ count = 0 /\ got.sfp = dbsfp
                      /\ ok /\ Len(db) # 0 => /\ got.sfp = db[i + 1] /\ i + 1 \in 1 .. Len(db)
                                              /\ count = Len(db)
                      /\ ~ok => /\ got.sfp = dbsfp
                                /\ i = 0 => count = ByteMax
                                /\ i # 0 => count = Len(db) /\ i + 1 \in 1 .. Len(db)
    OBVIOUS
  <2>1. /\ Len(db) \in Nat /\ Len(db) <= MaxSfps
        /\ Len(db) = 0 => GetSfp(0) = [sfp |-> dbsfp, rv |-> 0]
        /\ \A pos \in 0 .. Len(db) - 1 : GetSfp(pos) = [sfp |-> db[pos + 1], rv |-> Len(db)]
    BY GetSfpSound
  <2>2. /\ i \in Nat /\ match.count = (IF i = 0 THEN 1 ELSE Len(db))
        /\ i # 0 => i + 1 \in 1 .. Len(db)
    BY <1>1, <1>4, <1>8, <2>1 DEF Bytes
  <2>3. i = 0 \/ i \in 0 .. Len(db) - 1
    BY <2>1, <2>2
  <2>4. Uint8(i) = i
    <3>1. i \in Bytes
      BY <2>1, <2>2, Areas DEF Bytes
    <3>2. QED
      BY <1>5, <3>1
  <2>5. Uint8(Int8(0)) = 0 /\ Uint8(Int8(Len(db))) = Len(db) /\ Uint8(Int8(-1)) = ByteMax
    <3>1. 0 \in Bytes /\ Len(db) \in Bytes
      BY <2>1, Areas DEF Bytes
    <3>2. QED
      BY <3>1, Int8Is DEF Bytes
  <2>6. ASSUME ok, Len(db) = 0
        PROVE  i = 0 /\ count = 0 /\ got.sfp = dbsfp
    <3>1. i = 0
      BY <2>2, <2>6
    <3>2. got = [sfp |-> dbsfp, rv |-> 0]
      BY <2>1, <2>4, <2>6, <3>1
    <3>3. QED
      BY <1>7, <2>5, <3>1, <3>2
  <2>7. ASSUME ok, Len(db) # 0
        PROVE  got.sfp = db[i + 1] /\ i + 1 \in 1 .. Len(db) /\ count = Len(db)
    <3>1. i \in 0 .. Len(db) - 1
      BY <2>1, <2>3, <2>7
    <3>2. got = [sfp |-> db[i + 1], rv |-> Len(db)]
      BY <2>1, <2>4, <2>7, <3>1
    <3>3. count = Len(db)
      BY <1>7, <2>2, <2>5, <3>2
    <3>4. QED
      BY <2>1, <3>1, <3>2, <3>3
  <2>8. ASSUME ~ok
        PROVE  /\ got.sfp = dbsfp /\ (i = 0 => count = ByteMax)
               /\ i # 0 => count = Len(db) /\ i + 1 \in 1 .. Len(db)
    <3>1. got = [sfp |-> dbsfp, rv |-> -1]
      BY <2>8 DEF EE_RET_I2CERR
    <3>2. QED
      BY <1>7, <2>2, <2>5, <3>1
  <2>9. QED
    BY <2>1, <2>2, <2>6, <2>7, <2>8
<1> HIDE DEF Got, got, count
<1>10. CountOk' /\ ScriptHeld' /\ DbHeld' /\ Executing'
  BY <1>1, <1>8 DEF StorageInv, CountOk, ScriptHeld, DbHeld, ScriptSize, Executing
<1>11. ASSUME match' \in Matches, match'.i = Int8(match'.i)
       PROVE  Typed'
  BY <1>1, <1>3, <1>6, <1>11 DEF StorageInv, Typed
<1>12. db \in Seq(Records) /\ DOMAIN db = 1 .. Len(db) /\ i = Int8(i)
  BY LenProperties DEF StorageInv, Typed
<1>13. CASE i = 0 /\ count \in {0, ByteMax}
  <2>1. match' = [pc |-> "nomatch", pn |-> pn, i |-> i, count |-> match.count, missed |-> ~ok]
    BY <1>3, <1>4, <1>13, MatchTurns
  <2>2. match' \in Matches /\ match'.i = i /\ match'.pc = "nomatch" /\ match'.missed = ~ok
    BY <1>4, <2>1 DEF Matches
  <2>3. ASSUME dbok, ok
        PROVE  Len(db) = 0
    <3>1. Len(db) \in Nat /\ Len(db) <= MaxSfps /\ (Len(db) # 0 => count = Len(db))
      BY <1>9, <2>3
    <3>2. Len(db) # 0 => Len(db) \in {0, ByteMax}
      BY <1>13, <3>1
    <3>3. Len(db) # ByteMax
      BY ONLY <3>1, Areas
    <3>4. QED
      BY <3>2, <3>3
  <2>4. MatchRight
    <3>1. ASSUME dbok, ~match'.missed
          PROVE  \A k \in DOMAIN db : db[k].pn # match.pn
      <4>1. ok
        BY <1>4, <2>2, <3>1
      <4>2. DOMAIN db = {}
        BY <1>12, <2>3, <3>1, <4>1
      <4>3. QED
        BY <4>2
    <3>2. match'.pc # "matched"
      BY <2>2
    <3>3. QED
      BY <3>1, <3>2 DEF MatchRight
  <2>5. Typed' /\ Matching'
    BY <1>11, <1>12, <2>2 DEF Matching
  <2>6. QED
    BY <1>10, <2>4, <2>5 DEF StorageInv
<1>14. CASE ~(i = 0 /\ count \in {0, ByteMax}) /\ got.sfp.pn = pn
  <2>1. match' = [pc |-> "matched", pn |-> pn, i |-> i, count |-> match.count,
                  missed |-> match.missed]
    BY <1>3, <1>4, <1>14, MatchTurns
  <2>2. match' \in Matches /\ match'.i = i /\ match'.pc = "matched"
    BY <1>4, <2>1 DEF Matches
  <2>3. MatchRight
    <3>1. ASSUME dbok
          PROVE  \E k \in DOMAIN db : db[k].pn = match.pn /\ dbsfp' = db[k]
      <4>1. got.sfp # dbsfp
        BY <1>8, <1>14
      <4>2. got.sfp = db[i + 1] /\ i + 1 \in 1 .. Len(db)
        BY <1>4, <1>9, <3>1, <4>1
      <4>3. QED
        BY <1>3, <1>12, <1>14, <4>2
    <3>2. QED
      BY <2>2, <3>1 DEF MatchRight
  <2>4. Typed' /\ Matching'
    BY <1>11, <1>12, <2>2 DEF Matching
  <2>5. QED
    BY <1>10, <2>3, <2>4 DEF StorageInv
<1>15. CASE ~(i = 0 /\ count \in {0, ByteMax}) /\ got.sfp.pn # pn
  <2> DEFINE j == Int8(i + 1)
             b == match.missed \/ ~ok
  <2>1. j \in Int /\ Int8(j) = j /\ b \in BOOLEAN
    BY <1>4, Int8Is
  <2>2. match' = [match EXCEPT !.i = j, !.count = count, !.missed = b]
    BY <1>3, <1>15
  <2>3. dbok => j = i + 1
    <3>1. dbok => i + 1 \in 0 .. SfpsMax
      BY <1>9, <1>15, Areas
    <3>2. QED
      BY <1>4, <3>1, Int8Is
  <2> HIDE DEF j, b
  <2>4. match' = [pc |-> "loop", pn |-> pn, i |-> j, count |-> count, missed |-> b]
    <3>1. match \in Matches /\ j \in Int /\ count \in Bytes /\ b \in BOOLEAN
      BY <1>4, <1>7, <2>1
    <3>2. [match EXCEPT !.i = j, !.count = count, !.missed = b]
            = [pc |-> match.pc, pn |-> match.pn, i |-> j, count |-> count, missed |-> b]
      BY ONLY <3>1, MatchGoesOn, Zenon
    <3>3. QED
      BY ONLY <1>1, <2>2, <3>2
  <2>5. match' \in Matches /\ match'.i = j /\ match'.pc = "loop" /\ match'.pn = pn
        /\ match'.count = count /\ match'.missed = b
    BY <1>4, <1>7, <2>1, <2>4 DEF Matches
  <2>6. MatchRight
    BY <2>5 DEF MatchRight
  <2>7. Typed'
    BY <1>11, <2>1, <2>5
  <2>8. ASSUME dbok
        PROVE  /\ j \in 0 .. count /\ count = IF j = 0 THEN 1 ELSE Len(db)
               /\ ~b => \A k \in 1 .. j : db[k].pn # pn
    <3>1. i \in Nat /\ Len(db) \in Nat /\ j = i + 1
      BY <1>9, <2>3, <2>8
    <3>2. count = Len(db) /\ i + 1 \in 1 .. Len(db)
      BY <1>4, <1>9, <1>15, <2>8
    <3>3. ASSUME ~b, NEW k \in 1 .. j
          PROVE  db[k].pn # pn
      <4>1. ok /\ ~match.missed
        BY <1>4, <3>3 DEF b
      <4>2. CASE k = i + 1
        <5>1. got.sfp = db[i + 1]
          BY <1>9, <2>8, <3>1, <3>2, <4>1
        <5>2. QED
          BY <1>15, <4>2, <5>1
      <4>3. CASE k \in 1 .. i
        BY <1>8, <2>8, <4>1, <4>3
      <4>4. QED
        BY <3>1, <4>2, <4>3
    <3>4. QED
      BY <3>1, <3>2, <3>3
  <2>9. Matching'
    <3>1. todo' = <<>> /\ dbsfp'.pn # pn /\ dbok' = dbok /\ db' = db
      BY <1>1, <1>3, <1>8, <1>15
    <3>2. QED
      BY <1>8, <2>5, <2>8, <3>1 DEF Matching
  <2>10. QED
    BY <1>10, <2>6, <2>7, <2>9 DEF StorageInv
<1>16. QED
  BY <1>13, <1>14, <1>15
\* The loop is over when every record was looked at.
LEMMA MatchEndRight == ASSUME AreasApart, StorageInv, MatchEnd PROVE MatchRight
<1>1. /\ match.pc = "loop" /\ match.i >= match.count
      /\ match' = [match EXCEPT !.pc = "nomatch"]
  BY DEF MatchEnd
<1>2. match \in Matches /\ match'.pc = "nomatch" /\ match'.missed = match.missed
  BY <1>1 DEF StorageInv, Typed, Matches
<1>3. match.i \in Int /\ match.count \in Int
  BY <1>2, Areas DEF Matches, Bytes
<1>4. ASSUME dbok, ~match'.missed
      PROVE  \A k \in DOMAIN db : db[k].pn # match.pn
  <2>1. /\ match.i \in 0 .. match.count
        /\ match.count = IF match.i = 0 THEN 1 ELSE Len(db)
        /\ \A k \in 1 .. match.i : db[k].pn # match.pn
    BY <1>1, <1>2, <1>4 DEF StorageInv, Matching
  <2>2. match.i = match.count
    BY <1>1, <1>3, <2>1
  <2>3. match.i # 0
    BY <2>1, <2>2
  <2>4. match.i = Len(db)
    BY <2>1, <2>2, <2>3
  <2>5. DOMAIN db = 1 .. Len(db)
    BY LenProperties DEF StorageInv, Typed
  <2>6. QED
    BY <2>1, <2>4, <2>5
<1>5. QED
  BY <1>2, <1>4 DEF MatchRight

\* A step of another action, or none, neither finds nor misses a record.
LEMMA MatchElsewhere ==
    ASSUME match.pc # "loop" \/ match'.pc \notin {"matched", "nomatch"}
    PROVE  MatchRight
BY DEF MatchRight

-----------------------------------------------------------------------------
(* The theorems.                                                           *)

\* A blank chip holds no database and a script of size 0xffff.
LEMMA StorageInit == Init => StorageInv
<1> SUFFICES ASSUME Init
             PROVE  StorageInv
  OBVIOUS
<1>1. /\ mem = [a \in Addresses |-> ByteMax] /\ dbok = FALSE /\ initok = FALSE
      /\ todo = <<>> /\ match = Idle /\ dbsfp = NoRecord /\ db = <<>> /\ script = <<>>
      /\ goal = NoGoal /\ faults = 0
  BY DEF Init
<1>2. ByteMax \in Bytes /\ EE_BASE_SFP \in Addresses /\ EE_BASE_INIT \in Addresses
      /\ ByteMax # 0
  BY Areas, InAddresses DEF Bytes
<1>3. mem \in Memories /\ mem[EE_BASE_SFP] = ByteMax /\ mem[EE_BASE_INIT] # 0
  BY <1>1, <1>2 DEF Memories
<1>4. ScriptSize # 0
  BY <1>3, SizeIs DEF ScriptSize, SizeOf
<1>5. faults \in 0 .. MaxFaults
  BY <1>1, StorageAssumption DEF StorageAssumption
<1>6. Typed
  <2>1. todo \in Seq(Writes) /\ db \in Seq(Records) /\ script \in Seq(Seq(Bytes))
    BY <1>1
  <2>2. match \in Matches /\ match.i = Int8(match.i) /\ dbsfp \in Records /\ goal \in Goals
    BY <1>1, IdleIs
  <2>3. dbok \in BOOLEAN /\ initok \in BOOLEAN
    BY <1>1
  <2>4. QED
    BY <1>3, <1>5, <2>1, <2>2, <2>3 DEF Typed
<1>7. CountOk /\ DbHeld /\ ScriptHeld /\ Executing
  BY <1>1, <1>3, <1>4 DEF CountOk, DbHeld, ScriptHeld, Executing
<1>8. Matching
  BY <1>1, IdleIs DEF Matching
<1>9. QED
  BY <1>6, <1>7, <1>8 DEF StorageInv

\* Nothing happens.
LEMMA StorageStutter == ASSUME StorageInv, UNCHANGED vars PROVE StorageInv'
BY DEF vars, histVars, StorageInv, Typed, CountOk, DbHeld, ScriptHeld, ScriptSize,
  Executing, ErasingDb, AddingSfp, ErasingScript, AddingCommand, Matching

\* Every action leaves the invariant true, and only the last two can be wrong
\* about a record.
LEMMA StorageNext ==
    ASSUME AreasApart, StorageInv, [Next]_vars
    PROVE  StorageInv' /\ MatchRight
<1>1. CASE SfpErase
  BY <1>1, SfpEraseStep, MatchElsewhere DEF SfpErase, Command
<1>2. CASE InitErase
  BY <1>2, InitEraseStep, MatchElsewhere DEF InitErase, Command
<1>3. CASE \E pn \in Pns, par \in Params : SfpAdd(pn, par)
  BY <1>3, SfpAddStep, MatchElsewhere DEF SfpAdd, Command
<1>4. CASE \E cmd \in Commands : InitAdd(cmd)
  BY <1>4, InitAddStep, MatchElsewhere DEF InitAdd, Command
<1>5. CASE WriteByte
  <2>1. match.pc # "loop"
    BY <1>5 DEF WriteByte, StorageInv, Matching
  <2>2. QED
    BY <1>5, <2>1, WriteByteStep, MatchElsewhere
<1>6. CASE WriteFails
  <2>1. match.pc # "loop"
    BY <1>6 DEF WriteFails, StorageInv, Matching
  <2>2. QED
    BY <1>6, <2>1, WriteFailsStep, MatchElsewhere
<1>7. CASE Crash
  <2>1. match'.pc = "idle"
    BY <1>7, IdleIs DEF Crash
  <2>2. QED
    BY <1>7, <2>1, CrashStep, MatchElsewhere
<1>8. CASE \E pn \in Pns : MatchStart(pn)
  <2>1. match.pc # "loop"
    BY <1>8 DEF MatchStart
  <2>2. QED
    BY <1>8, <2>1, MatchStartStep, MatchElsewhere
<1>9. CASE MatchTurn
  BY <1>9, MatchTurnStep
<1>10. CASE MatchEnd
  BY <1>10, MatchEndStep, MatchEndRight
<1>11. CASE UNCHANGED vars
  <2>1. match.pc # "loop" \/ match'.pc \notin {"matched", "nomatch"}
    BY <1>11 DEF vars
  <2>2. QED
    BY <1>11, <2>1, StorageStutter, MatchElsewhere
<1>12. QED
  BY <1>1, <1>2, <1>3, <1>4, <1>5, <1>6, <1>7, <1>8, <1>9, <1>10, <1>11 DEF Next

(***************************************************************************)
(* Between any two bytes, and at the end of any sequence of commands,      *)
(* faults and restarts: the memory holds the whole database and the whole  *)
(* script, the bytes that eeprom_get_sfp and eeprom_init_add still have to *)
(* write are the rest of one command, and eeprom_match_sfp has looked at   *)
(* the records before the one it has come to.                              *)
(***************************************************************************)
THEOREM StorageInvariant == AreasApart => (Spec => []StorageInv)
<1> SUFFICES ASSUME AreasApart
             PROVE  Spec => []StorageInv
  OBVIOUS
<1>1. Init => StorageInv
  BY StorageInit
<1>2. StorageInv /\ [Next]_vars => StorageInv'
  BY StorageNext
<1>3. QED
  BY <1>1, <1>2, PTL DEF Spec

\* The invariant says what the run checks.
LEMMA InvSound == ASSUME AreasApart, StorageInv PROVE StorageSound
<1>1. TypeOK
  <2>1. \A k \in DOMAIN todo : todo[k] \in Writes
    BY LenProperties, ElementOfSeq DEF StorageInv, Typed
  <2>2. match.pc \in {"idle", "loop", "matched", "nomatch"} /\ match.count \in Bytes
    BY DEF StorageInv, Typed, Matches
  <2>3. QED
    BY <2>1, <2>2 DEF TypeOK, StorageInv, Typed, Memories, Writes
<1>2. DbSound
  <2> SUFFICES ASSUME dbok
               PROVE  /\ mem[EE_BASE_SFP] = Len(db)
                      /\ \A k \in DOMAIN db : RecordIn(k - 1) = db[k]
    BY DEF DbSound
  <2>1. HoldsDb(mem, db) /\ DOMAIN db = 1 .. Len(db)
    BY LenProperties DEF StorageInv, Typed, DbHeld
  <2>2. \A k : RecordIn(k - 1) = RecordOf(mem, k - 1)
    BY DEF RecordIn, RecordOf
  <2>3. QED
    BY <2>1, <2>2 DEF HoldsDb
<1>3. BootRunsScript
  BY BootRuns DEF BootRunsScript, StorageInv, Typed, ScriptHeld
<1>4. QED
  BY <1>1, <1>2, <1>3 DEF StorageSound

(***************************************************************************)
(* Whatever the moment the power or the bus fails, the database holds      *)
(* exactly the records whose "sfp add" got as far as the count, each with  *)
(* its checksum, and eeprom_init_readcmd returns at the next boot the      *)
(* lines of the commands that were added: never a part of one.             *)
(***************************************************************************)
THEOREM StorageAlwaysSound == AreasApart => (Spec => []StorageSound)
<1> SUFFICES ASSUME AreasApart
             PROVE  Spec => []StorageSound
  OBVIOUS
<1>1. Spec => []StorageInv
  BY StorageInvariant
<1>2. StorageInv => StorageSound
  BY InvSound
<1>3. QED
  BY <1>1, <1>2, PTL

(***************************************************************************)
(* eeprom_match_sfp on a sound database ends with a record of the part     *)
(* number asked for, or with none only when there is none or a read of the *)
(* EEPROM failed: the count it takes from the first turn alone, in an      *)
(* int8_t, is the number of records, and it looks at every one.            *)
(***************************************************************************)
THEOREM MatchAlwaysFinds == AreasApart => (Spec => MatchFinds)
<1> SUFFICES ASSUME AreasApart
             PROVE  Spec => MatchFinds
  OBVIOUS
<1>1. Spec => []StorageInv
  BY StorageInvariant
<1>2. StorageInv /\ [Next]_vars =>
        [match.pc = "loop" /\ dbok =>
           /\ match'.pc = "matched" =>
                \E k \in DOMAIN db : db[k].pn = match.pn /\ dbsfp' = db[k]
           /\ match'.pc = "nomatch" /\ ~match'.missed =>
                \A k \in DOMAIN db : db[k].pn # match.pn]_vars
  BY StorageNext DEF MatchRight
<1>3. QED
  BY <1>1, <1>2, PTL DEF Spec, MatchFinds
=============================================================================
