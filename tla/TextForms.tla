----------------------------- MODULE TextForms -----------------------------
(***************************************************************************)
(* What the library and the monitor turn into text, and the shell reads    *)
(* back: numbers, MAC and IP addresses, 64-bit values, temperatures and    *)
(* the calendar (lib/atoi.c, lib/util.c, shell/shell.c, cmd_mac.c,         *)
(* cmd_ip.c, dev/endpoint.c, dev/w1-temp.c, monitor/).  And the shell      *)
(* (shell/shell.c): an editor of one line, fed with the bytes of a         *)
(* terminal, and the split of the line into the command and its arguments; *)
(* the bytes of a key are told apart by name.                              *)
(***************************************************************************)
EXTENDS Printf, FiniteSets, Functions, SequencesExt

CONSTANTS
    Factor,    \* PRINT64_FACTOR: 10^9
    ByteMod,   \* 256
    SH_MAX_LINE_LEN,   \* 80
    SH_MAX_ARGS        \* 8

-----------------------------------------------------------------------------
\* Reading.

\* fromhex and fromdec: the value of the leading digits, and the rest.
LeadingNumber(s, base) ==
    LET n == Run1(s, {DigitChar(d) : d \in 0..(base - 1)})
    IN  [val |-> TextValue(SubSeq(s, 1, n), base), rest |-> From(s, n + 1)]

\* decode_mac and decode_ip: numbers with at most one separator after each.
RECURSIVE DecodeBytes(_, _, _, _)
DecodeBytes(s, base, sep, n) ==
    IF n = 0 THEN <<>>
    ELSE LET x == LeadingNumber(s, base)
             rest == IF At(x.rest, 1) = sep THEN Tail(x.rest) ELSE x.rest
         IN  <<x.val % ByteMod>> \o DecodeBytes(rest, base, sep, n - 1)

decode_mac(s) == DecodeBytes(s, 16, ":", 6)
decode_ip(s) == DecodeBytes(s, 10, ".", 4)

\* atoi
atoi(s) ==
    IF At(s, 1) = "-" THEN -LeadingNumber(Tail(s), 10).val ELSE LeadingNumber(s, 10).val

\* set_mac_addr and get_mac_addr: two registers.
set_mac_addr(mac) ==
    [macl |-> ((mac[3] * ByteMod + mac[4]) * ByteMod + mac[5]) * ByteMod + mac[6],
     mach |-> mac[1] * ByteMod + mac[2]]
Byte(word, i) == (word \div ByteMod^i) % ByteMod
get_mac_addr(r) ==
    <<Byte(r.mach, 1), Byte(r.mach, 0),
      Byte(r.macl, 3), Byte(r.macl, 2), Byte(r.macl, 1), Byte(r.macl, 0)>>

-----------------------------------------------------------------------------
\* Writing.

Fmt02x == <<"%", "0", "2", "x">>
Num(n) == [num |-> n % WordMod, str |-> <<"?">>]
FormatMac(mac) ==
    LET fmt == Fmt02x \o <<":">> \o Fmt02x \o <<":">> \o Fmt02x \o <<":">>
               \o Fmt02x \o <<":">> \o Fmt02x \o <<":">> \o Fmt02x
    IN  vsprintf_full(fmt, [i \in 1..6 |-> Num(mac[i])])
FormatIp(ip) ==
    vsprintf_full(<<"%", "d", ".", "%", "d", ".", "%", "d", ".", "%", "d">>,
                  [i \in 1..4 |-> Num(ip[i])])

\* print64: two halves, the lower one without leading zeros.
print64(x) ==
    IF x < Factor THEN vsprintf_full(<<"%", "u">>, <<Num(x)>>)
    ELSE vsprintf_full(<<"%", "u", "%", "u">>, <<Num(x \div Factor), Num(x % Factor)>>)

\* w1_read_temp, in 1/65536 degrees: a DS18S20 (class 10) counts half degrees
\* and has a remainder, which is ORed to them; a DS18B20 or DS28EA00 counts
\* sixteenths.
LOCAL INSTANCE Bitwise
w1_read_temp(class, cval, remain) ==
    CASE class = "10" -> ((8 * cval - 4) | remain) * 4096
      [] class \in {"28", "42"} -> cval * 4096
      [] OTHER -> -2147483647 - 1
\* The "%d.%04d" in which monitor and shell print it: degrees and 1/10000.
TempText(temp) ==
    vsprintf_full(<<"%", "d", ".", "%", "0", "4", "d">>,
                  <<Num(temp \div 65536), Num(((temp % 65536) * 10000) \div 65536)>>)

-----------------------------------------------------------------------------
\* format_time: the day is given as its number since 1 January 1970.

Leapyear(year) == year % 4 = 0 /\ (year % 100 # 0 \/ year % 400 = 0)
Yearsize(year) == IF Leapyear(year) THEN 366 ELSE 365
ytab(year) == <<31, IF Leapyear(year) THEN 29 ELSE 28, 31, 30, 31, 30,
                31, 31, 30, 31, 30, 31>>

RECURSIVE SplitYears(_, _)
SplitYears(dayno, year) ==
    IF dayno >= Yearsize(year) THEN SplitYears(dayno - Yearsize(year), year + 1)
    ELSE [year |-> year, yday |-> dayno]

RECURSIVE SplitMonths(_, _, _)
SplitMonths(dayno, year, mon) ==
    IF dayno >= ytab(year)[mon + 1] THEN SplitMonths(dayno - ytab(year)[mon + 1], year, mon + 1)
    ELSE [mon |-> mon, mday |-> dayno + 1]

format_time(dayno) ==
    LET y == SplitYears(dayno, 1970)
        m == SplitMonths(y.yday, y.year, 0)
    IN  [wday |-> (dayno + 4) % 7, year |-> y.year, mon |-> m.mon, mday |-> m.mday]

-----------------------------------------------------------------------------
\* The shell.

\* The editor: cmd_buf, cmd_pos, cmd_len, state and current_key, of which only
\* the ESCAPE_FLAG outlives a byte.
NewShell == [buf |-> [i \in 0..SH_MAX_LINE_LEN |-> ""], pos |-> 0, len |-> 0,
             state |-> "prompt", escape |-> FALSE]

insert(sh, c) ==
    IF sh.len >= SH_MAX_LINE_LEN THEN sh
    ELSE [sh EXCEPT !.buf = [i \in DOMAIN @ |->
                                CASE i = sh.pos -> c
                                  [] i \in (sh.pos + 1)..sh.len -> @[i - 1]
                                  [] OTHER -> @[i]],
                    !.pos = @ + 1, !.len = @ + 1]

delete(sh, where) ==
    [sh EXCEPT !.buf = [i \in DOMAIN @ |->
                           IF i \in where..(sh.len - 1) THEN @[i + 1] ELSE @[i]],
               !.len = @ - 1]

\* A byte that is not the start of an escape sequence ("esc", "[").
Key(sh, c) ==
    CASE sh.escape -> CASE c = "D" /\ sh.pos > 0 -> [sh EXCEPT !.pos = @ - 1]
                        [] c = "C" /\ sh.pos < sh.len -> [sh EXCEPT !.pos = @ + 1]
                        [] OTHER -> sh
      [] ~sh.escape /\ c = "enter" -> [sh EXCEPT !.state = "exec"]
      [] ~sh.escape /\ c = "~" -> IF sh.pos # sh.len THEN delete(sh, sh.pos) ELSE sh
      [] ~sh.escape /\ c = "backspace" ->
           IF sh.pos > 0 THEN [delete(sh, sh.pos - 1) EXCEPT !.pos = @ - 1] ELSE sh
      [] ~sh.escape /\ c = "tab" -> sh
      [] OTHER -> insert(sh, c)

\* One call of shell_interactive in SH_INPUT, with a byte read.
InputByte(sh, c) ==
    IF c = "esc" \/ (sh.escape /\ c = "[") THEN [sh EXCEPT !.escape = TRUE]
    ELSE [Key(sh, c) EXCEPT !.escape = FALSE]

Prompt(sh) == [sh EXCEPT !.pos = 0, !.len = 0, !.state = "input"]

\* The line handed to _shell_exec: the buffer up to the zero at cmd_len.
Line(sh) == [i \in 1..sh.len |-> sh.buf[i - 1]]

-----------------------------------------------------------------------------
\* _shell_exec: n tokens so far; the last one that fits keeps the rest of the
\* line, because its end is not marked any more.
RECURSIVE Tokens(_, _)
Tokens(line, n) ==
    IF n >= SH_MAX_ARGS \/ line = <<>> THEN <<>>
    ELSE IF Head(line) = " " THEN Tokens(Tail(line), n)
    ELSE LET len == IF \E i \in DOMAIN line : line[i] = " "
                    THEN (CHOOSE i \in DOMAIN line :
                             line[i] = " " /\ \A j \in 1..(i - 1) : line[j] # " ") - 1
                    ELSE Len(line)
         IN  IF n + 1 = SH_MAX_ARGS THEN <<line>>
             ELSE <<SubSeq(line, 1, len)>> \o Tokens(SubSeq(line, len + 1, Len(line)), n + 1)

\* What is done with the tokens, given the names in the command table.
Dispatch(line, commands) ==
    LET t == Tokens(line, 0)
    IN  IF t = <<>> \/ Head(Head(t)) = "#" THEN [does |-> "nothing", args |-> <<>>]
        ELSE IF Head(t) \in commands THEN [does |-> "run", args |-> Tail(t)]
        ELSE [does |-> "complain", args |-> <<>>]
=============================================================================
