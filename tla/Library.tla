------------------------------ MODULE Library ------------------------------
(***************************************************************************)
(* The computations of the library (pp_printf/, lib/, shell/, monitor/) as *)
(* jobs: their inputs and what is checked of them.                         *)
(***************************************************************************)
EXTENDS Jobs, TextForms, Timekeeping, Frames

CONSTANTS
    Numbers,    \* arguments to print
    Octets,     \* bytes of addresses
    Years,      \* years of the calendar that are looked at
    MaxLoops,   \* bound: loops in a tic
    MaxUsec     \* bound: a time to sleep

-----------------------------------------------------------------------------
\* Inputs.

PutDigits == \E block \in 0..99 : Start([alg |-> "digits", block |-> block])

NumberFlags(base) ==
    (SUBSET {"LEFT", "PLUS", "SPACE", "SPECIAL", "ZEROPAD"})
    \X (IF base = 10 THEN {{}, {"SIGN"}} ELSE {{}})
PutNumber ==
    \E n \in Numbers, base \in {8, 10, 16}, size \in {-1, 4, 9}, precision \in {-1, 3} :
        \E f \in NumberFlags(base) :
            Start([alg |-> "number", num |-> n, base |-> base, size |-> size,
                   precision |-> precision, flags |-> f[1] \cup f[2]])

\* A directive with all it may have, and a plain one that must still get the
\* argument after those of the first.
PutText ==
    \E flag \in {<<>>, <<"0">>, <<"-">>}, width \in {<<>>, <<"5">>, <<"*">>},
       qualifier \in {<<>>, <<"l">>}, conv \in {"d", "x", "o", "u", "s", "c", "%"},
       n \in Numbers :
        Start([alg |-> "format", flag |-> flag, width |-> width,
               qualifier |-> qualifier, conv |-> conv, num |-> n])

TypeAddress == \E mac \in [1..6 -> Octets] : Start([alg |-> "address", mac |-> mac])

Put64 == \E x \in 0..(4 * Factor) : Start([alg |-> "print64", x |-> x])

Temps == [class : {"28", "42"}, cval : 0..400, remain : {0}]
         \cup [class : {"10"}, cval : 1..50, remain : 0..15]
PutTemp == \E t \in Temps : Start([alg |-> "temp", temp |-> t])

PutDate == \E year \in Years : Start([alg |-> "date", year |-> year])

Wait == \E start \in 0..(TicMod - 1), tics \in 0..((TicMod \div 2) - 1) :
    Start([alg |-> "delay", start |-> start, tics |-> tics])

CalibrateLoop == \E loops \in ((LpjStart \div 2) + 1)..MaxLoops :
    Start([alg |-> "loops", loops |-> loops])

Sleep == \E usec \in 0..MaxUsec, lpj \in {1, 7, ((IntMod \div 2) \div UsecStep) - 1} :
    Start([alg |-> "sleep", usec |-> usec, lpj |-> lpj])

SendPacket == \E n \in 0..3 : \E payload \in [1..n -> 0..(HalfwordMod - 1)] :
    Start([alg |-> "bootp", payload |-> payload])

Echo == \E len \in 4..(MaxBody + 6), body \in [1..(MaxBody + 2) -> {0, 1, OctetMod - 1}] :
    Start([alg |-> "echo", len |-> len, buf |-> <<3, 0, 1, 2>> \o body])

OpenShell == Start([alg |-> "shell", sh |-> Prompt(NewShell), before |-> <<>>, after |-> <<>>])

LibraryJobs ==
    \/ PutDigits \/ PutNumber \/ PutText \/ TypeAddress \/ Put64 \/ PutTemp \/ PutDate
    \/ Wait \/ CalibrateLoop \/ Sleep \/ SendPacket \/ Echo \/ OpenShell

-----------------------------------------------------------------------------
\* The terminal types keys; before and after are the line as its user sees it,
\* left and right of the cursor.
Keys == [left |-> <<"esc", "[", "D">>, right |-> <<"esc", "[", "C">>,
         del |-> <<"esc", "[", "3", "~">>, up |-> <<"esc", "[", "A">>,
         backspace |-> <<"backspace">>, tab |-> <<"tab">>, enter |-> <<"enter">>,
         a |-> <<"a">>, hash |-> <<"#">>, blank |-> <<" ">>]

Seen(key) ==
    LET b == job.before
        a == job.after
        full == Len(b) + Len(a) >= SH_MAX_LINE_LEN
    IN  CASE key = "left" /\ b # <<>> -> <<Front(b), <<Last(b)>> \o a>>
          [] key = "right" /\ a # <<>> -> <<Append(b, Head(a)), Tail(a)>>
          [] key = "del" /\ a # <<>> -> <<b, Tail(a)>>
          [] key = "backspace" /\ b # <<>> -> <<Front(b), a>>
          [] key \in {"a", "hash", "blank"} /\ ~full -> <<Append(b, Keys[key][1]), a>>
          [] OTHER -> <<b, a>>

TypeKey ==
    /\ job.alg = "shell" /\ job.sh.state = "input"
    /\ \E key \in DOMAIN Keys :
         job' = [job EXCEPT !.sh = FoldLeft(InputByte, @, Keys[key]),
                            !.before = Seen(key)[1], !.after = Seen(key)[2]]

NextLine ==
    /\ job.alg = "shell" /\ job.sh.state = "exec"
    /\ job' = [job EXCEPT !.sh = Prompt(@), !.before = <<>>, !.after = <<>>]

-----------------------------------------------------------------------------
(***************************************************************************)
(* The multiplications that replace the divisions of put_dec give the five *)
(* decimal digits of every number below 100000, and put_dec_trunc stops at *)
(* the last one that is not zero.                                          *)
(***************************************************************************)
DigitsExact ==
    job.alg = "digits" =>
        \A q \in (1000 * job.block)..(1000 * job.block + 999) :
            LET d == put_dec_full(q)
                t == put_dec_trunc(q)
            IN  /\ \A i \in 1..5 : d[i] \in 0..9
                /\ d[1] + 10 * d[2] + 100 * d[3] + 1000 * d[4] + 10000 * d[5] = q
                /\ IsPrefix(t, d) /\ (Last(t) # 0 \/ Len(t) = 1)
                /\ \A i \in (Len(t) + 1)..5 : d[i] = 0

\* A number as a reader takes it: blanks, a sign, the prefix of its base, digits.
ReadBack(text, base, special) ==
    LET strip(s) == SelectSeq(s, LAMBDA c : c # " ")
        t == strip(text)
        signed == t[1] \in {"-", "+"}
        u == IF signed THEN Tail(t) ELSE t
        v == IF special /\ base = 16 THEN SubSeq(u, 3, Len(u)) ELSE u
        n == TextValue(v, base)
    IN  CASE \E i \in DOMAIN v : v[i] \notin Range(HexDigits) -> -1
          [] t[1] = "-" -> (WordMod - n) % WordMod
          [] OTHER -> n

(***************************************************************************)
(* With any combination of flags, size and precision the text of a number  *)
(* reads back as that number, fills the size and is longer only if the     *)
(* number needs it, and has its blanks on one side.                        *)
(***************************************************************************)
NumberReadsBack ==
    job.alg = "number" =>
        \A text \in {number(job.num, job.base, job.size, job.precision, job.flags)} :
            /\ ReadBack(text, job.base, "SPECIAL" \in job.flags) = job.num
            /\ Len(text) = AtLeast(job.size, Len(number(job.num, job.base, -1, job.precision, job.flags)))
            /\ (text[1] = " " /\ "SPACE" \notin job.flags) => text[Len(text)] # " "

(***************************************************************************)
(* The three printf's take the same arguments for a directive, so that the *)
(* next one gets its own; and for numbers with a width and leading zeros   *)
(* the small one prints what the full one does.                            *)
(***************************************************************************)
VsprintfAgree ==
    job.alg = "format" =>
        LET next == <<"|", "%", "d">>
            fmt == <<"%">> \o job.flag \o job.width \o job.qualifier \o <<job.conv>>
            arg == [num |-> job.num, str |-> <<"t", "e", "x", "t">>]
            args == (IF job.width = <<"*">> THEN <<Num(10)>> ELSE <<>>)
                    \o (IF job.conv = "%" THEN <<>> ELSE <<arg>>) \o <<Num(42)>>
        IN  \A full \in {vsprintf_full(fmt \o next, args)}, xint \in {vsprintf_xint(fmt \o next, args)} :
            /\ IsSuffix(<<"|", "4", "2">>, full) /\ IsSuffix(<<"|", "4", "2">>, xint)
            /\ IsSuffix(vsprintf_mini(next, <<Num(42)>>, FALSE), vsprintf_mini(fmt \o next, args, FALSE))
            /\ (/\ job.conv \in {"d", "x", "o", "u"} /\ job.flag # <<"-">> /\ job.width # <<"*">>
                /\ job.conv = "u" => job.num < WordMod \div 2) => full = xint

(***************************************************************************)
(* An address that one command prints is read back by the other as the     *)
(* same address, and survives the two registers of the endpoint.           *)
(***************************************************************************)
AddressReadsBack ==
    job.alg = "address" =>
        LET ip == SubSeq(job.mac, 1, 4)
        IN  /\ decode_mac(FormatMac(job.mac)) = job.mac
            /\ decode_ip(FormatIp(ip)) = ip
            /\ get_mac_addr(set_mac_addr(job.mac)) = job.mac
            /\ atoi(vsprintf_full(<<"%", "d">>, <<Num(-job.mac[1])>>)) = -job.mac[1]

(***************************************************************************)
(* A 64-bit value reads back from the monitor's text, unless its lower     *)
(* half begins with zeros: these are not printed (monitor.c:36).           *)
(***************************************************************************)
Print64ReadsBack ==
    (job.alg = "print64" /\ (job.x < Factor \/ job.x % Factor >= Factor \div 10)) =>
        TextValue(print64(job.x), 10) = job.x

(***************************************************************************)
(* A temperature above zero reads back from its text, to all four digits,  *)
(* and is what the thermometer counted; of a DS18S20 only while the        *)
(* remainder is below a quarter degree, with whose bit it is ORed          *)
(* (w1-temp.c:51).                                                         *)
(***************************************************************************)
TempReadsBack ==
    job.alg = "temp" =>
        \A sixteenths \in {w1_read_temp(job.temp.class, job.temp.cval, job.temp.remain) \div 4096} :
        \A text \in {TempText(sixteenths * 4096)} :
        \A dot \in {CHOOSE i \in DOMAIN text : text[i] = "."} :
            /\ TextValue(SubSeq(text, 1, dot - 1), 10) = sixteenths \div 16
            /\ Len(text) = dot + 4
            /\ TextValue(From(text, dot + 1), 10) = 625 * (sixteenths % 16)
            /\ job.temp.class # "10" => sixteenths = job.temp.cval
            /\ (job.temp.class = "10" /\ job.temp.remain < 4) =>
                   sixteenths = 8 * job.temp.cval - 4 + job.temp.remain

\* The number of a day since 1 January 1970, by counting leap years.
DaysBefore(year) ==
    365 * (year - 1970) + (((year - 1) \div 4) - 492) - (((year - 1) \div 100) - 19)
    + (((year - 1) \div 400) - 4)

(***************************************************************************)
(* On every day of a year, of leap years, of 2000 and of 2100, the date    *)
(* is the right one: the days go through twelve months of the calendar in  *)
(* order, and the first of January has the day of the week that follows    *)
(* from the number of days before it.                                      *)
(***************************************************************************)
CalendarRight ==
    job.alg = "date" =>
        LET first == DaysBefore(job.year)
            n == DaysBefore(job.year + 1) - first
            t(d) == format_time(first + d)
        IN  /\ t(0) = [wday |-> (first + 4) % 7, year |-> job.year, mon |-> 0, mday |-> 1]
            /\ t(n - 1).mon = 11 /\ t(n - 1).mday = 31 /\ t(n - 1).year = job.year
            /\ t(59).mon = (IF n = 366 THEN 1 ELSE 2)
            /\ \A d \in 1..(n - 1) :
                 LET a == t(d - 1)
                     b == t(d)
                 IN  /\ b.wday = (a.wday + 1) % 7 /\ b.year = job.year
                     /\ \/ b.mon = a.mon /\ b.mday = a.mday + 1
                        \/ b.mon = a.mon + 1 /\ b.mday = 1 /\ a.mday >= 28

(***************************************************************************)
(* timer_delay waits for the tics it was given, also across the wrap of    *)
(* the timer, as long as that is less than half its range.                 *)
(***************************************************************************)
DelayExact == job.alg = "delay" => timer_delay(job.start, job.tics) = job.tics

(***************************************************************************)
(* usleep_init finds the largest loop count that is over within a tic, for *)
(* every speed of the CPU above half the count it begins with.             *)
(***************************************************************************)
LoopsCalibrated == job.alg = "loops" => usleep_init(job.loops) = job.loops - 1

(***************************************************************************)
(* usleep runs the loops that the time takes, to one per step, although    *)
(* the product of time and loops may exceed an int.                        *)
(***************************************************************************)
SleepAccurate ==
    job.alg = "sleep" =>
        LET want == (job.usec * job.lpj) \div UsecPerJiffy
            steps == (job.usec \div UsecStep) + 1
        IN  usleep(job.usec, job.lpj) \in (want - steps)..want

(***************************************************************************)
(* The BOOTP request has correct IP and UDP checksums, although the pseudo *)
(* header of the second is built where the IP header goes, and its UDP     *)
(* checksum is never the zero that means "none".                           *)
(***************************************************************************)
PacketsVerify ==
    job.alg = "bootp" =>
        LET p == send_bootp(job.payload)
            udp == SubSeq(p, 11, Len(p))
        IN  /\ Verifies(SubSeq(p, 1, 10))
            /\ Verifies(PseudoWords(1, Len(udp)) \o udp)
            /\ p[14] # 0 /\ IsSuffix(job.payload, p)

(***************************************************************************)
(* An echo reply carries the body of the request, cut to what fits, with a *)
(* checksum that verifies - for a body of odd length only if the byte in   *)
(* the buffer behind it, which is summed too (icmp.c:78), happens to be 0. *)
(***************************************************************************)
EchoVerifies ==
    job.alg = "echo" =>
        LET r == process_icmp(job.buf, job.len)
            n == Len(r)
            whole == IF n % 2 = 0 THEN r ELSE Append(r, 0)
        IN  /\ n = (IF job.len > MaxBody + 4 THEN MaxBody + 4 ELSE job.len)
            /\ SubSeq(r, 5, n) = SubSeq(job.buf, 5, n)
            /\ n % 2 = 0 \/ job.buf[n + 1] = 0 => Verifies(Pairs(whole, Len(whole) \div 2))

(***************************************************************************)
(* Whatever keys are typed, at the end, in the middle or in a full line,   *)
(* the buffer holds the line as its user sees it, with the cursor there.   *)
(***************************************************************************)
LineTyped ==
    job.alg = "shell" => Line(job.sh) = job.before \o job.after
                         /\ (job.sh.pos = Len(job.before) \/ job.sh.state = "exec")

\* The words of a line.
Words(line) ==
    LET ends == {i \in DOMAIN line : line[i] # " " /\ (i = Len(line) \/ line[i + 1] = " ")}
        StartOf(e) == CHOOSE s \in 1..e : (s = 1 \/ line[s - 1] = " ") /\ \A k \in s..e : line[k] # " "
    IN  [k \in 1..Cardinality(ends) |->
            LET e == CHOOSE x \in ends : Cardinality({y \in ends : y <= x}) = k
            IN  SubSeq(line, StartOf(e), e)]

(***************************************************************************)
(* A command gets the words of its line in order; when there are more than *)
(* the shell has room for, the last argument is the rest of the line and   *)
(* nothing typed is lost.  A comment or an empty line runs nothing.        *)
(***************************************************************************)
LineSplit ==
    (job.alg = "shell" /\ job.sh.state = "exec") =>
        LET line == Line(job.sh)
            w == Words(line)
            t == Tokens(line, 0)
            d == Dispatch(line, {<<"a">>})
        IN  /\ Len(t) = (IF Len(w) < SH_MAX_ARGS THEN Len(w) ELSE SH_MAX_ARGS)
            /\ \A i \in DOMAIN t : IsPrefix(w[i], t[i]) /\ (i < SH_MAX_ARGS => t[i] = w[i])
            /\ Len(w) > SH_MAX_ARGS => SelectSeq(FlattenSeq(t), LAMBDA c : c # " ") = FlattenSeq(w)
            /\ d.does = (CASE w = <<>> -> "nothing"
                           [] w # <<>> /\ w[1][1] = "#" -> "nothing"
                           [] w # <<>> /\ w[1] = <<"a">> -> "run"
                           [] OTHER -> "complain")
=============================================================================
