------------------------------- MODULE Printf -------------------------------
(***************************************************************************)
(* pp_printf: the three implementations of pp_vsprintf (full, xint, mini). *)
(* A text is a sequence of one-character strings; an argument is a record  *)
(* [num, str] of which a conversion takes the field it needs.              *)
(***************************************************************************)
EXTENDS Integers, Sequences, SequencesExt

CONSTANTS
    WordMod,   \* 2^32: values of an unsigned int
    ShortMod   \* 2^16: values of an unsigned short

HexDigits == <<"0", "1", "2", "3", "4", "5", "6", "7", "8", "9",
               "a", "b", "c", "d", "e", "f">>
DigitChar(d) == HexDigits[d + 1]
IsDecimal(c) == \E d \in 0..9 : DigitChar(d) = c
DigitValue(c) == CHOOSE d \in 0..15 : DigitChar(d) = c
Rep(c, n) == [i \in 1..n |-> c]
AtLeast(n, m) == IF n < m THEN m ELSE n

\* The value of a text of digits, as atoi reads it.
TextValue(digits, base) ==
    FoldLeft(LAMBDA v, c : v * base + DigitValue(c), 0, digits)

-----------------------------------------------------------------------------
\* vsprintf-full.c

\* Mutated: 13/128 in place of 205/2048 for a tenth, too narrow for the first digit.
TenthNarrow(i, sum) == (sum * 13) \div 128

\* A tenth of the sum for digit i, by a multiplication in place of a division.
Tenth(i, sum) == IF i = 3 THEN (sum * 13) \div 128 ELSE (sum * 205) \div 2048

\* What the hexadecimal digits of q add to each of its decimal digits, and these
\* sums with the carries, least significant first.
HexAdds(q) ==
    LET a1 == (q \div 16) % 16
        a2 == (q \div 256) % 16
        a3 == q \div 4096
    IN  <<6 * (a3 + a2 + a1) + (q % 16), 9 * a3 + 5 * a2 + a1, 2 * a2, 4 * a3>>
Sums(adds) == FoldLeft(LAMBDA ss, i : Append(ss, Tenth(i - 1, ss[i - 1]) + adds[i]), <<adds[1]>>, <<2, 3, 4>>)

\* The five decimal digits of q; ends: after which the rest is zero.
Bcd(ss, a3) ==
    [digits |-> [i \in 1..5 |-> IF i = 5 THEN Tenth(4, ss[4]) ELSE ss[i] - 10 * Tenth(i, ss[i])],
     ends |-> <<ss[2] = 0, ss[3] = 0 /\ a3 = 0, ss[4] = 0, Tenth(4, ss[4]) = 0, TRUE>>]
put_dec_full(q) == Bcd(Sums(HexAdds(q)), q \div 4096).digits

UpToEnd(b) == SubSeq(b.digits, 1, SelectInSeq(b.ends, LAMBDA end : end))
put_dec_trunc(q) == UpToEnd(Bcd(Sums(HexAdds(q)), q \div 4096))

RECURSIVE put_dec(_)
put_dec(num) == IF num < 100000 THEN put_dec_trunc(num)
                ELSE put_dec_full(num % 100000) \o put_dec(num \div 100000)

\* The digits of a number, least significant first: divisions by the base, or
\* shifts, which come to the same.
RECURSIVE DigitsOf(_, _)
DigitsOf(num, base) ==
    IF num < base THEN <<num>> ELSE <<num % base>> \o DigitsOf(num \div base, base)

Spell(digits) == Reverse([i \in DOMAIN digits |-> DigitChar(digits[i])])

\* What number() puts around the digits: blanks or zeros up to the size.
LayOut(sign, prefix, digits, size, precision, flags) ==
    LET left == "LEFT" \in flags
        zero == "ZEROPAD" \in flags /\ ~left
        prec == AtLeast(precision, Len(digits))
        pad == AtLeast(size - Len(sign) - Len(prefix) - prec, 0)
    IN  (IF left \/ zero THEN <<>> ELSE Rep(" ", pad)) \o sign \o prefix
        \o (IF zero THEN Rep("0", pad) ELSE <<>>)
        \o Rep("0", prec - Len(digits)) \o digits \o (IF left THEN Rep(" ", pad) ELSE <<>>)

\* number(): flags is a set of names; upper-case letters are not told apart.
number(num, base, size, precision, flags) ==
    LET neg == "SIGN" \in flags /\ num >= WordMod \div 2
        val == IF neg THEN WordMod - num ELSE num
        sign == CASE neg -> <<"-">>
                  [] ~neg /\ {"SIGN", "PLUS"} \subseteq flags -> <<"+">>
                  [] ~neg /\ {"SIGN", "SPACE"} \subseteq flags /\ "PLUS" \notin flags -> <<" ">>
                  [] OTHER -> <<>>
        prefix == IF "SPECIAL" \notin flags \/ base = 10 THEN <<>>
                  ELSE IF base = 16 THEN <<"0", "x">> ELSE <<"0">>
    IN  LayOut(sign, prefix, Spell(IF base = 10 THEN put_dec(val) ELSE DigitsOf(val, base)),
               size, precision, flags)

\* string(): at most precision characters, when one was given.
string(s, field_width, precision, flags) ==
    LET text == IF precision < 0 \/ precision > Len(s) THEN s ELSE SubSeq(s, 1, precision)
        pad == Rep(" ", AtLeast(field_width - Len(text), 0))
    IN  IF "LEFT" \in flags THEN text \o pad ELSE pad \o text

FlagChar == [c \in {"-", "+", " ", "#", "0"} |->
    CASE c = "-" -> "LEFT" [] c = "+" -> "PLUS" [] c = " " -> "SPACE"
      [] c = "#" -> "SPECIAL" [] c = "0" -> "ZEROPAD"]

\* The number of characters at the start of fmt that are in the set S.
Run1(fmt, S) ==
    IF \E i \in DOMAIN fmt : fmt[i] \notin S
    THEN (CHOOSE i \in DOMAIN fmt : fmt[i] \notin S /\ \A j \in 1..(i - 1) : fmt[j] \in S) - 1
    ELSE Len(fmt)

From(fmt, i) == SubSeq(fmt, i, Len(fmt))
At(fmt, i) == IF i \in DOMAIN fmt THEN fmt[i] ELSE ""

\* A width or a precision: digits, or the next argument.  rest is the format
\* after it, used the number of arguments taken; no value is -1.
Field(fmt, args) ==
    LET n == Run1(fmt, {DigitChar(d) : d \in 0..9})
    IN  CASE n > 0 -> [val |-> TextValue(SubSeq(fmt, 1, n), 10), rest |-> From(fmt, n + 1), used |-> 0]
          [] n = 0 /\ At(fmt, 1) = "*" ->
               [val |-> LET v == Head(args).num
                        IN  IF v >= WordMod \div 2 THEN v - WordMod ELSE v,
                rest |-> Tail(fmt), used |-> 1]
          [] OTHER -> [val |-> -1, rest |-> fmt, used |-> 0]

Conversions(c) == CASE c = "o" -> [base |-> 8, flags |-> {}]
                    [] c = "x" -> [base |-> 16, flags |-> {"SMALL"}]
                    [] c \in {"d", "i"} -> [base |-> 10, flags |-> {"SIGN"}]
                    [] c = "u" -> [base |-> 10, flags |-> {}]

\* The qualifier "h": a short, with its sign extended if there is one.
Short(num, signed) ==
    LET n == num % ShortMod
    IN  IF signed /\ n >= ShortMod \div 2 THEN WordMod - ShortMod + n ELSE n

\* The parts of a directive after its "%", the last one first: the conversion, ...
Convert(fmt, args, nq, flags, width, precision) ==
    LET c == At(fmt, nq + 1)
        num == IF At(fmt, 1) = "h" THEN Short(Head(args).num, "SIGN" \in Conversions(c).flags)
               ELSE Head(args).num
        text == CASE c = "%" -> <<"%">>
                  [] c = "c" -> string(<<Head(args).str[1]>>, width, -1, flags)
                  [] c = "s" -> string(Head(args).str, width, precision, flags)
                  [] c \in {"o", "x", "d", "i", "u"} ->
                       number(num, Conversions(c).base, width, precision, flags \cup Conversions(c).flags)
    IN  [text |-> text, rest |-> From(fmt, nq + 2), args |-> From(args, IF c = "%" THEN 1 ELSE 2)]

\* ... the qualifier, ...
Qualified(fmt, args, flags, width, precision) ==
    LET nq == CASE At(fmt, 1) = "l" /\ At(fmt, 2) = "l" -> 2
                [] At(fmt, 1) \in {"h", "z", "l"} /\ At(fmt, 2) # "l" -> 1
                [] OTHER -> 0
    IN  Convert(fmt, args, nq, flags, width, precision)

\* ... the precision p, the width w, and the flags.
WithPrecision(p, args, flags, width) ==
    Qualified(p.rest, From(args, p.used + 1), flags, width, AtLeast(p.val, 0))
WithWidth(w, all, flags) ==
    LET left == w.used = 1 /\ w.val < 0
        width == IF left THEN -w.val ELSE w.val
        set == flags \cup (IF left THEN {"LEFT"} ELSE {})
        args == From(all, w.used + 1)
    IN  IF At(w.rest, 1) = "." THEN WithPrecision(Field(Tail(w.rest), args), args, set, width)
        ELSE Qualified(w.rest, args, set, width, -1)
Directive(fmt, args) ==
    LET nf == Run1(fmt, DOMAIN FlagChar)
    IN  WithWidth(Field(From(fmt, nf + 1), args), args, {FlagChar[fmt[i]] : i \in 1..nf})

RECURSIVE vsprintf_full(_, _)
TextAndRest(d) == d.text \o vsprintf_full(d.rest, d.args)
vsprintf_full(fmt, args) ==
    IF fmt = <<>> THEN <<>>
    ELSE IF Head(fmt) # "%" THEN <<Head(fmt)>> \o vsprintf_full(Tail(fmt), args)
    ELSE TextAndRest(Directive(Tail(fmt), args))

-----------------------------------------------------------------------------
\* vsprintf-xint.c

number_xint(value, base, lead, wid) ==
    LET neg == base = 10 /\ value >= WordMod \div 2
        digits == Spell(DigitsOf(IF neg THEN WordMod - value ELSE value, base))
        sign == IF neg THEN <<"-">> ELSE <<>>
        pad == Rep(lead, AtLeast(wid - Len(sign) - Len(digits), 0))
    IN  IF lead = " " THEN pad \o sign \o digits ELSE sign \o pad \o digits

\* The state while a directive is scanned: every character that is not a
\* conversion is skipped, a digit sets the width, "*" eats an argument.
RECURSIVE ScanXint(_, _, _, _, _)
RECURSIVE vsprintf_xint(_, _)
ScanXint(fmt, args, base, lead, wid) ==
    IF fmt = <<>> THEN <<>>
    ELSE LET c == Head(fmt)
             next == Tail(fmt)
         IN  CASE c = "0" -> ScanXint(next, args, base, "0", wid)
               [] c = "*" -> ScanXint(next, Tail(args), Head(args).num, lead, wid)
               [] c = "%" -> <<"%">> \o vsprintf_xint(next, args)
               [] c = "c" -> <<Head(args).str[1]>> \o vsprintf_xint(next, Tail(args))
               [] c = "s" -> Head(args).str \o vsprintf_xint(next, Tail(args))
               [] c \in {"x", "o", "d", "i", "u"} ->
                    number_xint(Head(args).num, CASE c = "x" -> 16
                                                  [] c = "o" -> IF base = 10 THEN 8 ELSE base
                                                  [] OTHER -> base, lead, wid)
                    \o vsprintf_xint(next, Tail(args))
               [] OTHER -> ScanXint(next, args, base, lead,
                                    IF IsDecimal(c) THEN DigitValue(c) ELSE wid)

vsprintf_xint(fmt, args) ==
    IF fmt = <<>> THEN <<>>
    ELSE IF Head(fmt) # "%" THEN <<Head(fmt)>> \o vsprintf_xint(Tail(fmt), args)
    ELSE ScanXint(Tail(fmt), args, 10, " ", 1)

-----------------------------------------------------------------------------
\* vsprintf-mini.c: every number is <%08x>, whatever the directive says.

RECURSIVE vsprintf_mini(_, _, _)
vsprintf_mini(fmt, args, inside) ==
    IF fmt = <<>> THEN <<>>
    ELSE LET c == Head(fmt)
             Next1(used, in) == vsprintf_mini(Tail(fmt), From(args, used + 1), in)
         IN  CASE ~inside -> IF c = "%" THEN Next1(0, TRUE) ELSE <<c>> \o Next1(0, FALSE)
               [] inside /\ c = "%" -> <<"%">> \o Next1(0, FALSE)
               [] inside /\ c = "c" -> <<Head(args).str[1]>> \o Next1(1, FALSE)
               [] inside /\ c = "s" -> Head(args).str \o Next1(1, FALSE)
               [] inside /\ c \in {"o", "x", "d", "i", "u"} ->
                    <<"<">> \o Spell(LET d == DigitsOf(Head(args).num, 16)
                                     IN  d \o Rep(0, 8 - Len(d)))
                    \o <<">">> \o Next1(1, FALSE)
               [] OTHER -> Next1(IF c = "*" THEN 1 ELSE 0, TRUE)
=============================================================================
