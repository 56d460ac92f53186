------------------------------- MODULE Ad9516 -------------------------------
(***************************************************************************)
(* The clock generator of the switch (dev/ad9516.c).  Its registers are    *)
(* buffered: what is written becomes active with the next write of 1 to    *)
(* register \h232.  A board c has the chip and the pin that selects the    *)
(* system clock: 0 the standby oscillator, 1 the output of the chip.       *)
(***************************************************************************)
EXTENDS Integers, Sequences

\* The registers that decide the frequencies, with their values after a reset.
PllRegs == {\h11, \h12, \h13, \h14, \h15, \h16, \h1C}
DividerRegs == (\h190..\h1A3) \cup {\h1E0}
Regs == PllRegs \cup DividerRegs \cup {\hF4, \h230}
Reset == [r \in Regs |-> IF r \in {\h11, \h14} THEN 1 ELSE IF r = \h1E0 THEN 2 ELSE 0]

Board0 == [buf |-> Reset, act |-> Reset, present |-> TRUE, locked |-> FALSE, synced |-> FALSE,
           sel |-> 0, fault |-> FALSE]

\* The divider of the VCO is 2..6 with 0..4, otherwise there is no output.
Static(c) == c.act[\h1E0] > 4

\* fault: the system clock was taken from a chip that does not give one.
Watched(c) == [c EXCEPT !.fault = @ \/ (c.sel = 1 /\ (~c.locked \/ Static(c)))]

Differ(c, regs) == \E r \in regs : c.act[r] # c.buf[r]
\* synced: the dividers were started together since they were last changed,
\* while no clock came in.
Update(c) ==
    [c EXCEPT !.act = c.buf,
              !.locked = @ /\ ~Differ(c, PllRegs),
              !.synced = IF c.act[\h230] = 1 /\ c.buf[\h230] = 0 THEN Static(c)
                         ELSE @ /\ ~Differ(c, DividerRegs \ {\h1E0})]

-----------------------------------------------------------------------------
\* A transfer of 24 bits: read or write, 15 bits of a register's number, 8 of
\* its value.
ReadBit == 2 ^ 23
oc_spi_txrx(c, in) ==
    LET reg == (in % ReadBit) \div 256
        val == in % 256
    IN  CASE ~c.present -> [c |-> c, out |-> 255]
          [] in >= ReadBit -> [c |-> c, out |-> IF reg \in Regs THEN c.buf[reg]
                                               ELSE IF reg = 3 THEN \hC3 ELSE IF c.locked THEN 1 ELSE 0]
          [] in < ReadBit -> [c |-> Watched(IF reg = \h232 THEN (IF val % 2 = 1 THEN Update(c) ELSE c)
                                            ELSE IF reg \in Regs THEN [c EXCEPT !.buf[reg] = val] ELSE c),
                              out |-> 0]

ad9516_write_reg(c, reg, val) == oc_spi_txrx(c, reg * 256 + val).c
ad9516_read_reg(c, reg) == oc_spi_txrx(c, reg * 256 + ReadBit).out % 256

RECURSIVE WriteAll(_, _)
\* A chip that does not answer takes nothing.
WriteAll(c, regs) ==
    IF ~c.present \/ regs = <<>> THEN c
    ELSE WriteAll(ad9516_write_reg(c, Head(regs)[1], Head(regs)[2]), Tail(regs))
ad9516_load_regset(c, regs, commit) ==
    LET b == WriteAll(c, regs) IN IF commit THEN ad9516_write_reg(b, \h232, 1) ELSE b

\* Returns when the chip says so, which it does with an active configuration.
ad9516_wait_lock(c) == [c EXCEPT !.locked = TRUE]

-----------------------------------------------------------------------------
SECONDARY_DIVIDER == \h100

Bypassed(ctl, bit) == IF (ctl \div bit) % 2 = 1 THEN ctl ELSE ctl + bit
Used(ctl, bit) == IF (ctl \div bit) % 2 = 1 THEN ctl - bit ELSE ctl
\* The bits of the phase are added to those of the control register.
OrLow(ctl, phase) ==
    LET Low(b) == IF ((ctl \div b) % 2 = 1) \/ ((phase \div b) % 2 = 1) THEN b ELSE 0
    IN  16 * (ctl \div 16) + Low(1) + Low(2) + Low(4) + Low(8)

\* Cycles low and cycles high of the divider, each less one.
Cycles(ratio) == (ratio \div 2 - 1) * 16 + (ratio - ratio \div 2 - 1)

PeclWrites(c, output, ratio, phase) ==
    LET base == (output \div 2) * 3 + \h190
        ctl == ad9516_read_reg(c, base + 1)
    IN  IF ratio = 1 THEN <<<<base + 1, OrLow(Bypassed(ctl, 128), phase)>>>>
        ELSE <<<<base + 1, OrLow(Used(ctl, 128), phase)>>, <<base, Cycles(ratio)>>>>

LvdsWrites(c, output, ratio, phase, secondary) ==
    LET base == ((output - 6) \div 2) * 5 + \h199
        ctl == ad9516_read_reg(c, base + 3)
    IN  CASE ratio = 1 -> <<<<base + 3, Bypassed(ctl, IF secondary THEN 32 ELSE 16)>>>>
          [] ratio # 1 /\ ~secondary -> <<<<base, Cycles(ratio)>>, <<base + 1, phase>>>>
          [] ratio # 1 /\ secondary -> <<<<base + 2, Cycles(ratio)>>>>

ad9516_set_output_divider(c, out, ratio, phase_offset) ==
    LET secondary == (out \div SECONDARY_DIVIDER) % 2 = 1
        output == out % 16
        phase == phase_offset % 16
        writes == IF output < 6 THEN PeclWrites(c, output, ratio, phase)
                  ELSE LvdsWrites(c, output, ratio, phase, secondary)
    IN  WriteAll(c, writes \o <<<<\h232, 0>>, <<\h232, 1>>, <<\h232, 0>>>>)

ad9516_set_vco_divider(c, ratio) ==
    WriteAll(c, <<<<\h1E0, IF ratio = 0 THEN 5 ELSE ratio - 2>>, <<\h232, 1>>>>)

ad9516_sync_outputs(c) ==
    WriteAll(c, <<<<\h1E0, 7>>, <<\h232, 1>>,
                  <<\h230, 1>>, <<\h232, 1>>, <<\h230, 0>>, <<\h232, 1>>>>)

-----------------------------------------------------------------------------
\* ad9516_config.h, the registers of Regs.
ad9516_base_config == <<
    <<\h11, 5>>, <<\h12, 0>>, <<\h13, \h0C>>, <<\h14, \h12>>, <<\h15, 0>>, <<\h16, 5>>, <<\h1C, 2>>,
    <<\hF4, 8>>, <<\h190, 0>>, <<\h191, \h80>>, <<\h192, 0>>, <<\h193, \hBB>>, <<\h194, 0>>,
    <<\h195, 0>>, <<\h196, 0>>, <<\h197, 0>>, <<\h198, 0>>, <<\h199, \h11>>, <<\h19A, 0>>,
    <<\h19B, \h11>>, <<\h19C, \h20>>, <<\h19D, 0>>, <<\h19E, \h11>>, <<\h19F, 0>>, <<\h1A0, \h11>>,
    <<\h1A1, \h20>>, <<\h1A2, 0>>, <<\h1A3, 0>>, <<\h1E0, 4>>, <<\h230, 0>> >>
ad9516_ref_tcxo == << <<\h11, 5>>, <<\h12, 0>>, <<\h1C, 6>> >>

gpio_sel(c, sel) == Watched([c EXCEPT !.sel = sel])
gpio_reset(c) == Watched([c EXCEPT !.buf = Reset, !.act = Reset, !.locked = FALSE, !.synced = FALSE])

\* The chip answers and is configured, then the dividers are set.
Configured(c) ==
    LET locked == ad9516_wait_lock(ad9516_load_regset(ad9516_load_regset(c, ad9516_base_config, FALSE),
                                                      ad9516_ref_tcxo, TRUE))
        aux == ad9516_set_output_divider(ad9516_sync_outputs(locked), 9, 4, 0)
        gtx == ad9516_set_output_divider(ad9516_set_output_divider(aux, 7, 12, 0), 4, 12, 0)
    IN  ad9516_set_vco_divider(ad9516_sync_outputs(gtx), 2)

ad9516_init(c) ==
    LET reset == gpio_reset(gpio_sel(c, 0))
    IN  IF ad9516_read_reg(reset, 3) # \hC3 THEN [c |-> reset, ret |-> -1]
        ELSE [c |-> gpio_sel(Configured(reset), 1), ret |-> 0]

rts_debug_command(c, value) ==
    WriteAll(c, <<<<\hF4, IF value # 0 THEN 8 ELSE \h0A>>, <<\h232, 0>>, <<\h232, 1>>>>)

-----------------------------------------------------------------------------
\* What the active registers make of a reference of ref MHz, in kHz: the VCO,
\* and an output through its one or two dividers.
VcoKHz(c, ref) ==
    LET a == c.act
        n == 16 * (a[\h14] + 256 * (a[\h15] % 32)) + a[\h13]
    IN  (ref * 1000 * n) \div (a[\h11] + 256 * a[\h12])
RatioOf(cycles) == (cycles \div 16) + (cycles % 16) + 2
OutputRatio(c, output) ==
    LET a == c.act
        p == (output \div 2) * 3 + \h190
        l == ((output - 6) \div 2) * 5 + \h199
        One(reg, ctl, bit) == IF (a[ctl] \div bit) % 2 = 1 THEN 1 ELSE RatioOf(a[reg])
    IN  IF output < 6 THEN One(p, p + 1, 128) ELSE One(l, l + 3, 16) * One(l + 2, l + 3, 32)
OutputKHz(c, ref, output) == VcoKHz(c, ref) \div ((c.act[\h1E0] + 2) * OutputRatio(c, output))
=============================================================================
