------------------------------- MODULE UartSw -------------------------------
(***************************************************************************)
(* The console in shared memory: the firmware (dev/uart-sw.c) and the host *)
(* (tools/wrpc-uart-sw.c) each write one of two ring buffers and its       *)
(* counter and read the other's, without a lock and without flow control,  *)
(* and the firmware may start anew at any moment.  Characters are numbered *)
(* in the order in which they were written or typed.  A console u is       *)
(* changed in steps as fine as the shared words.                           *)
(***************************************************************************)
EXTENDS Integers, Sequences

CONSTANTS
    WSIZE, RSIZE,    \* CONFIG_UART_SW_WSIZE 256, CONFIG_UART_SW_RSIZE 32
    CounterMod,      \* 2^16
    MaxChars,        \* bound: characters in either direction
    MaxLoads         \* bound: times the firmware starts anew

Console0 ==
    [alg |-> "uart",
     wbuffer |-> [i \in 0..(WSIZE - 1) |-> 0], nwritten |-> 0,
     rbuffer |-> [i \in 0..(RSIZE - 1) |-> 0], nread |-> 0,
     fw |-> "idle", nreturned |-> 0,
     host |-> "idle", outc |-> 0, returned |-> 0,
     seen |-> [nwritten |-> 0, nread |-> 0, wbuffer |-> [i \in 0..(WSIZE - 1) |-> 0], run |-> 0],
     \* history: characters written and typed, those shown and the last taken;
     \* run: which start of the firmware this is, hrun: the one the host's
     \* counter belongs to, before: what was written up to the last start
     written |-> 0, typed |-> 0, screen |-> <<>>, taken |-> 0, lastTaken |-> 0,
     run |-> 0, hrun |-> 0, before |-> 0,
     \* history: a wrap of nwritten; a start the host does not notice; a start
     \* between a copy and its use; one side a whole buffer behind
     wrapped |-> FALSE, outrun |-> FALSE, torn |-> FALSE, lossy |-> FALSE]

\* The characters the host has yet to read: it goes by the counter it has
\* copied, or else by the one it is going to copy.
Pending(u) ==
    LET counter == IF u.host # "idle" /\ u.seen.nwritten # u.returned THEN u.seen.nwritten ELSE u.nwritten
        next == IF counter < u.returned THEN 0 ELSE u.returned
    IN  (u.nwritten - next) % CounterMod

-----------------------------------------------------------------------------
\* The firmware: uart_sw_write_byte in two steps.
BufferPut(u) ==
    [u EXCEPT !.wbuffer[u.nwritten % WSIZE] = u.written + 1, !.written = @ + 1, !.fw = "stored",
              !.lossy = @ \/ Pending(u) >= WSIZE]
CounterPut(u) ==
    LET n == (u.nwritten + 1) % CounterMod
    IN  [u EXCEPT !.nwritten = n, !.fw = "idle", !.wrapped = @ \/ n = 0]

\* uart_sw_read_byte: -1, or the next character.
uart_sw_read_byte(u) ==
    IF u.nreturned = u.nread THEN u
    ELSE [u EXCEPT !.nreturned = (@ + 1) % CounterMod, !.taken = @ + 1,
                   !.lastTaken = u.rbuffer[u.nreturned % RSIZE]]

\* uart_init_sw when the firmware starts anew, in whatever it was doing; the
\* start-up code has cleared nreturned, and what was typed before is gone.
uart_init_sw(u) ==
    [u EXCEPT !.nwritten = 0, !.nread = 0, !.nreturned = 0, !.fw = "idle",
              !.run = @ + 1, !.before = u.written, !.taken = u.typed, !.lastTaken = u.typed,
              !.torn = @ \/ (u.host # "idle" /\ u.outc > 0)
                         \/ (u.host = "counters" /\ u.seen.nwritten # u.returned)]

-----------------------------------------------------------------------------
\* The host: usw_ll copies the counters, then the buffer, then acts on them.
\* A new program that has by now written as much as the host had read of the
\* one before looks to it like that one (outrun).
HostCounters(u, outc) ==
    [u EXCEPT !.host = "counters", !.outc = outc, !.typed = IF outc > 0 THEN outc ELSE @,
              !.outrun = @ \/ (u.run # u.hrun /\ u.returned > 0 /\ u.nwritten >= u.returned),
              !.lossy = @ \/ (outc > 0 /\ u.typed - u.taken >= RSIZE),
              !.seen = [@ EXCEPT !.nwritten = u.nwritten, !.nread = u.nread, !.run = u.run]]
HostBuffer(u) ==
    [u EXCEPT !.host = "buffer", !.seen.wbuffer = u.wbuffer,
              !.rbuffer = IF u.outc > 0 THEN [@ EXCEPT ![u.seen.nread % RSIZE] = u.outc] ELSE @]

Sent(u) == IF u.outc > 0 THEN [u EXCEPT !.nread = (u.seen.nread + 1) % CounterMod] ELSE u
\* Mutated: the host does not look for a reload.
NeverReloaded(u) == u

\* A counter that is smaller than the host's own: the program was reloaded.
Reloaded(u) == IF u.seen.nwritten < u.returned THEN [u EXCEPT !.returned = 0] ELSE u
Received(u) ==
    IF u.seen.nwritten > u.returned
    THEN [u EXCEPT !.returned = (@ + 1) % CounterMod,
                   !.screen = Append(@, u.seen.wbuffer[u.returned % WSIZE])]
    ELSE u
HostActs(u) ==
    [Received(Reloaded(Sent(u))) EXCEPT !.host = "idle", !.outc = 0, !.hrun = u.seen.run,
                                        !.seen = [Console0.seen EXCEPT !.run = u.seen.run]]

-----------------------------------------------------------------------------
\* The steps a console can take.
ConsoleSteps(u) ==
    (IF u.fw = "idle" /\ u.written < MaxChars THEN {BufferPut(u)} ELSE {})
    \cup (IF u.fw = "stored" THEN {CounterPut(u)} ELSE {})
    \cup {uart_sw_read_byte(u)}
    \cup (IF u.host = "idle" THEN {HostCounters(u, 0)} ELSE {})
    \cup (IF u.host = "idle" /\ u.typed < MaxChars THEN {HostCounters(u, u.typed + 1)} ELSE {})
    \cup (IF u.host = "counters" THEN {HostBuffer(u)} ELSE {})
    \cup (IF u.host = "buffer" THEN {HostActs(u)} ELSE {})
    \cup (IF u.run < MaxLoads THEN {uart_init_sw(u)} ELSE {})
=============================================================================
