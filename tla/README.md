# White Rabbit PTP core software: a TLA+ verification project

This directory holds TLA+ models of the parts of the White Rabbit PTP core
software (`src/`) whose correctness depends on orders of events that are hard to
produce on a bench (interrupts between two instructions, relocks, refused
requests, power failing in the middle of a write, frames lost and repeated) and of the
computations whose correctness depends on edges a test hardly hits. TLC checks the models on small
instances; TLAPS proves the most important properties for every number of
channels, samples and states. `PROJECT.json` is the machine-readable index: which
definition models which lines, which run checks which property, which mutation of
the code each property detects.

## 1. The system

The program runs on a small LM32 CPU inside the FPGA of a White Rabbit node. It
is one main loop without an operating system, plus **one interrupt handler**, that
of the SoftPLL. Everything else (network, PTP, shell, storage) is polled.

| component | state | operations | interacts with |
|---|---|---|---|
| SoftPLL sequencer (`softpll/softpll_ng.c`) | mode, `seq_state`, delock count, auxiliary channel FSMs, tag-enable registers | `spll_init`, `spll_check_lock`, `spll_set_phase_shift`, `spll_enable_ptracker`, `spll_start/stop_channel`, `spll_update_aux_clocks`; the handler `_irq_entry` | called by main loop, shell, PTP wrappers, calibrator, switch RPC; reads DDMTD tags, writes DACs |
| helper, main, external PLLs (`spll_helper.c`, `spll_main.c`, `spll_external.c`) | last tags, adders, PI state, lock detector, phase shifter, realignment FSM | `*_init`, `*_start`, `*_update` | called by the sequencer in the handler; the external PLL sets the PPS generator's valid bits |
| lock detector (`spll_common.c`) | counter, locked flag | `ld_init`, `ld_update` | inside every PLL |
| phase trackers (`spll_ptracker.c`) | accumulator, window counter, phase; a shared `tag_ref` | `ptracker_start`, `ptrackers_update`, `spll_read_ptracker` | updated in the handler, restarted and read by the main program |
| EEPROM storage (`dev/eeprom.c`, `shell/cmd_sfp.c`, `shell/cmd_init.c`) | SFP database, init script, calibration value | erase, add, match, show, boot | I2C; the shell executes the script at boot |
| sockets (`lib/net.c`) | per-socket byte queue, RX timestamp linearisation | send, receive, `update_rx_queues` | MiniNIC below, PTP and IP above, phase tracker for the sub-cycle phase |
| MiniNIC (`dev/minic.c`) | RX and TX descriptor rings | `minic_rx_frame`, `minic_tx_frame` | hardware writes descriptors while the driver reads them |
| RX timestamp calibrator (`dev/rxts_calibrator.c`) | two edge detectors, current phase | start, update, `calib_t24p` | moves the SoftPLL's phase, stores its result in the EEPROM |
| main loop and mode control (`wrc_main.c`, `wrc_ptp_noposix.c`) | link state, PTP mode | link up/down, `wrc_ptp_set_mode` | SoftPLL, PTP daemon, PPS generator |
| IP stack (`lib/ipv4.c`, `arp.c`, `icmp.c`, `bootp.c`) | IP address, retry state | poll | sockets |
| shell, monitor (`shell/`, `monitor/`) | line buffer | poll | every other component |
| switch RPC (`ipc/`, `wrs_main.c`) | request counter, channel states | `rts_*` | SoftPLL with several reference channels |
| PPS generator, endpoint, packet filter (`dev/`) | time in two words, latched link bit, microprogram | get and adjust the time, link status, classify | main loop, PTP, network |
| buses (`dev/i2c.c`, `w1*.c`, `sdb.c`) | the wires | transfers, search, lookup | storage, SFP, thermometer |
| SDB storage (`dev/sdb-eeprom.c`, `sdb-lib/`) | files of the EEPROM | as the EEPROM storage | shell, boot |
| software console (`dev/uart-sw.c`, `tools/wrpc-uart-sw.c`) | two rings in shared memory | put, get, poll | a host that reads the core's memory |
| library (`pp_printf/`, `lib/`) | loops per jiffy | formatting, time, delays, checksums | everyone |
| configuration tool (`scripts/kconfig`) | symbols and their cached values, menus, dialogs | parse, edit, load, save, split | the build: decides which of the above exists |

`PROJECT.json` lists every component with its status.

### What is hard here

* **The handler against the main program.** `spll_enable_tagger`, `mpll_start`,
  `ptracker_start` and `spll_update_aux_clocks` run with interrupts on and share
  registers and detectors with the handler, without any lock.
* **Two conditions for one thing.** "The PLL is locked" is `mpll.ld.locked` for
  some code and `seq_state == SEQ_READY` for other code; the handler updates them
  at different moments.
* **State that outlives its purpose.** A relock, a refused request or a restart
  resets some variables and keeps others (`seq_state`, `tag_ref`, `ESCR`).
* **Progress by tags only.** The sequencer runs when a tag arrives. Whoever
  switches off the wrong tagger stops it for ever, silently.
* **Byte-wise writes to the EEPROM**, with power and bus failing between them.
* **Hardware writing what the driver reads**: frames enter the ring and flags rise between
  two accesses of `minic_rx_frame`, and a timestamp's seconds are read later than its cycles.
* **Narrow integers**: error codes kept in `uint8_t`, `int8_t` loop variables, an `int`
  that selects among 64 bits, counters that wrap.
* **A main loop that blocks.** The mode command, `ptpd_netif_locking_poll` and the
  calibration wait inside the loop while the link changes; four parties restart the
  PLL and switch the PPS output, each for its own reason.
* **Two processors, two counters.** The mailbox of the switch and the software
  console have no other order than the counters both sides read.
* **A network that loses, repeats and reorders**, and sockets that keep what they were
  created with.
* **Caches.** Every Kconfig symbol caches its value; each change must reach all of them.

### What makes each component correct

* lock detector: it locks only after enough good samples, gives up only after
  enough bad ones, and can always do both;
* sequencer: tags never run dry, every state it waits in is fed, it announces lock
  only when it was acquired and counts every loss, and settled clocks always lock;
* grandmaster: ready means aligned, with the PPS marked valid;
* auxiliary channels: the status the hardware sees is that of the FSM;
* phase tracker: the average is right across the wrap of the phase;
* storage: an interrupted command leaves either the old or the new contents;
* receive path: packets come out whole, in order and with the true time of arrival, and
  reception survives an overflow;
* main loop: the PPS is marked valid only while the PLL runs in the mode that makes it so,
  nothing measured on one link is used on the next, every wait ends, and a slave whose
  link stays up ends up locked;
* IP stack: the core gets an address, keeps the one its user set, and answers;
* switch RPC: every call runs once, with its own arguments, and returns what it computed;
  no lock of an earlier configuration is reported;
* drivers and library: what is written, printed, packed or measured reads back;
* configuration tool: a value that was accepted is the value, saved configurations read
  back, and what changed is rebuilt.

## 2. The modules

| module | models | proofs |
|---|---|---|
| `LockDet` | `ld_init`, `ld_update` as operators on a detector record | lemmas in `SoftPllProofs` |
| `LockDetector` | one detector and a stream of samples | its theorems, in `LockDetector` |
| `SoftPll` (extends `LockDet`) | sequencer, helper, main, auxiliary and external PLLs, realignment, API calls, handler, FIFO | `SoftPllProofs` |
| `SpllService` | what the users of `softpll_ng.h` may rely on: off, acquiring, locked, and the count of losses | refined by `SoftPll` |
| `Ptracker` | one phase tracker with its handler, restarts and relocks | `PtrackerProofs` |
| `Storage` | SFP database and init script in the EEPROM | `StorageProofs` |
| `RxTimestamp` | the time of arrival of a frame, as captured and as put together | `RxPathProofs` |
| `RxPath` (extends `RxTimestamp`) | MiniNIC receive ring, socket queues, `recvfrom`, calibration of open sockets | `RxPathProofs` |
| `WrcMain` (instantiates `SpllService`) | `wrc_main.c`, `wrc_ptp_noposix.c`, the locking wrappers, the commands mode, ptp, calibration, gui, stat, refresh | `WrcMainProofs` |
| `RpcService` | what a remote procedure call promises | refined by `MiniIpc` |
| `MiniIpc` | the mailbox of `minipc-mem-server.c` with a client | `RtIpcProofs` |
| `RtIpc` (extends `MiniIpc`) | `wrs_main.c`, the procedures of `rt_ipc.c`, the SoftPLL beside them | `RtIpcProofs` |
| `IpStack` | `ipv4.c`, `bootp.c`, `arp.c`, `icmp.c`, the commands ip and mac, a network, a server and a peer | `IpStackProofs` |
| `RxtsCalibrator`, `OneWire`, `I2cBus`, `PacketFilter`, `Ad9516`, `UartSw` | the drivers of that name, as operators | |
| `Timekeeping` | the PPS generator, delays and `usleep` | |
| `Frames` | the endpoint's link, the MiniNIC's buffers, the packets the IP stack sends and their checksums | |
| `Sdb` | the lookup on the self-describing bus; the SDB storage and its files | |
| `Drivers` (extends them) | inputs and properties of the drivers | |
| `Printf`, `TextForms`; `Library` | `pp_printf/`, texts of numbers, addresses and dates and the shell; their inputs and properties, with those of delays and packets | |
| `Stores` | commands on the SDB storage, cut off anywhere | |
| `KconfExpr`, `KconfMenu`, `KconfSym`, `KconfData`; `Kconf` | `expr.c`, `menu.c`, `symbol.c`, `confdata.c` with `conf.c`; sessions, builds, properties | |
| `Dialogs` | `menubox.c`, `checklist.c`, `inputbox.c`; key by key | |
| `Jobs`, `Algorithms` | one state machine over all of the rows from `RxtsCalibrator` on, and its properties by subject | |
| `MC*` | instances for TLC, where constants need more than a literal | |

Definitions keep the names of the C source. Operators introduced as *mutated* are
plausible bugs; no specification uses them, and they exist to show that each
property detects one.

### SoftPll

*State.* One variable per field of `struct softpll_state` that carries control:
mode, `seq_state`, the PLLs as records (tags present or not, phase shifter,
detector), the auxiliary FSMs, the realignment FSM and its timer, the registers
RCER, OCER, ECCR, OCCR and ESCR as sets of channels or bits, the FIFO as a sequence of
channel numbers.

*The handler* is `IrqEnter`, which takes a tag out of the FIFO, then one step for
`sequencing_fsm` and one for `update_loops`. It is entered whenever a tag waits,
the interrupt is on and the handler is idle, so between any two steps of the main
program; while it runs, the main program does not (`MainRuns`), as on the single
CPU.

*The main program* calls the API in any order. Calls that touch only their own
data while the interrupt is masked or that consist of one store are one step
(`SpllInit`, `SetPhaseShift`). The others are unfolded in `todo`, a sequence of
register accesses: a tag-enable register is read (`StepRead`) and written back
(`StepSet`, `StepClear`) in separate steps. `spll_update_aux_clocks` is unfolded per
channel: its test of OUT_EN, its FSM, the call of `spll_start_channel` and the final
assignment are separate steps.

*The environment* sends tags of the enabled channels, lets time-outs expire,
requests and releases auxiliary clocks, and chooses for every sample whether it is
in range. `Settle` ends the freedom: from then on samples are good, and the main
program only runs its loop. `SettledReady` is about what follows.

*Abstracted.* Tag values, PI controllers, adders and DACs (a sample is in range or
not); `spll_debug`; DAC set-points. A time-out is a flag.

*Granularity.* The two reads of `AUX_READY` (main and auxiliary detector) are one
step: nothing but the loss of a lock can happen between them, and the next pass sees
it. `mpll_start` is two steps, split inside `ld_init` where the handler could see a
half-reset detector. Calls before the first `spll_init` are not made: `main` calls it
first. `spll_shutdown` has no caller and is left out. `ESCR` is also written by the
PPS driver; the model follows the SoftPLL's own bits between two `spll_init`.

### Ptracker

One tracker, the shared `tag_ref`, and the true phase as part of the environment:
a reference tag lies `phase` behind the output's, within `Jitter`. `ptracker_start` is
split before its last store, the one that decides whether the next sample opens a
new window. History variables remember whether the window being averaged consists of
samples taken with a `tag_ref` of the present lock.

### Storage

The chip is a function from addresses to bytes. A shell command becomes a sequence of
byte writes (`todo`); `WriteByte` performs one, `WriteFails` is a missing acknowledge of
the chip's address (the init functions give up, `eeprom_get_sfp` goes on), `Crash` is
a power failure or reset. A missing acknowledge of a later byte is ignored by
`eeprom_write` and is not modelled. The layout is that of `eeprom.h` with smaller fields
(a record is four cells instead of 29), the same formula for `EE_BASE_INIT`, a two-byte
big-endian script size, and `int8_t`/`uint8_t` conversions modulo `ByteMax + 1`.
`eeprom_match_sfp` is one step per turn of its loop. `BootScript` is what
`shell_boot_script` would execute from the present contents: `Lines` are those that
`eeprom_init_readcmd` can return, taken in their order as long as they begin within the script.

### RxTimestamp and RxPath

`RxTimestamp` has operators only. The *hardware* ones say what the two edge counters may
capture: within a quarter of a period of its own edge a counter gives its old or its
new value; the falling one keeps four bits. The *software* ones are `minic_rx_frame`'s
seconds and `ahead` bit and `ptpd_netif_linearize_rx_timestamp`. `Exact` compares the result
with the true arrival. Time is counted in reference cycles (8 ns).

`RxPath` is the machine around them. `Arrive` and `Spoiled` are the hardware, which stores
a frame and raises the RX flag, finds the ring full, or raises the flag without a frame.
`minic_rx_frame` is two steps: `MinicRxFrame` reads and frees a frame and looks at the next
descriptor, `ClearIsr` looks at RX_FULL and clears the flag; a frame may arrive between the
two, but not two frames, because the window is a few instructions. `UpdateRxQueues` is
the rest of `update_rx_queues`. Socket calls happen between two polls, as in the main loop. A socket's
queue is the circular buffer of the code with its head, tail, avail and n; a field of a
packet is one cell. `recvd` counts the header, which is queued separately, so the code
queues one header's worth of left-over bytes with every packet, and so does the model.

*Abstracted.* The ring is a sequence of frames (the wrap inside `minic_rx_memcpy` is out of
sight); the phase of the arrivals does not change while a frame waits, as on a syntonised link;
the flag `correct`, copied from the hardware; frames without a timestamp block; the 31 bits of
`sec`. The flag is taken to be latched: the driver clears it and returns early without it.

### WrcMain

`pc` is where the main program is: in `main` before its loop, at one of the three calls of
the loop (link watcher, user interface, PTP), or inside a call that blocks (`wrc_ptp_set_mode`,
`calib_t24p`, `measure_t24p`). Beside it run the link and the SoftPLL, which appears as
`SpllService`: it may lock when the reference of its mode is there and lose the lock at any
time; a reference that disappears leaves the last verdict standing, as in `SoftPll`. The PTP
daemon, a submodule, is modelled by the order in which it calls the wrappers: look at the link,
enable locking, poll, enable the output, start again when the lock is gone. `transition` says
where the transition phase in use comes from, so that a value of an earlier link can be told apart.

`pps` is ESCR's pair of valid bits with all that writes them: `spll_init`, which clears them and in free-running mode
sets them again, `shw_pps_gen_enable_output` and the realignment to an external clock (`Realign`, the registers of which are
`SoftPll`'s). Between `spll_init` and the `shw_pps_gen_enable_output(0)` that follows it in `wrc_ptp_set_mode`
and in the link watcher the program is at `mutemode` and `mutelink`. `extClock` is the external reference:
unsupported by the hardware (then `spll_init` refuses the grandmaster mode and leaves the sequencer as it was), off or on.
The calibration command is given in every mode and whatever the daemon is doing.

Three *exceptions* of the properties are history variables or states, because the code does not keep them there (section 5):
`excuse` says why the daemon's last calibration need not hold for this link (a calibration command given to a daemon at work,
a sweep that failed without an EEPROM to fall back on or had the link change under it; `TrackCalibrated`, and the PPS of `SlaveSyncs`
after a command); `missed` says that the link came and went during one blocking call, unseen by the watcher (`DownIsSafe`);
`mutemode`, `mutelink` and `Refused` (`PpsFollowsClock`). TLC violates the property without any one of them.

*Abstracted.* Time-outs are rounds of the waiting loop. `SlowUi` false says that the link does not go
down and up, and a PLL does not lock, within a single iteration of the main loop, unless the loop is inside
one of the blocking calls: an iteration takes milliseconds, a PLL or a transceiver longer. With it
true, a link that flaps unseen between two calls of `wrc_check_link` keeps a calibration of the
earlier link.

### MiniIpc and RtIpc

One step per access to the shared memory: the client fills the request, then counts it; the
server looks at the counter, takes it over, runs the procedure and writes the reply in place,
then counts the reply. The counters wrap at `CounterMod`. `RpcSpec` maps this to `RpcService`,
with the ghost field `of` of a reply naming the request it answers. `Restart` is the host loading the program
again between two calls. The client is on another processor and not in the repository; it is taken
to wait for its answer (a client that gave up and called again would race the server). `RtIpc` adds the
procedures, the refresh of `pstate` once per loop and the SoftPLL changing at any time. `spll_init` leaves `ptracker_mask` alone, and on
hardware without external reference (`ext`) it refuses the grandmaster mode and leaves the sequencer, with its lock, as it
was; `LockReportFresh` is stated but for that (`Refused`), where the code breaks it (section 5).

### IpStack

The main loop calls `update_rx_queues`, `ipv4_poll` and `arp_poll` while the link is up. The network keeps,
per type, the frame on its way; a later frame overtakes it, delivery may repeat it, and a link that
goes down loses it. `BOOTP_RETRY` is counted in polls (`BootpPeriod`). Sockets have a queue of frames (the
byte queue is `RxPath`'s) and the MAC address of their creation.

### Algorithms

A state of `Algorithms` is one input of one computation (`job`); the invariants compare what the code
computes with an independent statement of what it is for: digits with the number, a divider
with its ratio, a microprogram with its comments, a simplified expression with its value for all values of
its symbols, a search with the set of devices. Computations with a history are machines of their own: the
software console (each access of host and core a step), the line editor, the SDB storage (each
command cut off after any cell), a configuration session (edits, saves, loads), a build (each
rename a step, interrupted anywhere) and the dialogs (each key). Widths, moduli and sizes are constants:
`WordMod` for an `unsigned`, `TicMod` for the timer, `ByteMod`, `IntMod`, `RomBits` and `IntBits`.

The console counts characters by the order in which they are written, on either side, and the firmware may start anew between any two steps:
that clears the counters, drops what was typed, and shows to the host only as a counter smaller than its own.
History fields say which start the host's counter belongs to (`hrun`), and mark the four cases in which characters are lost or shown twice: a side a whole
buffer behind (`lossy`), a wrap of the counter (`wrapped`), a start between the host's copy of the counters and its use of them (`torn`) and
one the host cannot notice because the program has by then written as much as the host had read (`outrun`). `ConsoleDelivers` excludes each of them only
from what is false there, and TLC violates it without any one of them.

*Abstracted.* Characters are model strings; a page or half a record is a cell; slots and bit times are left out
of the 1-wire bus (the I2C one is modelled pin by pin); the AD9516 is modelled by the registers that decide its frequencies;
the packet filter's packets differ only in what some instruction compares; a Kconfig file is given as parsed.

## 3. The runs

| run | instance | checks |
|---|---|---|
| `lock_detector` | marks 7 and 3, errors -2..2 | `Coherent`, `NoEarlyLock`, `NoEarlyDelock`, `SettledLocks` |
| `softpll_aux` | slave with one auxiliary channel, refused grandmaster requests, shell `pll start/stop` | `NeverStarved`, `LocksCoherent`, `OutLockMatches` |
| `softpll_modes` | slave, free-running master, disabled, phase trackers switched on and off | `LoopsFed`, `SettledReady`, `ServiceSpec` |
| `softpll_gm` | grandmaster with and without alignment, phase shifts | `GmReadyAligned`, `SettledReady` |
| `ptracker` | a circle of 8, windows of 3, jitter 1 | `TypeOK`, `CleanWindowsAccurate` |
| `storage` | room for 3 SFPs of which 2 are added, two script commands, 2 faults | `StorageSound` (`TypeOK`, `DbSound`, `BootRunsScript`), `MatchFinds`, `MatchEnds` |
| `rx_path` | two sockets with room for two packets, ring of 2, three frames about the end of a second of 16 cycles, period 8 | `QueueSound` (`TypeOK`, `GotIntact`, `RoomRecovered`), `TimestampTrue`, `OverflowRecovers` |
| `wrc_main` | all commands, lock time-out of one round, 5 events (commands, keys, link changes, losses of lock) | `PpsTrue` (`TypeOK`, `PpsFollowsClock`, `DownIsSafe`), `TrackCalibrated`, `LoopAlive`, `SlaveSyncs` |
| `switch_rpc` | six procedures and an unknown name, three channels of which two are references, counters modulo 3, one restart | `ReportTrue` (`TypeOK`, `LockReportFresh`, `ModeCoherent`), `RpcSpec`, `CallsReturn` |
| `ip_stack` | queues of 2 frames, a request every 2 polls, 3 events | `TypeOK`, `ManualKept`, `GetsAddress`, `PeerReaches` |
| `algorithms` | see below | `BusesRight`, `TimeRight`, `FramesRight`, `ConsoleRight`, `TextRight`, `StoreSound`, `ExprRight`, `ConfigRight`, `DialogsRight`: conjunctions of 52 parts, each stated beside the computation it is about |
| `softpll_switch` | two reference channels | `LoopsFed`, which the code does not keep (section 5) |

**Bounds.** Lock marks of 2 and 1 (3 and 1 for the external PLL) are the smallest with
a hysteresis, so that a detector can be neither locked nor at zero; the real marks are
covered by the proofs. `FifoDepth = 1`: a longer FIFO only adds tags of the past, and
the handler handles one tag at a time; a tag may still wait while the enable that
produced it is withdrawn. `MaxDelock` 1 or 2, after which every sample is good: every relock starts from the same kind of state; the
second shows that the first left nothing behind. One auxiliary channel: channels do
not interact except through OCER, which one is enough to share with the main output.
One reference channel is the WR core, two the switch (`softpll_switch`). For the
tracker, a circle of eight is the smallest with four quarters and a jitter that crosses
their borders, and the phases chosen lie inside, at and across the wrap. For the
storage, `ByteMax = 15` keeps blank, wrap and error codes apart from the data;
`SfpsMax = 3` with two records added avoids the overlap of the last record with the
script (section 5); scripts that fit the boot buffer (`MaxScript`), because
longer ones are cut (section 5); two faults, so that a command can be cut short on top
of what another left behind. For the receive path, a second of 16 cycles is the shortest
with four-bit counters, which leaves two cycles of the quarter of a second that a frame
may wait; the frames arrive in its last two cycles and after it; three frames overflow a
ring of two, fill a queue of ten cells exactly and wrap around its end; one phase in the middle of
a cycle and one beside the edge, the others being the theorem's.
For the main loop, five events are enough to lose the link or the lock in each of the blocking
calls, on top of a mode change and a second command. The console's rings of two and counters modulo 4 wrap within its five characters, and it
starts anew once (twice, with six characters, gives the same). Counters modulo 3 let each side wrap
several times, and differ from both neighbours. For the IP stack, three events allow a link to go down, come
back and an address to be set while an answer is on its way. For the algorithms, the inputs are complete within their
bounds: all subsets of 4-bit ROM numbers of which an `int` holds 3, all sweeps of the calibrator with
noise on either side of every edge, all pairs of divider settings, all digits up to 99999 (the range of
`put_dec_full`), all packets, all flags of a number, every day of nine years about leap years and centuries, every line of 5 characters
with its cursor, every cut of every command on a store with two records and a script as long as the line buffer,
all expressions of two and four operands over boolean and tristate symbols; three edits of the repository's own
switch/node/RAM configuration and of a file with tristates, a select and a choice; menus of up to 6 items in windows of 1 to 4 rows.

**Fairness.** `SoftPll!Fairness`: an enabled tagger keeps producing tags (a clock that
runs, behind a FIFO that may be full, hence strong fairness for each channel); the
interrupt is served (hardware); timers advance; the main loop goes round and
finishes the call it is in (it is polled and has no blocking call in the SoftPLL).
None is assumed of the API's users or of the clocks' quality; that is what `Settle`
is for, and `SettledReady` speaks only of what follows it. `LockDetector!FairSpec`: samples
keep coming. `Storage!FairSpec`: the CPU goes on with a command it has begun. `RxPath!Spec`: the
main loop, in which nothing blocks, calls `update_rx_queues` again and again. `WrcMain!Fairness`: the CPU goes
on, and a PLL with its reference locks, which `softpll_modes` shows of `SoftPll`; nothing is assumed of link and
user, and `LoopAlive` and `SlaveSyncs` state in their premisses what they need. `RtIpc!Spec`: the loop of the switch
runs, and the client takes an answer that is there. `IpStack!Fairness`: the loop runs, the server answers what it receives,
the peer tries again, and of frames sent again and again some arrive (strong fairness of delivery, the usual fair-lossy network).

**Deadlock** is checked in every run.

## 4. What is proved

For all numbers of reference and output channels, all marks with
`delock_samples < lock_samples`, every FIFO depth and set of modes
(`SoftPllAssumption`, `DetectorAssumption`; TLC evaluates both):

* `DetectorCoherent`, `LockIsEarned`, `LockIsHeld` (`LockDetector`). The inductive
  invariant `IInv` adds to `Coherent` that the history counts cover the counter: an
  unlocked detector has seen at least `lock_cnt` good samples, a locked one at least
  `lock_samples - lock_cnt` bad ones.
* `SpllTypes`: type correctness, one lemma per kind of step.
* `SpllNeverStarved`: while the interrupt is on, the main output or the external clock is
  tagged. Not inductive by itself: a main program that has read OCER before the handler
  enables the main output would write back a value without it. `Fed` adds `RmwFed`: while
  the interrupt is on, a value read from OCER and not yet written back already holds
  the main output or the external clock is on, and no call of the main program clears
  the main output.
* `SpllLocksCoherent`: by `LdUpdatePreserves` and `LdInitCoherent`, because no other code
  writes to these three detectors. Not true of auxiliary detectors, which the main
  program resets field by field.
* `SpllGmReadyAligned`: `AlignInv` adds the states between alignment and readiness, and that
  a finished alignment has both valid bits set; `HandlerOn` says that the handler
  runs only with its interrupt enabled.
* `SpllImplementsService`: every step is a step of `SpllService` under the mapping of
  `SoftPll!Service`, or changes nothing its users see; `HandlerOn` is needed so that a
  disabled PLL cannot announce lock.
* `TimestampExact` (`RxPathProofs`): for every period that four divides and every length
  of the second that sixteen divides (`RxTimestampAssumption`), every phase, transition point
  and pair of captured counters, `Linearize(HwTimestamp(...))` is the exact arrival, if the
  frame is seen after one cycle and within a quarter of a second less two. Near the rising
  edge the falling counter is exact, and `AheadExact` recovers its value from four bits,
  across the end of the second; elsewhere the rising one is. The only other form the
  result may take is cycle -1 of the next second for the last cycle of a second, which
  the code does not normalise.
* `SpllOutLockMatches`: the OCCR bits and the auxiliary FSMs are written by the handler and by
  the main program's calls, one access at a time, so the property alone says nothing of the
  operations still pending. `OutLockInv` adds that a pending assignment of `AUX_LOCK_PLL`
  is for a channel that is still `DISABLED`, with nothing but steps of its start (`StartOps`) before it, so that
  no channel leaves `AUX_READY` without its bit being cleared. No assumption.
* `SpllLoopsFed`: `LoopInv` adds which identifiers each loop has (`LoopIds`), that what is pending enables
  or disables no reference but the one of the loops (`FedOps`), and that the main output is enabled, also in a
  value that was read and not yet written back (`RegsFed`). It holds under two hypotheses: `OneReference`, every
  `spll_init` names the same reference, and `GmMainOnly`, a grandmaster has its main output only. Neither
  can be dropped: TLC finds the violation without the first in run `softpll_switch`, which is the disagreement
  of section 5, and without the second with two outputs and an external clock.
* `IpStackTypes`, `IpStackManualKept`: for every queue length, BOOTP period and bound on events; the second
  because an answer that was queued is looked at only while `needIP`. `Contents` says what a queue or the network can hold.
* `MailboxImplementsRpc`: `MiniIpc` implements `RpcService` for every modulus of the counters above one and every
  list of exports (`RtIpcAssumption`). The invariant relates the two counters to the step each side is in; they differ by at
  most one, so a wrap cannot be taken for a request. What `Exported[n]`, a recursive
  function, lists for every n is proved with `LeastNatural`: the set of numbers where it were wrong would have a least member.
* `ReportAlwaysTrue`: the client's last report is of the configuration in force; the invariant ties the state of the call
  to the procedure that runs and to the count of restarts. `ReportTrue` says nothing of a refused grandmaster's lock, nor of an unknown mode number.
* `WrcTypes`, `PpsAlwaysTrue`, `TrackAlwaysCalibrated`: for every set of commands, lock time-out and number of events, either kind of
  hardware and a calibration command at any time. The
  last two assume `~SlowUi` (the link does not go and come, nor the PLL lock, within one round of the loop), as the run does; what
  `PpsTrue` and `TrackCalibrated` leave out is listed with `WrcMain` in section 2, and section 5 says what the code does there.
* `QueueAlwaysSound`, `TimestampAlwaysTrue` (`RxPathProofs`): the machine of `RxPath` for every number and size of sockets,
  packets and ring entries and every order of arrivals, polls, calibration and receptions. `PathInv` says that every frame in
  the ring, in the driver's hands or in a queue carries counters that its arrival explains (`Stored`, `Seen`),
  that an open socket has the present calibration, and `QueueHolds`: there are offsets, each packet's end the next
  one's beginning and the last of them the room in use, at which the ring buffer holds the cells of the packets
  accepted. `CopyOut`, `CopyIn`, `HoldsAppend` and `HoldsTail` are the lemmas about `wrap_copy_out`, `wrap_copy_in`, putting a packet
  and taking one; the wrap itself is four lemmas about `%`. `TimestampAlwaysTrue` then is `TimestampExact` for the frame at the head.
  Both assume `NoShortBuffer`: no user passes `recvfrom` a buffer shorter than what the driver hands over of a frame on this wire. It is needed
  (TLC violates `QueueSound` with `DataLength` below `RxBufSize`), and section 5 names the caller that breaks it for the longest frames.
* `PtrackerTypes`, `WindowsAlwaysAccurate` (`PtrackerProofs`): for every circle that four divides (`2^HPLL_N` is one), every
  phase, number of samples and jitter up to an eighth of the circle (`PtrackerAssumption`; `Adj` takes a sample for one
  across the wrap by its quarter, so what jitter can reach has to be less than a quarter away), with and without `DIVIDE_DMTD_CLOCKS_BY_2`. The mean
  of numbers on a circle is not an invariant of its own: `TrackInv` says that all samples of a clean window, those that may still
  come included, lie within the jitter of one representative of the phase (the phase, or it a turn up or down), fixed by the quarter of the
  first sample, and that the accumulator is between as many times the ends of that interval. So is the mean, and truncating it towards
  zero does not leave the interval (`MeanBetween`): the published phase is within the jitter, without the unit one might
  allow for rounding.
* `StorageAlwaysSound`, `MatchAlwaysFinds` (`StorageProofs`): for every number and size of the areas, every set of part
  numbers, parameters and commands (`StorageAssumption`: a database count fits an `int8_t`, `SFPS_MAX` being 4; a command has
  at least one word, as `cmd_init` sees to) and every number of faults between any two bytes. `StorageSound` speaks of the memory alone, and is not inductive: what a
  half-done command has written must be known before its last byte commits it. `StorageInv` adds three things. `Executing`: the bytes
  still to be written (`todo`) are the rest of one command begun in a known state, and the first `n` of its writes
  are in the memory (`Written`, but for a separator that the newline went over); an `init erase` whose high byte is written has
  made the size a one-byte number, and an `init add` on an area never erased
  cannot make its size look like 0. `HoldsScript`: there are offsets, each line's end the next one's beginning and the last of them
  the size, at which the script area holds the lines (`Layout`). `Matching`: the records before `match.i` were looked at, and
  the count in the `uint8_t` is the number of records. `LayoutIs`, `ScriptAppended` and `ScriptKept` are the lemmas about adding a line and
  about writes behind the script; that `BootScript` lists the lines in order is `BootRuns`, by the number of
  lines in front of each (`Enumerated`).
  Both theorems assume `AreasApart`, which says where the code keeps its promise: the database is not full (`MaxSfps < SfpsMax`), because the last record of a full one
  reaches into the size of the script, and the script ends within the boot buffer (`MaxScript <= BufSize + 1`), because what is behind it is
  not executed. Neither can be dropped (section 5).

Each inductive invariant was checked by TLC on the constants of a run (for `PathInv` 1.4, for `TrackInv` 1.9 million states; for
`StorageInv` 387 thousand, with one fault) before it was proved. Arguments about sequences name the facts of `SequenceTheorems` they use instead of leaving `Len` and `DOMAIN`
of arbitrary values to the solver.

Only model-checked: liveness (`SettledReady`, `SettledLocks`, `MatchEnds`, `OverflowRecovers`, `LoopAlive`, `SlaveSyncs`,
`GetsAddress`, `PeerReaches`, `CallsReturn`), which is outside
the prover; and what the `RECURSIVE` definitions of the algorithms compute (`Algorithms` and the modules below it), where the solver is not
available. Every other invariant and action property of the passing runs is a theorem.

## 5. Where code and documentation disagree

* `softpll_switch`: with several reference channels, `spll_enable_ptracker` interrupted
  between reading and writing RCER undoes the handler's enable of the helper's
  reference; the sequencer then waits for ever in `SEQ_WAIT_HELPER`.
Found with the models and reproduced by TLC on instances that are not kept as runs:

* **an auxiliary channel that was refused** (`softpll_ng.c:582`): it goes to `AUX_LOCK_PLL` although
  `spll_start_channel` refused to start it, because the two look at different
  conditions (`softpll_ng.h:35` says locking of an enabled channel "is enabled"). It stays there until its user releases it.
* **a match that never ends** (`eeprom.c:204`): `sfp match` does not return when the first record has a wrong checksum,
  a blank chip included: -3 is kept as 253 in a `uint8_t`, which an `int8_t` never reaches (`MatchEnds` without `dbok`).
* **overlapping areas** (`eeprom.h:9`): the script area begins five bytes too early; `init erase` destroys the
  deltaRx and the checksum of a fourth SFP record (`DbSound` with `MaxSfps = SfpsMax`).
* **a short receive buffer** (`net.c:243`): `ptpd_netif_recvfrom` with a buffer shorter than the frame leaves the rest in
  the queue, which is then read as the size and header of the next packet, for ever (`GotIntact` with `DataLength` below the frame).
  `ipv4_poll` has 400 bytes for frames of up to 480.
* **a new MAC address** (`net.c:95`, `doc/wrpc.in:776`): after `mac set` the IPv4 socket keeps the old address, so BOOTP answers and
  pings sent to the new one, which ARP announces, are dropped (`GetsAddress` and `PeerReaches` without `mac = sockMac`).
* **the reference of a grandmaster** (`rt_ipc.h`): `current_ref` is said to be `REF_NONE` when free-running or
  grandmaster; it keeps the last channel.
* **a forgotten value** (`symbol.c:617`): `conf_read` clears the user flag of an invisible symbol but keeps its text. When the
  user later enters that same text, `sym_set_string_value` accepts it and returns before `sym_clear_all_valid`; the value that is
  shown and written stays the old one. With the repository's Kconfig: load a switch configuration with `RAMSIZE` 28672, set `WR_SWITCH`
  to n and `DEVELOPER` to y, and enter 28672. `Kconf!ConfigEdits` leaves this one edit out.
* **a resized menu** (`menubox.c:188`): `first_item` is not reset when the terminal changes its size; with two items, one row made two and
  a saved scroll of 1, the second row is an item that does not exist. Likewise `scroll` in `inputbox.c:48` after the text became shorter than the line.
  `Dialogs` leaves the two resizes out.

What the main program does with PPS and calibration where `PpsTrue`, `TrackCalibrated` and `SlaveSyncs` are not stated:

* **a valid PPS for a moment**: `spll_init` in free-running mode sets the valid bits (`softpll_ng.c:352`) before
  `wrc_ptp_set_mode` (`wrc_ptp_noposix.c:126`) or, on a slave that lost its link, the main loop (`wrc_main.c:265`) turns the output off.
* **a refused grandmaster** (`softpll_ng.c:325`): `spll_init` returns with the interrupt off and `seq_state` as it was, possibly
  `SEQ_READY`. `mode gm` then finds the PLL locked and turns the PPS on with nothing running, and `rts_get_state` after
  `rts_set_mode(GM_EXTERNAL)` reports the lock of the mode before (`LockReportFresh` and `PpsFollowsClock` without `Refused`).
* **a calibration command on a slave at work** (`cmd_calib.c:23`, `rxts_calibrator.c:198`): its `spll_init` clears the valid bits, and the daemon,
  which sees the PLL locked again, does not turn them on until it has lost the lock once more. While the daemon is still locking,
  or tracks, the link may also change unseen by `locking_poll`, which then keeps its earlier calibration.
* **a calibration command on a master**: it waits for a link, turns the PPS off and leaves the PLL locked to the link in place of its own oscillator.
* **a failed sweep** (`rxts_calibrator.c:235`): with an EEPROM that cannot be read the phase in use stays the one of the earlier link, and
  the slave tracks with it; a link that changes during the sweep leaves a mixture; and a blank EEPROM's value is
  taken without its validity bit.
* **a link that came and went during a blocking call**: `wrc_check_link` compares with its last look and reports nothing, so the PPS that was turned on in between stays on.

Also seen while modelling: the calibration waits without time-out (`rxts_calibrator.c:234`); a late transmit timestamp is taken by the next frame, whose identifier is the same (`minic.c:349`);
the word behind a short frame is not cleared (`minic.c:318`, an index of halfwords used for words); an adjustment of seconds and nanoseconds
writes the registers twice without waiting (`ptp-noposix-wrappers.c:205`); `format_time` takes seconds modulo 2^32;
`select` in `w1.c:69` loses bits 32 to 63 of a ROM number; `mi2c_put_byte(...) < 0` is never true (`eeprom.c:81`);
the AD9516's LVDS dividers once bypassed stay so, ratios above 32 overflow, and `wrs_main.c:21` ignores the result of `ad9516_init`;
`print64` drops leading zeros of the lower half (`monitor.c:36`), negative temperatures are printed wrong (`monitor.c:246`);
`syscon.h:21` promises 42 seconds, the signed comparison allows half; `usleep_init` is wrong for a CPU with at most 512 loops per tic;
an odd ICMP body is summed with the byte behind it (`icmp.c:79`); the xint printf takes `%*d`'s width for its base and prints `%u` from 2^31 on as negative;
the last shell argument is the rest of the line (`shell.c:83`); a device at address 0 reads as not found (`sdb.c:106`);
a build with Etherbone and NIC classifies by a port number in packets that have none (`ep_pfilter.c:256`);
an answer of BOOTP is accepted without its transaction number (`bootp.c:141`); an unknown mode is recorded (`rt_ipc.c:67`);
the host takes the wrap of the console's counter for a reload and loses a character, does not notice a reload when the new program has written as much as the host
had read of the old one, and loses the new one's beginning, and after a reload between its copy of the words and its use of them
sends or shows what is no longer there (`wrpc-uart-sw.c:221`);
without an SDB file system or a `mac-` file there is no look at the 1-wire devices, although the comment above calls that the default "if no sdbfs is there"
(`sdb-eeprom.c:114`, `126`), and of an empty file the upper half of the address is used, ff:ff:ff on a blank chip (`sdb-eeprom.c:139`);
the remainder of a DS18S20 is ORed to its value, which already has the quarter-degree bit (`w1-temp.c:51`);
a blank script size is believed at boot, a script longer than the line is not run and some error paths leave the file open (`sdb-eeprom.c:441`);
Kconfig simplifies `a && !a` to n although a tristate m gives m, and compares negations wrongly for m (`expr.c`); an out-of-range number found by
`conf_read` is reset after others were calculated from it; a cycle through a choice is found or not depending on the order of the symbols
(`CyclesFound` states what holds in any order); `conf_write` renames the old file away first (`confdata.c:544`).

Seen while modelling, without a run of their own: the first reference tag
after a relock is compared with the output tag of the previous lock (`tag_ref` is static), and the
window containing it is published as ready; a frame that arrives while `minic_rx_frame` decides
that there is none has its flag cleared, and waits in the ring for the next frame, if the
hardware does not raise the flag again (its seconds are then those of the later time);
a set-point for all
channels is missed by a channel in `AUX_ALIGN_PHASE` until the next one; `ld_update`
also returns -1 ("just got out of lock") for a detector that was never locked;
`eeprom_init_readcmd` compares the offset in the whole script with the size of the line
buffer, so a script beyond 80 characters is cut at boot; `sfp add` on a blank chip
writes record 255 and leaves a count of 0; `sfp add` ignores a failed record write;
a size field torn while a blank script area is first written reads 0x00ff, and later
commands are appended out of the boot's reach (`BootRunsScript` is stated for an area
that was erased once); a time-out of the realignment leaves the PPS_VALID of an
earlier alignment set.

## 6. What is not modelled

PTP itself (ptp-noposix and ppsi are submodules without sources here); printing of the
monitor and of the commands; slot timing of the 1-wire bus and `uart.c`, which is one register; the transmit timestamp's wait; start-up code in assembly;
the host tools other than the console; of the configuration tool the scanner and parser (generated), the drawing of
`lxdialog/util.c`, `textbox.c` and `yesno.c`, and the Qt and GTK front ends, whose behaviour is their toolkits'; `fixdep`,
`docproc` and `checkpatch.pl`, which are third-party build helpers. The
arithmetic of the controllers is abstracted, so overflow in `pi_update`, `from_picos` and
the adders is out of sight. Initial states are those of the program before its first
`spll_init` and of a chip that left the factory.

## 7. Plan

Done: lock detector, SoftPLL with its service and proofs, phase tracker, storage, receive path, calibrator, main loop,
switch RPC, IP stack, drivers, library, shell, SDB storage, configuration tool.
Next:

1. Widths: `pi_update`, `from_picos` and the adders as operators on 32-bit integers.
2. `minic_tx_frame` with late timestamps, and `eeprom_phtrans` byte by byte.
3. Proofs: `StorageSound` of a full database once the areas no longer overlap; the parts of `Algorithms` that need no recursion.
