------------------------------- MODULE WrcMain -------------------------------
(***************************************************************************)
(* The main program of the WR PTP core: wrc_main.c, wrc_ptp_noposix.c and  *)
(* the wrappers through which the PTP daemon drives the hardware           *)
(* (ptp-noposix-wrappers.c).  One loop watches the link, runs the shell    *)
(* and the daemon, and blocks in all three: the mode command waits for the *)
(* PLL, the daemon's locking_poll runs the RX timestamp calibration.       *)
(* Beside it run the link and the SoftPLL, which appears here as its       *)
(* abstract service SpllService (SoftPll implements it).  The daemon       *)
(* itself is a submodule: it is modelled by the calls it makes.            *)
(***************************************************************************)
EXTENDS Naturals

CONSTANTS
    Commands,        \* the shell commands the user (or the boot script) gives
    LockTimeout,     \* LOCK_TIMEOUT_FM, LOCK_TIMEOUT_GM, in rounds of 1 s
    MaxEvents,       \* bound: commands, keys, link changes and losses of lock
    SlowUi           \* may the link flap, or the PLL lock, within one loop?

ASSUME WrcAssumption ==
    /\ LockTimeout \in Nat /\ MaxEvents \in Nat
    /\ SlowUi \in BOOLEAN

VARIABLES
    pc,              \* where the main program is
    after,           \* where a blocking call returns to
    todo,            \* the mode wrc_ptp_set_mode is setting
    waited,          \* rounds it has waited for the PLL
    ptp_mode,        \* "unknown", "gm", "master", "slave"
    wrConfig,        \* rtOpts.wrConfig: "S_ONLY" or "M_ONLY"
    ptp_enabled,
    wrc_ui_mode,     \* "shell", "gui", "stat"
    refperiod,       \* wrc_ui_refperiod is not 0
    link,            \* the hardware: MDIO_MSR_LSTATUS
    prev_link_state, \* static in wrc_check_link: "none" (-1), "down", "up"
    led,             \* GPIO_LED_LINK
    needIP,          \* BOOTP must ask for an address
    pps,             \* PPSG_ESCR: PPS_VALID and TM_VALID
    spll_mode,       \* softpll.mode: "free", "gm", "slave"
    state,           \* SpllService: "off", "acquiring", "locked"
    delocks,         \* SpllService: spll_get_delock_count()
    extClock,        \* the grandmaster's inputs: "unsupported" by this
                     \* hardware, "off" (not connected) or "on"
    t24p_calibrated, \* static in ptpd_netif_locking_poll
    transition,      \* origin of cal_phase_transition: "default", "eeprom",
                     \* "garbage" (an EEPROM without a valid value), "link"
                     \* (measured on the link as it is now) or "old"
    daemon,          \* the daemon: "idle", "lock", "track"
    excuse,          \* history: what kept the daemon's last calibration from
                     \* holding for this link: a calibration "command" given
                     \* while the daemon was at work, or its own "sweep"
    missed,          \* history: the link came and went between two looks
    fresh,           \* loops for which link and PLL cannot change yet
    events           \* bound: how many inputs there have been

pllVars == <<spll_mode, state, delocks>>
ptpVars == <<ptp_mode, wrConfig, ptp_enabled, todo, waited>>
uiVars  == <<wrc_ui_mode, refperiod>>
linkVars == <<prev_link_state, led, needIP, missed>>
calVars == <<t24p_calibrated, transition>>
daemonVars == <<daemon, excuse>>
vars == <<pc, after, ptpVars, uiVars, link, linkVars, pps, pllVars, extClock,
          calVars, daemonVars, fresh, events>>

Spll == INSTANCE SpllService

TypeOK ==
    /\ pc \in {"boot", "mutemode", "setmode", "start", "script", "link",
               "mutelink", "ui", "ptp", "calib", "mlink", "mlock", "mcal"}
    /\ after \in {"start", "script", "ptp"}
    /\ todo \in {"unknown", "gm", "master", "slave"}
    /\ waited \in 0..LockTimeout
    /\ ptp_mode \in {"unknown", "gm", "master", "slave"}
    /\ wrConfig \in {"S_ONLY", "M_ONLY"}
    /\ {ptp_enabled, refperiod, link, led, needIP, missed, pps,
        t24p_calibrated} \subseteq BOOLEAN
    /\ wrc_ui_mode \in {"shell", "gui", "stat"}
    /\ prev_link_state \in {"none", "down", "up"}
    /\ spll_mode \in {"free", "gm", "slave"}
    /\ state \in {"off", "acquiring", "locked"} /\ delocks \in 0..MaxEvents
    /\ extClock \in {"unsupported", "off", "on"}
    /\ transition \in {"default", "eeprom", "garbage", "link", "old"}
    /\ daemon \in {"idle", "lock", "track"}
    /\ excuse \in {"none", "command", "sweep"}
    /\ fresh \in 0..2 /\ events \in 0..MaxEvents

Init ==
    /\ pc = "boot" /\ after = "start" /\ todo = "unknown" /\ waited = 0
    /\ ptp_mode = "unknown" /\ wrConfig = "S_ONLY" /\ ptp_enabled = FALSE
    /\ wrc_ui_mode = "shell" /\ refperiod = TRUE
    /\ link \in BOOLEAN /\ extClock \in {"unsupported", "off", "on"}
    /\ prev_link_state = "none" /\ led = FALSE /\ needIP = TRUE /\ missed = FALSE
    /\ pps \in BOOLEAN         \* a warm reset keeps the register
    /\ spll_mode = "free" /\ Spll!SInit
    /\ t24p_calibrated = FALSE /\ transition = "default"
    /\ daemon = "idle" /\ excuse = "none" /\ fresh = 0 /\ events = 0

-----------------------------------------------------------------------------
\* The hardware and the interrupt handler.

\* One of the bounded inputs of the environment.
Event == events < MaxEvents /\ events' = events + 1

\* Unless SlowUi, whatever begins lasts for an iteration of the main loop.
\* The blocking calls always take longer than that.
Slow == SlowUi \/ fresh = 0 \/ pc \in {"setmode", "calib", "mlink", "mlock", "mcal"}

\* The fibre is plugged in or pulled.  A measured transition phase holds for
\* the link it was measured on, and one under measurement for neither.  A PLL
\* that loses its reference gets no tags, so the sequencer, and
\* spll_check_lock, stay as they were.
LinkChanges ==
    /\ Event /\ Slow
    /\ link' = ~link /\ fresh' = 2
    /\ transition' = IF transition = "link" THEN "old" ELSE transition
    /\ excuse' = IF pc = "calib" \/ (pc = "mcal" /\ excuse = "none")
                 THEN "sweep" ELSE excuse
    /\ missed' = (missed \/ (link /\ prev_link_state = "down"))
    /\ UNCHANGED <<pc, after, ptpVars, uiVars, prev_link_state, led, needIP,
                   pps, pllVars, extClock, t24p_calibrated, daemon>>

\* Is the reference of the mode there?
Reference == CASE spll_mode = "slave" -> link
               [] spll_mode = "gm"    -> extClock = "on"
               [] OTHER               -> TRUE

SpllLocks ==
    /\ Reference /\ Slow
    /\ Spll!Acquire
    /\ UNCHANGED <<pc, after, ptpVars, uiVars, link, linkVars, pps, spll_mode,
                   extClock, calVars, daemonVars, fresh, events>>

SpllDelocks ==
    /\ Event /\ Reference
    /\ Spll!Lose
    /\ UNCHANGED <<pc, after, ptpVars, uiVars, link, linkVars, pps, spll_mode,
                   extClock, calVars, daemonVars, fresh>>

\* The realignment to the external PPS writes ESCR from the interrupt: SYNC,
\* then the valid bits, or none when it fails (SoftPll follows it in detail).
Realign ==
    /\ spll_mode = "gm" /\ state = "acquiring" /\ extClock = "on"
    /\ pps' = ~pps
    /\ UNCHANGED <<pc, after, ptpVars, uiVars, link, linkVars, pllVars,
                   extClock, calVars, daemonVars, fresh, events>>

-----------------------------------------------------------------------------
\* The API of the SoftPLL and of the PPS generator, as the program uses it.

\* Mutated: ESCR is not cleared.
SpllInitKeepsEscr(mode) ==
    /\ IF mode = "gm" /\ extClock = "unsupported"
       THEN delocks' = 0 /\ UNCHANGED state
       ELSE Spll!Configure /\ state' = "acquiring"
    /\ spll_mode' = mode /\ fresh' = 2
    /\ pps' = (pps \/ mode = "free")

\* It restarts the PLL and clears ESCR, which free-running sets again.  On
\* hardware without external inputs the grandmaster mode is refused: the
\* interrupt stays disabled, and the state what it was.
spll_init(mode) ==
    /\ IF mode = "gm" /\ extClock = "unsupported"
       THEN delocks' = 0 /\ UNCHANGED state
       ELSE Spll!Configure /\ state' = "acquiring"
    /\ spll_mode' = mode /\ fresh' = 2
    /\ pps' = (mode = "free")

spll_check_lock == state = "locked"

\* The daemon is told to start again: nothing it did counts any more.
Idle == daemon' = "idle" /\ excuse' = "none"

\* wrc_ptp_stop
PtpStop == ptp_enabled' = FALSE /\ pps' = FALSE /\ Idle

\* wrc_ptp_set_mode, up to its shw_pps_gen_enable_output(0): wrc_ptp_stop
\* comes first, but what ESCR holds then is spll_init's.
SetMode(mode, ret) ==
    /\ ptp_mode' = "unknown" /\ ptp_enabled' = FALSE /\ Idle
    /\ wrConfig' = IF mode = "slave" THEN "S_ONLY" ELSE "M_ONLY"
    /\ spll_init([gm |-> "gm", master |-> "free", slave |-> "slave"][mode])
    /\ todo' = mode /\ waited' = 0 /\ pc' = "mutemode" /\ after' = ret

\* shw_pps_gen_enable_output(0) after an spll_init that may have set the bits,
\* in wrc_ptp_set_mode and in the main loop.
Mute ==
    /\ \/ pc = "mutemode" /\ pc' = "setmode"
       \/ pc = "mutelink" /\ pc' = "ui"
    /\ pps' = FALSE
    /\ UNCHANGED <<after, ptpVars, uiVars, link, linkVars, pllVars, extClock,
                   calVars, daemonVars, fresh, events>>

\* The loop of wrc_ptp_set_mode ends: at once for a slave, which has no
\* lock_timeout, otherwise when the PLL is locked.
SetModeDone ==
    /\ pc = "setmode" /\ (spll_check_lock \/ todo = "slave")
    /\ pps' = (pps \/ todo \in {"master", "gm"})
    /\ ptp_mode' = todo /\ pc' = after
    /\ UNCHANGED <<after, todo, waited, wrConfig, ptp_enabled, uiVars, link,
                   linkVars, pllVars, extClock, calVars, daemonVars, fresh, events>>

\* Mutated: the wait has no timeout.
SetModeWaitsForever ==
    /\ pc = "setmode" /\ ~spll_check_lock /\ todo # "slave"
    /\ waited < LockTimeout /\ waited' = 0
    /\ UNCHANGED <<pc, after, todo, ptp_mode, wrConfig, ptp_enabled, uiVars,
                   link, linkVars, pps, pllVars, extClock, calVars, daemonVars,
                   fresh, events>>

SetModeWaits ==
    /\ pc = "setmode" /\ ~spll_check_lock /\ todo # "slave"
    /\ waited < LockTimeout /\ waited' = waited + 1
    /\ UNCHANGED <<pc, after, todo, ptp_mode, wrConfig, ptp_enabled, uiVars,
                   link, linkVars, pps, pllVars, extClock, calVars, daemonVars,
                   fresh, events>>

\* Lock timeout, or the escape key: the mode stays unknown, PTP stopped.
SetModeGivesUp ==
    /\ pc = "setmode" /\ ~spll_check_lock /\ todo # "slave"
    /\ \/ waited = LockTimeout /\ UNCHANGED events
       \/ Event
    /\ pc' = after
    /\ UNCHANGED <<after, ptpVars, uiVars, link, linkVars, pps, pllVars,
                   extClock, calVars, daemonVars, fresh>>

-----------------------------------------------------------------------------
\* main() before its loop.

\* wrc_initialize and the first set_mode.  calib_t24p(WRC_MODE_MASTER) takes
\* the EEPROM's word for the transition phase when there is one.
Boot ==
    /\ pc = "boot"
    /\ transition' \in {"default", "eeprom", "garbage"}
    /\ SetMode("slave", "start")
    /\ UNCHANGED <<uiVars, link, linkVars, extClock, t24p_calibrated, events>>

\* wrc_ptp_start
PtpStart == ptp_enabled' = TRUE /\ Idle

Start ==
    /\ pc = "start"
    /\ PtpStart /\ pc' = "script"
    /\ UNCHANGED <<after, todo, waited, ptp_mode, wrConfig, uiVars, link,
                   linkVars, pps, pllVars, extClock, calVars, fresh, events>>

\* shell_boot_script comes to its end.
ScriptEnds ==
    /\ pc = "script" /\ pc' = "link"
    /\ UNCHANGED <<after, ptpVars, uiVars, link, linkVars, pps, pllVars,
                   extClock, calVars, daemonVars, fresh, events>>

-----------------------------------------------------------------------------
\* Shell commands, from the boot script or from the main loop.

Return == IF pc = "script" THEN "script" ELSE "ptp"

CmdMode ==
    /\ \E mode \in {"gm", "master", "slave"} \cap Commands : SetMode(mode, Return)
    /\ UNCHANGED <<uiVars, link, linkVars, extClock, calVars>>

CmdPtp ==
    /\ \/ "start" \in Commands /\ PtpStart /\ UNCHANGED pps
       \/ "stop" \in Commands /\ PtpStop
    /\ pc' = Return
    /\ UNCHANGED <<after, todo, waited, ptp_mode, wrConfig, uiVars, link,
                   linkVars, pllVars, extClock, calVars, fresh>>

\* calibration: the value in the EEPROM if it is there (not for "force"),
\* otherwise measure_t24p, which waits for the link first, in every mode and
\* whatever the daemon is doing.
CmdCalibration ==
    /\ "calibration" \in Commands
    /\ \/ transition' = "eeprom" /\ pc' = Return /\ UNCHANGED <<after, excuse>>
       \/ /\ pc' = "mlink" /\ after' = Return /\ UNCHANGED transition
          /\ excuse' = IF daemon = "idle" THEN "none" ELSE "command"
    /\ UNCHANGED <<ptpVars, uiVars, link, linkVars, pps, pllVars, extClock,
                   t24p_calibrated, daemon, fresh>>

CmdUi ==
    /\ \/ /\ wrc_ui_mode' \in {"gui", "stat"} \cap Commands
          /\ UNCHANGED refperiod
       \/ /\ "refresh" \in Commands
          /\ refperiod' \in BOOLEAN /\ UNCHANGED wrc_ui_mode
    /\ pc' = Return
    /\ UNCHANGED <<after, ptpVars, link, linkVars, pps, pllVars, extClock,
                   calVars, daemonVars, fresh>>

Command ==
    /\ pc = "script" \/ (pc = "ui" /\ wrc_ui_mode = "shell")
    /\ Event
    /\ CmdMode \/ CmdPtp \/ CmdCalibration \/ CmdUi

\* measure_t24p: wait for the link, lock to it, sweep the phase.
MeasureLink ==
    /\ pc = "mlink" /\ link
    /\ spll_init("slave") /\ pc' = "mlock"
    /\ UNCHANGED <<after, ptpVars, uiVars, link, linkVars, extClock, calVars,
                   daemonVars, events>>

MeasureLock ==
    /\ pc = "mlock" /\ spll_check_lock /\ pc' = "mcal"
    /\ UNCHANGED <<after, ptpVars, uiVars, link, linkVars, pps, pllVars,
                   extClock, calVars, daemonVars, fresh, events>>

\* The sweep goes on while tags arrive and the main PLL shifts; the command
\* without an argument takes its result, "force" only stores it, and a sweep
\* that finds no transition changes nothing.  A link that changes under the
\* sweep may leave it half of each.
MeasureDone ==
    /\ pc = "mcal" /\ Reference /\ spll_check_lock
    /\ \/ transition' \in {transition, "link"}
       \/ excuse # "none" /\ transition' = "old"
    /\ pc' = after
    /\ UNCHANGED <<after, ptpVars, uiVars, link, linkVars, pps, pllVars,
                   extClock, t24p_calibrated, daemonVars, fresh, events>>

-----------------------------------------------------------------------------
\* The main loop.

\* Mutated: the case of LINK_UP falls through into LINK_WENT_DOWN.
LinkDownFallsThrough(status) ==
    IF status \in {"LINK_UP", "LINK_WENT_DOWN"} /\ ptp_mode = "slave"
    THEN spll_init("free") /\ pc' = "mutelink"
    ELSE UNCHANGED <<pllVars, fresh, pps>> /\ pc' = "ui"

\* wrc_check_link and the switch on its result; the receive queues and the
\* IP stack, which LINK_UP serves, are modules of their own.
LinkDown(status) ==
    IF status = "LINK_WENT_DOWN" /\ ptp_mode = "slave"
    THEN spll_init("free") /\ pc' = "mutelink"
    ELSE UNCHANGED <<pllVars, fresh, pps>> /\ pc' = "ui"

LinkStatus ==
    CASE prev_link_state = "down" /\ link  -> "LINK_WENT_UP"
      [] prev_link_state # "down" /\ ~link -> "LINK_WENT_DOWN"
      [] OTHER -> IF link THEN "LINK_UP" ELSE "LINK_DOWN"

CheckLink ==
    /\ pc = "link"
    /\ prev_link_state' = IF link THEN "up" ELSE "down"
    /\ missed' = (missed /\ ~link)
    /\ led' = CASE LinkStatus = "LINK_WENT_UP"   -> TRUE
                [] LinkStatus = "LINK_WENT_DOWN" -> FALSE
                [] OTHER -> led
    /\ needIP' = (needIP \/ LinkStatus = "LINK_WENT_UP")
    /\ LinkDown(LinkStatus)
    /\ UNCHANGED <<after, ptpVars, uiVars, link, extClock, calVars, daemonVars,
                   events>>

\* ui_update when no command is complete: the shell polls its keyboard, the
\* GUI and the statistics end with the escape key or a period of 0.
UiIdle ==
    /\ pc = "ui" /\ pc' = "ptp"
    /\ \/ UNCHANGED <<wrc_ui_mode, events>> /\ (wrc_ui_mode = "shell" \/ refperiod)
       \/ /\ wrc_ui_mode # "shell" /\ wrc_ui_mode' = "shell"
          /\ IF refperiod THEN Event ELSE UNCHANGED events
    /\ UNCHANGED <<after, ptpVars, refperiod, link, linkVars, pps, pllVars,
                   extClock, calVars, daemonVars, fresh>>

\* BOOTP gets its answer (ipv4_poll, under LINK_UP).
GetIP ==
    /\ pc = "ui" /\ link /\ needIP /\ needIP' = FALSE
    /\ UNCHANGED <<pc, after, ptpVars, uiVars, link, prev_link_state, led,
                   missed, pps, pllVars, extClock, calVars, daemonVars, fresh,
                   events>>

\* One round of the loop is over.
EndLoop == pc' = "link"

Older == fresh' = IF fresh > 0 THEN fresh - 1 ELSE 0

\* ptpd_netif_locking_enable
LockingEnable == spll_init("slave")

\* Mutated: t24p_calibrated is not reset when the lock is gone.
LockingPollStale(ready) ==
    IF ~spll_check_lock THEN /\ ~ready /\ UNCHANGED t24p_calibrated /\ EndLoop
    ELSE IF t24p_calibrated THEN ready /\ UNCHANGED t24p_calibrated /\ EndLoop
         ELSE ~ready /\ UNCHANGED t24p_calibrated /\ pc' = "calib"

\* ptpd_netif_locking_poll: READY with the calibration of this lock done.
LockingPoll(ready) ==
    IF ~spll_check_lock THEN /\ ~ready /\ t24p_calibrated' = FALSE /\ EndLoop
    ELSE IF t24p_calibrated THEN ready /\ UNCHANGED t24p_calibrated /\ EndLoop
         ELSE ~ready /\ UNCHANGED t24p_calibrated /\ pc' = "calib"

\* wrc_ptp_update: the daemon of a slave.  It looks at the link
\* (ptpd_netif_get_port_state), asks for the lock once, polls it, and enables
\* the timing output when it is ready; it starts again when the lock is gone.
DaemonStep ==
    \/ /\ ~link /\ Idle
       /\ EndLoop /\ Older /\ UNCHANGED <<pllVars, pps, t24p_calibrated>>
    \/ /\ link /\ daemon = "idle" /\ daemon' = "lock" /\ excuse' = "none"
       /\ LockingEnable
       /\ EndLoop /\ UNCHANGED t24p_calibrated
    \/ /\ link /\ daemon = "lock"
       /\ \E ready \in BOOLEAN :
            /\ LockingPoll(ready)
            /\ daemon' = IF ready THEN "track" ELSE "lock"
            /\ pps' = (pps \/ ready)      \* ptpd_netif_enable_timing_output
       /\ Older /\ UNCHANGED <<pllVars, excuse>>
    \/ /\ link /\ daemon = "track"
       /\ IF spll_check_lock THEN UNCHANGED daemonVars ELSE Idle
       /\ EndLoop /\ Older /\ UNCHANGED <<pllVars, pps, t24p_calibrated>>

PtpUpdate ==
    /\ pc = "ptp"
    /\ IF ptp_enabled /\ wrConfig = "S_ONLY"
       THEN DaemonStep
       ELSE /\ EndLoop /\ Older
            /\ UNCHANGED <<pllVars, pps, t24p_calibrated, daemonVars>>
    /\ UNCHANGED <<after, ptpVars, uiVars, link, linkVars, extClock,
                   transition, events>>

\* calib_t24p(WRC_MODE_SLAVE) inside ptpd_netif_locking_poll: the sweep, its
\* result or, when it fails, what the EEPROM holds, with or without its
\* validity bit; the value stays what it was if that cannot be read either.
\* Then READY, in every case.
CalibDone ==
    /\ pc = "calib" /\ Reference /\ spll_check_lock
    /\ \/ transition' \in {"link", "eeprom", "garbage"} /\ excuse' = "none"
       \/ UNCHANGED transition /\ excuse' = "sweep"
       \/ excuse = "sweep" /\ transition' = "old" /\ UNCHANGED excuse
    /\ t24p_calibrated' = TRUE
    /\ daemon' = "track" /\ pps' = TRUE /\ EndLoop /\ Older
    /\ UNCHANGED <<after, ptpVars, uiVars, link, linkVars, pllVars, extClock,
                   events>>

-----------------------------------------------------------------------------
Program ==
    \/ Boot \/ Mute \/ SetModeDone \/ SetModeWaits \/ SetModeGivesUp \/ Start
    \/ ScriptEnds \/ MeasureLink \/ MeasureLock \/ MeasureDone
    \/ CheckLink \/ UiIdle \/ PtpUpdate \/ CalibDone

\* A loop without a timeout (measure_t24p, calib_t24p_slave) goes round again.
Polls ==
    /\ \/ pc = "mlink" /\ ~link
       \/ pc = "mlock" /\ ~spll_check_lock
       \/ pc \in {"mcal", "calib"} /\ ~(Reference /\ spll_check_lock)
    /\ UNCHANGED vars

Next ==
    \/ Program \/ Polls \/ Command \/ GetIP
    \/ LinkChanges \/ SpllLocks \/ SpllDelocks \/ Realign

(***************************************************************************)
(* The processor runs (a blocking call ends when what it waits for is      *)
(* there), and a PLL with its reference locks, as run softpll_modes shows. *)
(***************************************************************************)
Fairness == WF_vars(Program) /\ WF_vars(SpllLocks)

Spec == Init /\ [][Next]_vars /\ Fairness

-----------------------------------------------------------------------------
\* Properties.

\* The grandmaster mode on hardware without external inputs.
Refused == spll_mode = "gm" /\ extClock = "unsupported"
(***************************************************************************)
(* The PPS output and the time are marked valid only while the PLL runs in *)
(* the mode that the operating mode needs, a grandmaster's with its inputs *)
(* there: an untrue "valid" is what every user of the core's timing would  *)
(* trust.  Several parties switch the two: the mode command, the daemon,   *)
(* the link watcher, the calibration and the realignment.  Two cases are   *)
(* left out because the code does not keep it in them: the moment between  *)
(* an spll_init and the call that mutes the output, and a grandmaster mode *)
(* that the hardware refuses, where spll_check_lock still answers for the  *)
(* mode before.                                                            *)
(***************************************************************************)
PpsFollowsClock ==
    (pps /\ pc \notin {"boot", "mutemode", "mutelink"} /\ ~Refused) =>
        \/ ptp_mode = "master" /\ spll_mode = "free"
        \/ /\ ptp_mode \in {"gm", "unknown"} /\ spll_mode = "gm"
           /\ extClock = "on"
        \/ ptp_mode = "slave" /\ spll_mode = "slave"

(***************************************************************************)
(* A slave that tracks its master does not use the transition phase that   *)
(* was measured before the link went down: the static t24p_calibrated      *)
(* never survives into the next link, so the calibration runs again.  The  *)
(* code does not keep it when the shell's calibration relocks the PLL      *)
(* behind the daemon's back, nor when the sweep fails with an EEPROM that  *)
(* cannot be read, or has the link change under it: those are excused.     *)
(***************************************************************************)
TrackCalibrated ==
    (daemon = "track" /\ link /\ pc # "calib" /\ excuse = "none")
        => transition # "old"

(***************************************************************************)
(* After the link is gone the watcher has, within the same loop, put a     *)
(* slave on its own oscillator with the output off, whatever the daemon    *)
(* and the user were doing: no slave goes on announcing a stale lock.      *)
(* Left out: a link that came back and went again while a blocking call    *)
(* kept the watcher from looking, which is no LINK_WENT_DOWN for it.       *)
(***************************************************************************)
DownIsSafe ==
    (pc = "ptp" /\ ptp_mode = "slave" /\ prev_link_state = "down" /\ ~link
       /\ ~missed)
        => ~pps

(***************************************************************************)
(* No user of the core's timing is ever told that it is valid when it is   *)
(* not: the output follows the clock, and a slave that lost its link has   *)
(* it off, in every interleaving of the link, the commands, the daemon and *)
(* the PLL.                                                                *)
(***************************************************************************)
PpsTrue == TypeOK /\ PpsFollowsClock /\ DownIsSafe

(***************************************************************************)
(* The main loop never stops for good as long as the link comes back now   *)
(* and then: the waits of mode, calibration and locking_poll all end.      *)
(***************************************************************************)
LoopAlive == []<>link => []<>(pc = "link")

(***************************************************************************)
(* A slave whose link stays up ends up locked to it with its output on:    *)
(* link watcher, daemon and PLL do not undo each other's work for ever.    *)
(* Only a calibration command given to a slave at work leaves the output   *)
(* off: spll_init clears ESCR and the daemon sees nothing to do.           *)
(***************************************************************************)
SlaveSyncs ==
    <>[](link /\ ptp_enabled /\ ptp_mode = "slave")
        => <>[](/\ spll_mode = "slave" /\ state = "locked"
                /\ pps \/ excuse = "command")
=============================================================================
