--------------------------- MODULE WrcMainProofs ---------------------------
(***************************************************************************)
(* The main program: its types, that the timing output is never marked     *)
(* valid on a clock the operating mode does not use, and that a slave      *)
(* never tracks with the calibration of an earlier link, for every set of  *)
(* commands, every timeout and every number of events.                     *)
(***************************************************************************)
EXTENDS WrcMain, TLAPS

-----------------------------------------------------------------------------
(* The inductive invariant.                                                *)

Flags ==
    /\ ptp_enabled \in BOOLEAN /\ refperiod \in BOOLEAN /\ link \in BOOLEAN
    /\ led \in BOOLEAN /\ needIP \in BOOLEAN /\ missed \in BOOLEAN
    /\ pps \in BOOLEAN /\ t24p_calibrated \in BOOLEAN

(* TypeOK, and that a lock can only be lost by one of the events.          *)
Types == TypeOK /\ Flags /\ delocks <= events

PllModeOf == [gm |-> "gm", master |-> "free", slave |-> "slave"]

(* While wrc_ptp_set_mode waits, PTP is stopped, and the PLL is already in *)
(* the mode that will be announced.  Outside of it the daemon is a slave's *)
(* exactly in slave mode.                                                  *)
ModeSettled ==
    /\ pc = "boot" => ptp_mode = "unknown"
    /\ pc \in {"mutemode", "setmode"} =>
         /\ todo \in DOMAIN PllModeOf /\ spll_mode = PllModeOf[todo]
         /\ (todo = "slave" <=> wrConfig = "S_ONLY") /\ ptp_mode = "unknown"
    /\ pc \notin {"boot", "mutemode", "setmode"} =>
         (ptp_mode = "slave" <=> wrConfig = "S_ONLY")
    /\ pc = "mutelink" => ptp_mode = "slave"
    /\ spll_mode = "gm" => ptp_mode \in {"gm", "unknown"}

(* The output follows the clock; only the realignment of a grandmaster     *)
(* turns it on before a mode is announced.  A grandmaster without its      *)
(* inputs has none, for it does not lock.                                  *)
OutputSettled ==
    /\ pps /\ pc \notin {"boot", "mutemode", "mutelink"} =>
         \/ spll_mode = "gm" /\ ptp_mode = "unknown"
         \/ ptp_mode \in DOMAIN PllModeOf /\ spll_mode = PllModeOf[ptp_mode]
    /\ spll_mode = "gm" /\ extClock = "off" =>
         state # "locked" /\ ~pps

(* The daemon is at work only between two commands of a running slave, or  *)
(* while the shell's calibration, which is an excuse, blocks it.           *)
DaemonPlace ==
    /\ daemon # "idle" =>
         /\ pc \in {"link", "mutelink", "ui", "ptp", "calib", "mlink", "mlock", "mcal"}
         /\ ptp_enabled /\ wrConfig = "S_ONLY"
         /\ pc \in {"mlink", "mlock", "mcal"} => excuse = "command" /\ after = "ptp"
    /\ pc = "calib" => daemon = "lock"
    /\ pc \in {"calib", "mlock", "mcal"} => spll_mode = "slave"

(* A daemon at work and a link that is gone: the link has just gone, so    *)
(* it does not come back before the daemon has seen it, unless a blocking  *)
(* call lasts longer.  With the link there the PLL is on it.               *)
DaemonLink ==
    daemon # "idle" /\ pc \notin {"calib", "mlink", "mlock", "mcal"} =>
        IF link THEN spll_mode = "slave" ELSE fresh = 2

(* A watcher that has seen the link go has turned a slave's output off,    *)
(* and nobody turned it on since: not before it came back, and what comes  *)
(* back does not go before the watcher looks, unless it is missed.         *)
WatcherSeen ==
    /\ prev_link_state = "down" /\ ptp_mode = "slave" /\ pps
         /\ pc # "mutelink" /\ ~missed => link \/ pc = "calib"
    /\ pc = "mutelink" => prev_link_state = "down"

(* t24p_calibrated does not survive the first poll after the daemon asked  *)
(* for the lock: the PLL cannot have locked by then, unless a command made *)
(* it.                                                                     *)
Recalibrates ==
    /\ daemon = "lock" /\ t24p_calibrated /\ excuse # "command" =>
         state # "locked" /\ fresh = 2 /\ pc # "calib"
    /\ pc = "calib" => ~t24p_calibrated
    /\ TrackCalibrated

IInv == /\ Types /\ ModeSettled /\ OutputSettled /\ DaemonPlace /\ DaemonLink
        /\ WatcherSeen /\ Recalibrates

-----------------------------------------------------------------------------
(* The types, whatever the user and the link do.                           *)

(* Types hold when the program is loaded.                                  *)
LEMMA InitTypes == Init => Types
<1> SUFFICES ASSUME Init PROVE Types
  OBVIOUS
<1>1. Flags
  BY Zenon DEF Init, Flags
<1>2. QED
  BY <1>1, WrcAssumption DEF Init, Types, TypeOK, Flags, Spll!SInit

(* Every step keeps them.                                                  *)
LEMMA StepTypes == Types /\ [Next]_vars => Types'
<1> SUFFICES ASSUME Types, [Next]_vars PROVE Types'
  OBVIOUS
<1> USE WrcAssumption DEF Types
<1>1. CASE LinkChanges
  <2>1. Flags'
    BY <1>1, Zenon DEF Flags, LinkChanges, Event, ptpVars, uiVars, pllVars,
                       daemonVars
  <2>2. QED
    BY <1>1, <2>1 DEF TypeOK, Flags, LinkChanges, Event, ptpVars, uiVars,
                      linkVars, pllVars, daemonVars
<1>2. CASE SpllLocks
  <2>1. Flags'
    BY <1>2, Zenon DEF Flags, SpllLocks, Spll!Acquire, ptpVars, uiVars,
                       linkVars, calVars, daemonVars
  <2>2. QED
    BY <1>2, <2>1 DEF TypeOK, Flags, SpllLocks, Spll!Acquire, ptpVars,
                      uiVars, linkVars, calVars, daemonVars
<1>3. CASE SpllDelocks
  <2>1. Flags'
    BY <1>3, Zenon DEF Flags, SpllDelocks, Event, Spll!Lose, ptpVars, uiVars,
                       linkVars, calVars, daemonVars
  <2>2. QED
    BY <1>3, <2>1 DEF TypeOK, Flags, SpllDelocks, Event, Spll!Lose, ptpVars,
                      uiVars, linkVars, calVars, daemonVars
<1>4. CASE SetModeDone
  <2>1. Flags'
    BY <1>4, Zenon DEF Flags, SetModeDone, uiVars, linkVars, pllVars,
                       calVars, daemonVars
  <2>2. QED
    BY <1>4, <2>1 DEF TypeOK, Flags, SetModeDone, uiVars, linkVars, pllVars,
                      calVars, daemonVars
<1>5. CASE SetModeWaits
  <2>1. Flags'
    BY <1>5, Zenon DEF Flags, SetModeWaits, uiVars, linkVars, pllVars,
                       calVars, daemonVars
  <2>2. QED
    BY <1>5, <2>1 DEF TypeOK, Flags, SetModeWaits, uiVars, linkVars, pllVars,
                      calVars, daemonVars
<1>6. CASE SetModeGivesUp
  <2>1. Flags'
    BY <1>6, Zenon DEF Flags, SetModeGivesUp, Event, ptpVars, uiVars,
                       linkVars, pllVars, calVars, daemonVars
  <2>2. QED
    BY <1>6, <2>1 DEF TypeOK, Flags, SetModeGivesUp, Event, ptpVars, uiVars,
                      linkVars, pllVars, calVars, daemonVars
<1>7. CASE Boot
  <2>1. Flags'
    BY <1>7, Zenon DEF Flags, Boot, SetMode, PtpStop, spll_init,
                       Spll!Configure, uiVars, linkVars, daemonVars, Idle
  <2>2. QED
    BY <1>7, <2>1 DEF TypeOK, Flags, Boot, SetMode, PtpStop, spll_init,
                      Spll!Configure, uiVars, linkVars, daemonVars, Idle
<1>8. CASE Start
  <2>1. Flags'
    BY <1>8, Zenon DEF Flags, Start, PtpStart, uiVars, linkVars, pllVars,
                       calVars, daemonVars, Idle
  <2>2. QED
    BY <1>8, <2>1 DEF TypeOK, Flags, Start, PtpStart, uiVars, linkVars,
                      pllVars, calVars, daemonVars, Idle
<1>9. CASE ScriptEnds
  <2>1. Flags'
    BY <1>9, Zenon DEF Flags, ScriptEnds, ptpVars, uiVars, linkVars, pllVars,
                       calVars, daemonVars
  <2>2. QED
    BY <1>9, <2>1 DEF TypeOK, Flags, ScriptEnds, ptpVars, uiVars, linkVars,
                      pllVars, calVars, daemonVars
<1>10. CASE Command /\ CmdMode
  <2>1. Flags'
    BY <1>10, Zenon DEF Flags, Command, Event, Return, CmdMode, SetMode,
                        PtpStop, spll_init, Spll!Configure, uiVars, linkVars,
                        calVars, daemonVars, Idle
  <2>2. QED
    BY <1>10, <2>1 DEF TypeOK, Flags, Command, Event, Return, CmdMode,
                       SetMode, PtpStop, spll_init, Spll!Configure, uiVars,
                       linkVars, calVars, daemonVars, Idle
<1>11. CASE Command /\ CmdPtp
  <2>1. Flags'
    BY <1>11, Zenon DEF Flags, Command, Event, Return, CmdPtp, PtpStart,
                        PtpStop, uiVars, linkVars, pllVars, calVars,
                        daemonVars, Idle
  <2>2. QED
    BY <1>11, <2>1 DEF TypeOK, Flags, Command, Event, Return, CmdPtp,
                       PtpStart, PtpStop, uiVars, linkVars, pllVars, calVars,
                       daemonVars, Idle
<1>12. CASE Command /\ CmdCalibration
  <2>1. Flags'
    BY <1>12, Zenon DEF Flags, Command, Event, Return, CmdCalibration,
                        ptpVars, uiVars, linkVars, pllVars, daemonVars
  <2>2. QED
    BY <1>12, <2>1 DEF TypeOK, Flags, Command, Event, Return, CmdCalibration,
                       ptpVars, uiVars, linkVars, pllVars, daemonVars
<1>13. CASE Command /\ CmdUi
  <2>1. Flags'
    BY <1>13, Zenon DEF Flags, Command, Event, Return, CmdUi, ptpVars,
                        linkVars, pllVars, calVars, daemonVars
  <2>2. QED
    BY <1>13, <2>1 DEF TypeOK, Flags, Command, Event, Return, CmdUi, ptpVars,
                       linkVars, pllVars, calVars, daemonVars
<1>14. CASE MeasureLink
  <2>1. Flags'
    BY <1>14, Zenon DEF Flags, MeasureLink, spll_init, Spll!Configure,
                        ptpVars, uiVars, linkVars, calVars, daemonVars
  <2>2. QED
    BY <1>14, <2>1 DEF TypeOK, Flags, MeasureLink, spll_init, Spll!Configure,
                       ptpVars, uiVars, linkVars, calVars, daemonVars
<1>15. CASE MeasureLock
  <2>1. Flags'
    BY <1>15, Zenon DEF Flags, MeasureLock, ptpVars, uiVars, linkVars,
                        pllVars, calVars, daemonVars
  <2>2. QED
    BY <1>15, <2>1 DEF TypeOK, Flags, MeasureLock, ptpVars, uiVars, linkVars,
                       pllVars, calVars, daemonVars
<1>16. CASE MeasureDone
  <2>1. Flags'
    BY <1>16, Zenon DEF Flags, MeasureDone, ptpVars, uiVars, linkVars,
                        pllVars, daemonVars
  <2>2. QED
    BY <1>16, <2>1 DEF TypeOK, Flags, MeasureDone, ptpVars, uiVars, linkVars,
                       pllVars, daemonVars
<1>17. CASE CheckLink
  <2>1. Flags'
    BY <1>17, Zenon DEF Flags, CheckLink, LinkDown, spll_init, ptpVars,
                        uiVars, calVars, daemonVars
  <2>2. /\ state' \in {"off", "acquiring", "locked"} /\ spll_mode' \in {"free", "gm", "slave"}
        /\ delocks' \in 0..MaxEvents /\ delocks' <= events /\ fresh' \in 0..2
        /\ pc' \in {"ui", "mutelink"}
    <3>1. CASE spll_init("free") /\ pc' = "mutelink"
      BY <3>1 DEF TypeOK, spll_init, Spll!Configure
    <3>2. CASE UNCHANGED <<pllVars, fresh, pps>> /\ pc' = "ui"
      BY <3>2 DEF TypeOK, pllVars, daemonVars
    <3>3. QED
      BY <1>17, <3>1, <3>2 DEF CheckLink, LinkDown
  <2>3. /\ prev_link_state' \in {"down", "up"}
        /\ UNCHANGED <<after, ptpVars, uiVars, link, extClock, calVars, daemonVars, events>>
    BY <1>17, Zenon DEF CheckLink
  <2>4. QED
    BY <2>1, <2>2, <2>3 DEF TypeOK, Flags, ptpVars, uiVars, calVars,
                            daemonVars
<1>18. CASE UiIdle
  <2>1. Flags'
    BY <1>18, Zenon DEF Flags, UiIdle, Event, ptpVars, linkVars, pllVars,
                        calVars, daemonVars
  <2>2. QED
    BY <1>18, <2>1 DEF TypeOK, Flags, UiIdle, Event, ptpVars, linkVars,
                       pllVars, calVars, daemonVars
<1>19. CASE GetIP
  <2>1. Flags'
    BY <1>19, Zenon DEF Flags, GetIP, ptpVars, uiVars, pllVars, calVars,
                        daemonVars
  <2>2. QED
    BY <1>19, <2>1 DEF TypeOK, Flags, GetIP, ptpVars, uiVars, pllVars,
                       calVars, daemonVars
<1>20. CASE PtpUpdate
  <2>1. Flags'
    BY <1>20, Zenon DEF Flags, PtpUpdate, DaemonStep, LockingEnable,
                        LockingPoll, EndLoop, Older, spll_init,
                        Spll!Configure, ptpVars, uiVars, linkVars, pllVars,
                        daemonVars, Idle
  <2>2. QED
    BY <1>20, <2>1 DEF TypeOK, Flags, PtpUpdate, DaemonStep, LockingEnable,
                       LockingPoll, EndLoop, Older, spll_init,
                       Spll!Configure, ptpVars, uiVars, linkVars, pllVars,
                       daemonVars, Idle
<1>21. CASE CalibDone
  <2>1. Flags'
    BY <1>21, Zenon DEF Flags, CalibDone, EndLoop, Older, ptpVars, uiVars,
                        linkVars, pllVars, daemonVars
  <2>2. QED
    BY <1>21, <2>1 DEF TypeOK, Flags, CalibDone, EndLoop, Older, ptpVars,
                       uiVars, linkVars, pllVars, daemonVars
<1>22. CASE Polls
  <2>1. Flags'
    BY <1>22, Zenon DEF Flags, Polls, vars, ptpVars, uiVars, linkVars,
                        pllVars, calVars, daemonVars
  <2>2. QED
    BY <1>22, <2>1 DEF TypeOK, Flags, Polls, vars, ptpVars, uiVars, linkVars,
                       pllVars, calVars, daemonVars
<1>24. CASE Mute
  <2>1. Flags'
    BY <1>24, Zenon DEF Flags, Mute, ptpVars, uiVars, linkVars, pllVars,
                        calVars, daemonVars
  <2>2. QED
    BY <1>24, <2>1 DEF TypeOK, Flags, Mute, ptpVars, uiVars, linkVars,
                       pllVars, calVars, daemonVars
<1>25. CASE Realign
  <2>1. Flags'
    BY <1>25, Zenon DEF Flags, Realign, ptpVars, uiVars, linkVars, pllVars,
                        calVars, daemonVars
  <2>2. QED
    BY <1>25, <2>1 DEF TypeOK, Flags, Realign, ptpVars, uiVars, linkVars,
                       pllVars, calVars, daemonVars
<1>23. CASE UNCHANGED vars
  <2>1. Flags'
    BY <1>23, Zenon DEF Flags, vars, ptpVars, uiVars, linkVars, pllVars,
                        calVars, daemonVars
  <2>2. QED
    BY <1>23, <2>1 DEF TypeOK, Flags, vars, ptpVars, uiVars, linkVars,
                       pllVars, calVars, daemonVars
<1>26. QED
  BY <1>1, <1>2, <1>3, <1>4, <1>5, <1>6, <1>7, <1>8, <1>9, <1>10, <1>11,
     <1>12, <1>13, <1>14, <1>15, <1>16, <1>17, <1>18, <1>19, <1>20, <1>21,
     <1>22, <1>23, <1>24, <1>25 DEF Next, Program, Command

(***************************************************************************)
(* The variables of the main program keep their types, whatever commands,  *)
(* links and losses of lock there are.                                     *)
(***************************************************************************)
THEOREM WrcTypes == Spec => []TypeOK
<1>1. Types => TypeOK
  BY DEF Types
<1>2. QED
  BY <1>1, InitTypes, StepTypes, PTL DEF Spec
-----------------------------------------------------------------------------
(* The output, the daemon and the watcher, when whatever begins lasts for  *)
(* a round of the main loop.                                               *)

(* The invariant holds when the program is loaded.                         *)
LEMMA InitIInv == Init => IInv
<1> SUFFICES ASSUME Init PROVE IInv
  OBVIOUS
<1>1. Types
  BY InitTypes
<1>2. QED
  BY <1>1 DEF Init, IInv, ModeSettled, OutputSettled, DaemonPlace,
              DaemonLink, WatcherSeen, Recalibrates, TrackCalibrated

(* Every step keeps it.                                                    *)
LEMMA StepIInv ==
    ASSUME ~SlowUi, IInv, [Next]_vars
    PROVE  IInv'
<1>t. Types /\ Types'
  BY StepTypes DEF IInv
<1> DEFINE Rest == /\ ModeSettled /\ OutputSettled /\ DaemonPlace
                   /\ DaemonLink /\ WatcherSeen /\ Recalibrates
<1> USE DEF ModeSettled, OutputSettled, DaemonPlace, DaemonLink, WatcherSeen,
            Recalibrates, TrackCalibrated
<1>r. Rest
  BY DEF IInv
<1>g. SUFFICES Rest'
  BY <1>t DEF IInv
<1>1. CASE LinkChanges
  <2>1. link' = ~link /\ fresh' = 2
    BY <1>1 DEF LinkChanges
  <2>2. fresh = 0 \/ pc \in {"setmode", "calib", "mlink", "mlock", "mcal"}
    BY <1>1 DEF LinkChanges, Slow
  <2>3. /\ transition' = (IF transition = "link" THEN "old" ELSE transition)
        /\ UNCHANGED <<pc, after, ptpVars, pps, pllVars, extClock,
                       prev_link_state, t24p_calibrated, daemon>>
        /\ excuse' = (IF pc = "calib" \/ (pc = "mcal" /\ excuse = "none")
                      THEN "sweep" ELSE excuse)
    BY <1>1 DEF LinkChanges
  <2>m. missed' = (missed \/ (link /\ prev_link_state = "down"))
    BY <1>1 DEF LinkChanges
  <2>4. CASE link
    <3>1. ~link'
      BY <2>1, <2>4
    <3>2. QED
      BY <1>t, <1>r, <2>1, <2>3, <2>m, <2>4, <3>1 DEF ptpVars, pllVars,
                                                      daemonVars
  <2>5. CASE ~link
    <3>1. daemon = "idle" \/ pc \in {"calib", "mlink", "mlock", "mcal"}
      BY <1>t, <1>r, <2>2, <2>5
    <3>2. link' = TRUE
      BY <2>1, <2>5
    <3>3. QED
      BY <1>t, <1>r, <2>1, <2>3, <2>m, <3>1, <3>2 DEF ptpVars, pllVars,
                                                      daemonVars
  <2>6. QED
    BY <2>4, <2>5
<1>2. CASE SpllLocks
  BY <1>t, <1>r, <1>2 DEF Types, TypeOK, SpllLocks, Spll!Acquire, ptpVars,
                          uiVars, linkVars, calVars, Slow, Reference,
                          daemonVars
<1>3. CASE SpllDelocks
  BY <1>t, <1>r, <1>3 DEF Types, TypeOK, SpllDelocks, Event, Spll!Lose,
                          ptpVars, uiVars, linkVars, calVars, daemonVars
<1>4. CASE SetModeDone
  BY <1>t, <1>r, <1>4 DEF Types, TypeOK, SetModeDone, uiVars, linkVars,
                          pllVars, calVars, spll_check_lock, PllModeOf,
                          daemonVars
<1>5. CASE SetModeWaits
  BY <1>t, <1>r, <1>5 DEF Types, TypeOK, SetModeWaits, uiVars, linkVars,
                          pllVars, calVars, daemonVars
<1>6. CASE SetModeGivesUp
  BY <1>t, <1>r, <1>6 DEF Types, TypeOK, SetModeGivesUp, Event, ptpVars,
                          uiVars, linkVars, pllVars, calVars, daemonVars
<1>7. CASE Boot
  BY <1>t, <1>r, <1>7 DEF Types, TypeOK, Boot, SetMode, PtpStop, spll_init,
                          Spll!Configure, uiVars, linkVars, PllModeOf,
                          daemonVars, Idle
<1>8. CASE Start
  BY <1>t, <1>r, <1>8 DEF Types, TypeOK, Start, PtpStart, uiVars, linkVars,
                          pllVars, calVars, daemonVars, Idle
<1>9. CASE ScriptEnds
  BY <1>t, <1>r, <1>9 DEF Types, TypeOK, ScriptEnds, ptpVars, uiVars,
                          linkVars, pllVars, calVars, daemonVars
<1>10. CASE Command /\ CmdMode
  BY <1>t, <1>r, <1>10 DEF Types, TypeOK, Command, Event, Return, CmdMode,
                           SetMode, PtpStop, spll_init, Spll!Configure,
                           uiVars, linkVars, calVars, PllModeOf, daemonVars,
                           Idle
<1>11. CASE Command /\ CmdPtp
  BY <1>t, <1>r, <1>11 DEF Types, TypeOK, Command, Event, Return, CmdPtp,
                           PtpStart, PtpStop, uiVars, linkVars, pllVars,
                           calVars, daemonVars, Idle
<1>12. CASE Command /\ CmdCalibration
  BY <1>t, <1>r, <1>12 DEF Types, TypeOK, Command, Event, Return,
                           CmdCalibration, ptpVars, uiVars, linkVars,
                           pllVars, daemonVars
<1>13. CASE Command /\ CmdUi
  BY <1>t, <1>r, <1>13 DEF Types, TypeOK, Command, Event, Return, CmdUi,
                           ptpVars, linkVars, pllVars, calVars, daemonVars
<1>14. CASE MeasureLink
  BY <1>t, <1>r, <1>14 DEF Types, TypeOK, MeasureLink, spll_init,
                           Spll!Configure, ptpVars, uiVars, linkVars,
                           calVars, PllModeOf, daemonVars
<1>15. CASE MeasureLock
  BY <1>t, <1>r, <1>15 DEF Types, TypeOK, MeasureLock, ptpVars, uiVars,
                           linkVars, pllVars, calVars, daemonVars
<1>16. CASE MeasureDone
  BY <1>t, <1>r, <1>16 DEF Types, TypeOK, MeasureDone, ptpVars, uiVars,
                           linkVars, pllVars, spll_check_lock, Reference,
                           daemonVars
<1>17. CASE CheckLink
  BY <1>t, <1>r, <1>17 DEF Types, TypeOK, CheckLink, LinkDown, spll_init,
                           Spll!Configure, ptpVars, uiVars, pllVars, calVars,
                           LinkStatus, daemonVars
<1>18. CASE UiIdle
  BY <1>t, <1>r, <1>18 DEF Types, TypeOK, UiIdle, Event, ptpVars, linkVars,
                           pllVars, calVars, daemonVars
<1>19. CASE GetIP
  BY <1>t, <1>r, <1>19 DEF Types, TypeOK, GetIP, ptpVars, uiVars, pllVars,
                           calVars, daemonVars
<1>20. CASE PtpUpdate
  BY <1>t, <1>r, <1>20 DEF Types, TypeOK, PtpUpdate, DaemonStep,
                           LockingEnable, LockingPoll, EndLoop, Older,
                           spll_init, Spll!Configure, ptpVars, uiVars,
                           linkVars, pllVars, spll_check_lock, PllModeOf,
                           daemonVars, Idle
<1>21. CASE CalibDone
  BY <1>t, <1>r, <1>21 DEF Types, TypeOK, CalibDone, EndLoop, Older, ptpVars,
                           uiVars, linkVars, pllVars, spll_check_lock,
                           Reference, PllModeOf, daemonVars
<1>22. CASE Polls
  BY <1>t, <1>r, <1>22 DEF Types, TypeOK, Polls, vars, ptpVars, uiVars,
                           linkVars, pllVars, calVars, daemonVars
<1>23. CASE UNCHANGED vars
  BY <1>t, <1>r, <1>23 DEF Types, TypeOK, vars, ptpVars, uiVars, linkVars,
                           pllVars, calVars, daemonVars
<1>24. CASE Mute
  BY <1>t, <1>r, <1>24 DEF Types, TypeOK, Mute, ptpVars, uiVars, linkVars,
                           pllVars, calVars, daemonVars
<1>25. CASE Realign
  <2>1. /\ UNCHANGED <<pc, after, ptpVars, link, pllVars, extClock, calVars,
                       daemonVars, fresh, prev_link_state, missed>>
        /\ spll_mode = "gm" /\ extClock = "on"
    BY <1>25 DEF Realign, linkVars
  <2>2. ptp_mode \in {"gm", "unknown"}
    BY <1>r, <2>1
  <2>3. ModeSettled' /\ DaemonPlace' /\ DaemonLink' /\ Recalibrates'
    BY <1>r, <2>1 DEF ptpVars, pllVars, calVars, daemonVars
  <2>4. OutputSettled'
    BY <2>1, <2>2 DEF ptpVars, pllVars, PllModeOf
  <2>5. WatcherSeen'
    BY <1>r, <2>1, <2>2 DEF ptpVars
  <2>6. QED
    BY <2>3, <2>4, <2>5
<1>26. QED
  BY <1>1, <1>2, <1>3, <1>4, <1>5, <1>6, <1>7, <1>8, <1>9, <1>10, <1>11, <1>12,
     <1>13, <1>14, <1>15, <1>16, <1>17, <1>18, <1>19, <1>20, <1>21, <1>22,
     <1>23, <1>24, <1>25 DEF Next, Program, Command

(* The inductive invariant gives what the runs check.                      *)
LEMMA IInvImplies == IInv => PpsTrue /\ TrackCalibrated
<1> SUFFICES ASSUME IInv PROVE PpsTrue /\ TrackCalibrated
  OBVIOUS
<1>1. PpsFollowsClock
  BY DEF IInv, Types, TypeOK, OutputSettled, PllModeOf, Refused,
         PpsFollowsClock, ModeSettled
<1>2. DownIsSafe
  BY DEF IInv, WatcherSeen, DownIsSafe
<1>3. QED
  BY <1>1, <1>2 DEF IInv, Types, PpsTrue, Recalibrates

(***************************************************************************)
(* No user of the core's timing is told that it is valid when it is not,   *)
(* for every set of commands, lock timeout and number of events: the mode  *)
(* command, the daemon, the link watcher, the calibration, in any mode and *)
(* at any time, and the realignment never leave the output on with the PLL *)
(* in a mode other than the operating mode's, nor on a slave whose watcher *)
(* has seen the link go.  Left out, as PpsFollowsClock and DownIsSafe say: *)
(* the moment before the output is muted, a refused grandmaster, a link    *)
(* that came and went unseen.  Assumed: the link and the PLL change no     *)
(* faster than the main loop goes round.                                   *)
(***************************************************************************)
THEOREM PpsAlwaysTrue ==
    ASSUME ~SlowUi
    PROVE  Spec => []PpsTrue
<1>1. IInv /\ [Next]_vars => IInv'
  BY StepIInv
<1>2. QED
  BY <1>1, InitIInv, IInvImplies, PTL DEF Spec

(***************************************************************************)
(* A slave that tracks never uses a transition phase of an earlier link,   *)
(* under the same assumption: the first locking_poll after the lock was    *)
(* asked for comes before the PLL can have locked, and resets              *)
(* t24p_calibrated.  Excused, as TrackCalibrated says: the shell's         *)
(* calibration given while the daemon locks or tracks, which may relock    *)
(* the PLL before that poll, and a sweep that failed or whose link went.   *)
(***************************************************************************)
THEOREM TrackAlwaysCalibrated ==
    ASSUME ~SlowUi
    PROVE  Spec => []TrackCalibrated
<1>1. IInv /\ [Next]_vars => IInv'
  BY StepIInv
<1>2. QED
  BY <1>1, InitIInv, IInvImplies, PTL DEF Spec
=============================================================================
