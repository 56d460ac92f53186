----------------------------- MODULE Algorithms -----------------------------
(***************************************************************************)
(* All computations of the firmware and of its tools that are checked      *)
(* input by input.                                                         *)
(***************************************************************************)
EXTENDS Drivers, Library, Stores, Kconf, Dialogs

Init == job = Idle

Next ==
    \/ job = Idle /\ (DriverJobs \/ LibraryJobs \/ StoreJobs \/ KconfJobs \/ DialogJobs)
    \/ UseConsole \/ TypeKey \/ NextLine \/ StoreCommand \/ EditConfig \/ RunBuild \/ UseDialog
    \/ Finish

Spec == Init /\ [][Next]_job

-----------------------------------------------------------------------------
\* What is checked of them, by subject.  The parts are stated with their jobs,
\* under the conditions and with the exceptions given there.

(***************************************************************************)
(* The buses deliver: every device of the 1-wire bus and of the SDB tree   *)
(* is found, what is written to an EEPROM page by page or byte by byte is  *)
(* stored or an error returned, and the part number of an SFP is the one   *)
(* in it, although devices share ROM bits, are deaf while they store, or   *)
(* do not answer.                                                          *)
(***************************************************************************)
BusesRight ==
    /\ FindsDevices /\ PagesWritten /\ PartIdRead /\ EepromReadsBack
    /\ DeviceFound

(***************************************************************************)
(* Time is right at every roll-over: the transition found by the           *)
(* calibrator and kept in the EEPROM, the seconds and cycles read word by  *)
(* word while they run on, the second of a TX timestamp, the clocks and    *)
(* dividers of the switch after any sequence of settings, and every delay, *)
(* on timers and circles that wrap.                                        *)
(***************************************************************************)
TimeRight ==
    /\ TransitionAccurate /\ StoredMatches /\ TimeConsistent /\ TxSecondTrue
    /\ AdjustExact /\ ClocksRight /\ DividerExact /\ DelayExact
    /\ LoopsCalibrated /\ SleepAccurate

(***************************************************************************)
(* A frame is routed, copied around the end of the ring, padded and given  *)
(* checksums so that its receiver takes it for what was sent, whatever     *)
(* earlier frames left in registers and buffers; and the link is up        *)
(* exactly when the PHY says so now.                                       *)
(***************************************************************************)
FramesRight ==
    /\ FilterRoutes /\ LinkTrue /\ RingCopied /\ FramePadded
    /\ PacketsVerify /\ EchoVerifies

(***************************************************************************)
(* What is typed on the host reaches the commands of the shell: through    *)
(* the shared words of the console under every interleaving of the two     *)
(* sides, through the line editor after every sequence of keys, and        *)
(* through the splitting into arguments at the limits of its buffers.      *)
(***************************************************************************)
ConsoleRight == ConsoleDelivers /\ LineTyped /\ LineSplit

(***************************************************************************)
(* A number, an address, a temperature or a date that is printed reads     *)
(* back as what it was, at every boundary of width, sign and calendar, and *)
(* the three builds of printf agree.                                       *)
(***************************************************************************)
TextRight ==
    /\ DigitsExact /\ NumberReadsBack /\ VsprintfAgree /\ AddressReadsBack
    /\ Print64ReadsBack /\ TempReadsBack /\ CalendarRight

(***************************************************************************)
(* The store in the SDB file system survives a failure between any two     *)
(* cells of any sequence of commands: the next match, boot and start use   *)
(* whole records, lines and addresses only.                                *)
(***************************************************************************)
StoreSound == StoreAtomic /\ MatchWhole /\ BootWhole /\ MacChosen

(***************************************************************************)
(* The configuration tool's expressions mean what the Kconfig file says:   *)
(* no rewriting, comparison, negation, printing or nesting in menus        *)
(* changes the value of one under any assignment, and every cycle of       *)
(* dependencies is reported.                                               *)
(***************************************************************************)
ExprRight ==
    /\ SimplifyKeepsValue /\ EqualMeansSame /\ DependencyRight
    /\ PrintReadsBack /\ MenuRight /\ CyclesFound

(***************************************************************************)
(* After any sequence of edits, loads and saves the values shown are those *)
(* of the present settings and not cached ones, a value that was accepted  *)
(* holds, the saved file brings the same configuration back, the automatic *)
(* modes reach what their names say, and exactly the files that depend on  *)
(* a change are built again.                                               *)
(***************************************************************************)
ConfigRight ==
    /\ CacheCurrent /\ AcceptedHolds /\ SavedReadsBack /\ AllAnswered
    /\ AllSet /\ StringReadsBack /\ RebuiltRight

(***************************************************************************)
(* The item or character a key will act on is always the one that is shown *)
(* as chosen, after any sequence of keys, scrolls and returns from a       *)
(* submenu and at every size of the box.                                   *)
(***************************************************************************)
DialogsRight == MenuShown /\ MenuComesBack /\ ListShown /\ InputShown
=============================================================================
