-------------------------------- MODULE RtIpc --------------------------------
(***************************************************************************)
(* The real-time subsystem of the WR switch: the loop of wrs_main.c, which *)
(* refreshes pstate from the SoftPLL (rts_update) and serves one request   *)
(* of the switch's hardware abstraction layer (rtipc_action), and the      *)
(* procedures of ipc/rt_ipc.c.  The SoftPLL appears as the states of its   *)
(* service, changing beside the loop.                                      *)
(***************************************************************************)
EXTENDS MiniIpc, Integers

CONSTANTS
    Channels,   \* 0 .. RTS_PLL_CHANNELS - 1
    NRef,       \* the reference channels this switch has
    MaxUps      \* bound: restarts of the real-time processor

VARIABLES
    pstate,     \* [mode, current_ref, locked, setpoint, shifting, ptracker]
    spll,       \* [mode, ref, locked, target, current, ext]; ext is the
                \* hardware's SPLL_ECCR_EXT_SUPPORTED
    trackers,   \* ptracker_mask
    beenLocked, \* ghost: the PLL has been locked since the last spll_init
    ups         \* bound: restarts so far

rtVars == <<pstate, spll, trackers, beenLocked>>
vars == <<ipcVars, rtVars, ups>>

\* The mode table of rts_set_mode: RTS_MODE_xxx to SPLL_MODE_xxx.  A boundary
\* clock waits, disabled, for the channel it shall lock to.
Options == [gm_external    |-> "grand_master",
            gm_freerunning |-> "free_running",
            bc             |-> "disabled",
            disabled       |-> "disabled"]

RefChannels == {c \in Channels : c < NRef}

\* The arguments are those the stubs of the HAL pass: a mode of rt_ipc.h or
\* another number, channels of the table.  The procedures do not check them.
ASSUME RtIpcAssumption ==
    /\ Channels \subseteq Nat /\ 0 \in Channels
    /\ NRef \in Nat /\ MaxUps \in Nat
    /\ \A n \in Names :
        /\ n = "rts_set_mode" => Args[n] \subseteq DOMAIN Options \cup {"other"}
        /\ n = "rts_lock_channel" => Args[n] \subseteq Channels
        /\ n = "rts_adjust_phase" => Args[n] \subseteq Channels \X Int
        /\ n = "rts_enable_ptracker" => Args[n] \subseteq Channels \X BOOLEAN

\* clear_state
Cleared ==
    [mode |-> "disabled", current_ref |-> 0, locked |-> FALSE,
     setpoint |-> [c \in Channels |-> 0], shifting |-> {}, ptracker |-> {}]

PllOff(ext) == [mode |-> "disabled", ref |-> 0, locked |-> FALSE,
                target |-> 0, current |-> 0, ext |-> ext]

TypeOK ==
    /\ pstate.mode \in DOMAIN Options \cup {"other"}
    /\ pstate.current_ref \in Channels /\ pstate.locked \in BOOLEAN
    /\ pstate.shifting \subseteq RefChannels
    /\ pstate.ptracker \subseteq RefChannels
    /\ trackers \subseteq Channels
    /\ {nrequest, nreply, pid, seen} \subseteq 0..(CounterMod - 1)
    /\ Len(flist) <= MaxExport

Init == IpcInit /\ pstate = Cleared /\ spll \in {PllOff(ext) : ext \in BOOLEAN}
        /\ trackers = {} /\ beenLocked = FALSE /\ ups = 0

-----------------------------------------------------------------------------
\* The SoftPLL beside the loop.

\* The grandmaster mode on hardware without an external reference: spll_init
\* has returned with the interrupt disabled.
Refused == spll.mode = "grand_master" /\ ~spll.ext

PllLocks ==
    /\ spll.mode # "disabled" /\ ~Refused /\ ~spll.locked
    /\ spll' = [spll EXCEPT !.locked = TRUE] /\ beenLocked' = TRUE
    /\ UNCHANGED <<ipcVars, pstate, trackers, ups>>

PllDelocks ==
    /\ ~Refused /\ spll.locked /\ spll' = [spll EXCEPT !.locked = FALSE]
    /\ UNCHANGED <<ipcVars, pstate, trackers, beenLocked, ups>>

\* Only a slave's main PLL is updated.
PllShifts ==
    /\ spll.mode = "slave" /\ spll.locked /\ spll.current # spll.target
    /\ spll' = [spll EXCEPT !.current = spll.target]
    /\ UNCHANGED <<ipcVars, pstate, trackers, beenLocked, ups>>

\* spll_init(mode, ref, ...): no lock and no shift; ptracker_mask stays what
\* it was.  When it refuses, the sequencer and the main PLL stay as well.
SpllInit(mode, ref) ==
    /\ spll' = IF mode = "grand_master" /\ ~spll.ext
               THEN [spll EXCEPT !.mode = mode]
               ELSE [PllOff(spll.ext) EXCEPT !.mode = mode, !.ref = ref]
    /\ beenLocked' = FALSE /\ UNCHANGED trackers

-----------------------------------------------------------------------------
\* The procedures.

rts_set_mode(mode) ==
    /\ pstate' = [pstate EXCEPT !.mode = mode]
    /\ IF mode \in DOMAIN Options
       THEN SpllInit(Options[mode], 0)
       ELSE UNCHANGED <<spll, trackers, beenLocked>>

\* Only a boundary clock locks to a channel; otherwise -1.
rts_lock_channel(channel) ==
    IF pstate.mode # "bc" THEN UNCHANGED rtVars
    ELSE /\ SpllInit("slave", channel)
         /\ pstate' = [pstate EXCEPT !.current_ref = channel]

\* The shift goes to the main PLL whatever the channel is.
rts_adjust_phase(channel, ps) ==
    /\ spll' = [spll EXCEPT !.target = ps]
    /\ pstate' = [pstate EXCEPT !.setpoint[channel] = ps]
    /\ UNCHANGED <<trackers, beenLocked>>

rts_enable_ptracker(channel, enable) ==
    /\ trackers' = IF enable THEN trackers \cup {channel} ELSE trackers \ {channel}
    /\ UNCHANGED <<pstate, spll, beenLocked>>

\* The body of the procedure called request.name.
Execute ==
    IF ~Known THEN UNCHANGED rtVars
    ELSE CASE request.name = "rts_set_mode"     -> rts_set_mode(request.arg)
           [] request.name = "rts_lock_channel" -> rts_lock_channel(request.arg)
           [] request.name = "rts_adjust_phase" ->
                 rts_adjust_phase(request.arg[1], request.arg[2])
           [] request.name = "rts_enable_ptracker" ->
                 rts_enable_ptracker(request.arg[1], request.arg[2])
           [] OTHER                             -> UNCHANGED rtVars \* rts_get_state

\* What is written into the reply: rts_get_state copies pstate.
Value == IF request.name = "rts_get_state" THEN pstate ELSE Nothing

ServerCall == Answer(Value) /\ Execute /\ UNCHANGED ups

-----------------------------------------------------------------------------
\* The main loop.

\* Mutated: the flag of the lock is set but never cleared.
rts_updateStale ==
    /\ spc = "update" /\ spc' = "action"
    /\ pstate' = [pstate EXCEPT
                    !.shifting = IF spll.target # spll.current /\ pstate.current_ref < NRef
                                 THEN {pstate.current_ref} ELSE {},
                    !.locked = pstate.locked \/ spll.locked,
                    !.ptracker = trackers \cap RefChannels]
    /\ UNCHANGED <<mailbox, pid, flist, cpc, seen, spll, trackers,
                   beenLocked, ups>>

rts_update ==
    /\ spc = "update" /\ spc' = "action"
    /\ pstate' = [pstate EXCEPT
                    !.shifting = IF spll.target # spll.current /\ pstate.current_ref < NRef
                                 THEN {pstate.current_ref} ELSE {},
                    !.locked = spll.locked,
                    !.ptracker = trackers \cap RefChannels]
    /\ UNCHANGED <<mailbox, pid, flist, cpc, seen, spll, trackers,
                   beenLocked, ups>>

Mailbox ==
    /\ ClientFill \/ ClientPost \/ ClientTake
    /\ UNCHANGED <<rtVars, ups>>

Server ==
    \/ rts_update \/ ServerCall
    \/ (ServerIdle \/ ServerAccept \/ ServerReply) /\ UNCHANGED <<rtVars, ups>>

\* The host loads the program again between two calls: main() starts over.
Restart ==
    /\ cpc = "idle" /\ ups < MaxUps /\ ups' = ups + 1
    /\ ServerCreated /\ spc' = "update"
    /\ pstate' = Cleared /\ spll' = PllOff(spll.ext) /\ trackers' = {}
    /\ beenLocked' = FALSE
    /\ UNCHANGED <<cpc, seen>>

Next == Mailbox \/ Server \/ Restart \/ PllLocks \/ PllDelocks \/ PllShifts

\* The loop of main() never stops, and the client waits for its answer.
Spec == Init /\ [][Next]_vars /\ WF_vars(Server) /\ WF_vars(ClientTake /\ UNCHANGED <<rtVars, ups>>)

-----------------------------------------------------------------------------
(***************************************************************************)
(* rts_get_state never reports the lock of an earlier configuration: a     *)
(* caller that has just changed the mode or the reference and is told      *)
(* RTS_REF_LOCKED can rely on it, although pstate is a copy.  The code     *)
(* does not keep it after a set_mode that the hardware refuses, which      *)
(* leaves the sequencer in the state of the mode before: left out.         *)
(***************************************************************************)
LockReportFresh ==
    (spc = "reply" /\ reply.type = "value" /\ reply.of.name = "rts_get_state"
        /\ reply.val.locked) => beenLocked \/ Refused

(***************************************************************************)
(* The mode that is reported is the mode of the PLL, whatever sequence of  *)
(* set_mode and lock_channel led here, as long as the mode is a known one. *)
(***************************************************************************)
ModeCoherent ==
    CASE pstate.mode = "bc"           -> spll.mode \in {"disabled", "slave"}
      [] pstate.mode = "other"        -> TRUE
      [] OTHER                        -> spll.mode = Options[pstate.mode]

(***************************************************************************)
(* What the switch's software is told of the real-time subsystem is true   *)
(* when it is told: a lock is one of the configuration in force unless     *)
(* that was refused, the mode is the PLL's.                                *)
(***************************************************************************)
ReportTrue == TypeOK /\ LockReportFresh /\ ModeCoherent

(***************************************************************************)
(* Every call is answered.                                                 *)
(***************************************************************************)
CallsReturn == cpc = "waiting" ~> cpc = "idle"
=============================================================================
