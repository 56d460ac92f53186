---------------------------- MODULE RtIpcProofs ----------------------------
(***************************************************************************)
(* The mailbox implements the remote procedure call, and what the real-    *)
(* time subsystem reports is true, for every list of procedures, every     *)
(* width of the counters and every number of channels.                     *)
(***************************************************************************)
EXTENDS RtIpc, TLAPS, WellFoundedInduction

-----------------------------------------------------------------------------
(* The list of exported procedures, by induction on the calls of           *)
(* minipc_export.  A set takes the place of the predicate: the provers     *)
(* cannot instantiate the library's induction theorems.                    *)

(* A set of natural numbers that is not empty has a least element.         *)
LEMMA LeastNatural ==
    ASSUME NEW T \in SUBSET Nat, T # {}
    PROVE  \E x \in T : \A y \in T : x <= y
<1>1. IsWellFoundedOn(OpToRel(<, Nat), Nat)
  BY NatLessThanWellFounded
<1>2. PICK x \in T : \A y \in T : ~(<<y, x>> \in OpToRel(<, Nat))
  BY <1>1, WFMin
<1>3. ASSUME NEW y \in T PROVE x <= y
  <2>1. <<y, x>> \notin OpToRel(<, Nat)
    BY <1>2, Zenon
  <2>2. <<y, x>> \in Nat \X Nat
    OBVIOUS
  <2>3. ~(y < x)
    BY <2>1, <2>2 DEF OpToRel
  <2>4. QED
    BY <2>3
<1>4. QED
  BY <1>3

(* As many entries as were asked for, but no more than the static list     *)
(* has; the last one exported is the first one found.                      *)
Entries(n) == IF n < MaxExport THEN n ELSE MaxExport
Listed(n) == [i \in 1 .. Entries(n) |-> Procs[Entries(n) + 1 - i]]
Named == {Procs[i] : i \in Nat}

(* One more export: linked in front, or refused when the list is full.     *)
LEMMA ListedNext ==
    ASSUME NEW n \in Nat
    PROVE  /\ Listed(n) \in Seq(Named) /\ Len(Listed(n)) = Entries(n)
           /\ Export(Listed(n), Procs[n + 1]) = Listed(n + 1)
<1> USE MiniIpcAssumption
<1>1. Entries(n) \in Nat
  BY DEF Entries
<1>2. Listed(n) \in Seq(Named) /\ Len(Listed(n)) = Entries(n)
  <2>1. \A i \in 1 .. Entries(n) : Procs[Entries(n) + 1 - i] \in Named
    BY <1>1 DEF Named
  <2>2. Listed(n) \in [1 .. Entries(n) -> Named]
    BY <2>1 DEF Listed
  <2>3. QED
    BY <1>1, <2>2
<1>3. CASE n < MaxExport
  <2>1. Entries(n) = n /\ Entries(n + 1) = n + 1
    BY <1>3 DEF Entries
  <2>2. Export(Listed(n), Procs[n + 1]) = <<Procs[n + 1]>> \o Listed(n)
    BY <1>2, <1>3, <2>1 DEF Export
  <2>3. <<Procs[n + 1]>> \o Listed(n) = Listed(n + 1)
    BY <1>2, <2>1 DEF Listed
  <2>4. QED
    BY <1>2, <2>2, <2>3
<1>4. CASE ~(n < MaxExport)
  BY <1>2, <1>4 DEF Entries, Export, Listed
<1>5. QED
  BY <1>3, <1>4

(* The recursive definition of Exported has a solution, so it holds.       *)
LEMMA ExportedStep ==
    \A n \in Nat : Exported[n] = IF n = 0 THEN <<>> ELSE Export(Exported[n - 1], Procs[n])
<1> DEFINE Next1(f) == [n \in Nat |-> IF n = 0 THEN <<>> ELSE Export(f[n - 1], Procs[n])]
           F == [n \in Nat |-> Listed(n)]
<1>1. F = Next1(F)
  <2>1. Listed(0) = <<>>
    BY MiniIpcAssumption DEF Listed, Entries
  <2>2. ASSUME NEW n \in Nat, n # 0
        PROVE  Listed(n) = Export(Listed(n - 1), Procs[n])
    BY <2>2, ListedNext
  <2>3. QED
    BY <2>1, <2>2
<1>2. Exported = CHOOSE f : f = Next1(f)
  BY DEF Exported
<1>3. Exported = Next1(Exported)
  <2> HIDE DEF F, Next1
  <2>1. QED
    BY <1>1, <1>2
<1>4. QED
  BY <1>3

(***************************************************************************)
(* The list that rtipc_init leaves holds the first MINIPC_MAX_EXPORT       *)
(* procedures, the last one first, however many it exports.                *)
(***************************************************************************)
LEMMA ExportedIs == \A n \in Nat : Exported[n] = Listed(n)
<1> DEFINE Wrong == {n \in Nat : Exported[n] # Listed(n)}
<1>1. SUFFICES ASSUME Wrong # {} PROVE FALSE
  OBVIOUS
<1>2. PICK n \in Wrong : \A m \in Wrong : n <= m
  BY <1>1, LeastNatural
<1>3. CASE n = 0
  BY <1>2, <1>3, ExportedStep, MiniIpcAssumption DEF Listed, Entries
<1>4. CASE n # 0
  <2>1. n - 1 \in Nat /\ n - 1 \notin Wrong
    BY <1>2, <1>4
  <2>2. Exported[n - 1] = Listed(n - 1)
    BY <2>1
  <2>3. Exported[n] = Export(Listed(n - 1), Procs[n])
    BY <1>4, <2>2, ExportedStep
  <2>4. Export(Listed(n - 1), Procs[(n - 1) + 1]) = Listed((n - 1) + 1)
    BY <2>1, ListedNext
  <2>5. (n - 1) + 1 = n
    OBVIOUS
  <2>6. QED
    BY <1>2, <2>3, <2>4, <2>5
<1>5. QED
  BY <1>3, <1>4

-----------------------------------------------------------------------------
(* The two processors and the counters.                                    *)

Counters == 0 .. CounterMod - 1

IpcTypes ==
    /\ nrequest \in Counters /\ nreply \in Counters
    /\ pid \in Counters /\ seen \in Counters
    /\ flist = Listed(Len(Procs))
    /\ spc \in {"update", "action", "call", "reply"}
    /\ cpc \in {"idle", "filled", "waiting"}

(* The handshake.  While nobody calls, the server has served what was      *)
(* asked for.  A call is either not accepted yet, or being served, or      *)
(* answered; only in the last case has nreply moved since the caller read  *)
(* it, and the reply is the one of this request.                           *)
Handshake ==
    /\ cpc # "idle" => request \in Requests
    /\ cpc # "waiting" => nrequest = pid /\ spc \in {"update", "action"}
    /\ cpc = "waiting" =>
         \/ nrequest # pid /\ nreply = seen /\ spc \in {"update", "action"}
         \/ nrequest = pid /\ nreply = seen /\ spc = "call"
         \/ nrequest = pid /\ nreply = seen /\ spc = "reply" /\ reply.of = request
         \/ nrequest = pid /\ nreply # seen /\ spc \in {"update", "action"}
              /\ reply.of = request

IpcInv == IpcTypes /\ Handshake

(* What the steps of the loop, of the client and of the PLL are to the     *)
(* mailbox.                                                                *)
IpcNext ==
    \/ ClientFill \/ ClientPost \/ ClientTake
    \/ ServerIdle \/ ServerAccept \/ Answer(Value) \/ ServerReply
    \/ spc = "update" /\ spc' = "action" /\ UNCHANGED <<mailbox, pid, flist, cpc, seen>>
    \/ cpc = "idle" /\ ServerCreated /\ spc' = "update" /\ UNCHANGED <<cpc, seen>>

(* Every step is one of them or leaves the mailbox alone.                  *)
LEMMA StepIpc == [Next]_vars => [IpcNext]_ipcVars
<1> SUFFICES ASSUME [Next]_vars PROVE [IpcNext]_ipcVars
  OBVIOUS
<1>1. CASE Mailbox
  BY <1>1 DEF Mailbox, IpcNext
<1>2. CASE Server
  BY <1>2 DEF Server, IpcNext, rts_update, ServerCall
<1>3. CASE Restart
  BY <1>3 DEF Restart, IpcNext
<1>4. CASE PllLocks \/ PllDelocks \/ PllShifts
  BY <1>4 DEF PllLocks, PllDelocks, PllShifts, ipcVars
<1>5. CASE UNCHANGED vars
  BY <1>5 DEF vars, ipcVars
<1>6. QED
  BY <1>1, <1>2, <1>3, <1>4, <1>5 DEF Next

(* Counting up stays within the counter and always changes it.             *)
LEMMA UpMoves ==
    ASSUME NEW n \in Counters
    PROVE  Up(n) \in Counters /\ Up(n) # n
<1>1. Up(n) = IF n + 1 = CounterMod THEN 0 ELSE n + 1
  BY MiniIpcAssumption DEF Up, Counters
<1>2. QED
  BY <1>1, MiniIpcAssumption DEF Counters

(* The handshake holds when the server has been created ...                *)
LEMMA InitIpc == Init => IpcInv
<1>1. Len(Procs) \in Nat /\ 0 \in Counters
  BY MiniIpcAssumption DEF Counters
<1>2. QED
  BY <1>1, ExportedIs DEF Init, IpcInit, IpcInv, IpcTypes, Handshake

(* ... and every step keeps it.                                            *)
LEMMA KeepIpc == IpcInv /\ [IpcNext]_ipcVars => IpcInv'
<1> SUFFICES ASSUME IpcInv, [IpcNext]_ipcVars PROVE IpcInv'
  OBVIOUS
<1>1. CASE ClientFill
  BY <1>1 DEF IpcInv, IpcTypes, Handshake, ClientFill
<1>2. CASE ClientPost
  BY <1>2, UpMoves DEF IpcInv, IpcTypes, Handshake, ClientPost
<1>3. CASE ClientTake
  BY <1>3 DEF IpcInv, IpcTypes, Handshake, ClientTake
<1>4. CASE ServerIdle
  BY <1>4 DEF IpcInv, IpcTypes, Handshake, ServerIdle, NewRequest, mailbox
<1>5. CASE ServerAccept
  BY <1>5 DEF IpcInv, IpcTypes, Handshake, ServerAccept, NewRequest, mailbox
<1>6. CASE Answer(Value)
  BY <1>6 DEF IpcInv, IpcTypes, Handshake, Answer
<1>7. CASE ServerReply
  BY <1>7, UpMoves DEF IpcInv, IpcTypes, Handshake, ServerReply
<1>8. CASE spc = "update" /\ spc' = "action" /\ UNCHANGED <<mailbox, pid, flist, cpc, seen>>
  BY <1>8 DEF IpcInv, IpcTypes, Handshake, mailbox
<1>9. CASE cpc = "idle" /\ ServerCreated /\ spc' = "update" /\ UNCHANGED <<cpc, seen>>
  <2>1. Len(Procs) \in Nat /\ 0 \in Counters
    BY MiniIpcAssumption DEF Counters
  <2>2. QED
    BY <1>9, <2>1, ExportedIs DEF IpcInv, IpcTypes, Handshake, ServerCreated
<1>10. CASE UNCHANGED ipcVars
  BY <1>10 DEF IpcInv, IpcTypes, Handshake, ipcVars, mailbox
<1>11. QED
  BY <1>1, <1>2, <1>3, <1>4, <1>5, <1>6, <1>7, <1>8, <1>9, <1>10 DEF IpcNext

(* The handshake holds in every state.                                     *)
LEMMA IpcAlways == Spec => []IpcInv
BY InitIpc, StepIpc, KeepIpc, PTL DEF Spec

(* A step of the mailbox is a step of the service, or none.                *)
LEMMA StepRpc == IpcInv /\ IpcInv' /\ [IpcNext]_ipcVars => [Rpc!RNext]_(Rpc!rvars)
<1> SUFFICES ASSUME IpcInv, IpcInv', [IpcNext]_ipcVars
             PROVE  [Rpc!RNext]_(Rpc!rvars)
  OBVIOUS
<1> USE DEF IpcInv, IpcTypes, Handshake
<1>1. CASE ClientFill
  <2>1. Phase = "idle" /\ Phase' = "idle"
    BY <1>1 DEF ClientFill, Phase
  <2>2. QED
    BY <2>1 DEF Rpc!rvars
<1>2. CASE ClientPost
  <2>1. Phase = "idle" /\ Phase' = "called" /\ request' \in Requests
    BY <1>2 DEF ClientPost, Phase
  <2>2. QED
    BY <2>1 DEF Rpc!RNext, Rpc!Invoke
<1>3. CASE ClientTake
  <2>1. Phase = "done" /\ Phase' = "idle"
    BY <1>3 DEF ClientTake, Phase
  <2>2. QED
    BY <2>1 DEF Rpc!RNext, Rpc!Deliver
<1>4. CASE ServerIdle \/ ServerAccept
  <2>1. Phase' = Phase /\ request' = request /\ reply' = reply
    BY <1>4 DEF ServerIdle, ServerAccept, mailbox, Phase
  <2>2. QED
    BY <2>1 DEF Rpc!rvars
<1>5. CASE Answer(Value)
  <2>1. Phase = "called" /\ Phase' = "done" /\ request' = request /\ reply'.of = request
    BY <1>5 DEF Answer, Phase
  <2>2. QED
    BY <2>1 DEF Rpc!RNext, Rpc!Run
<1>6. CASE ServerReply
  <2>1. Phase = "done" /\ Phase' = "done" /\ request' = request /\ reply' = reply
    BY <1>6, UpMoves DEF ServerReply, Phase
  <2>2. QED
    BY <2>1 DEF Rpc!rvars
<1>7. CASE spc = "update" /\ spc' = "action" /\ UNCHANGED <<mailbox, pid, flist, cpc, seen>>
  <2>1. Phase' = Phase /\ request' = request /\ reply' = reply
    BY <1>7 DEF mailbox, Phase
  <2>2. QED
    BY <2>1 DEF Rpc!rvars
<1>8. CASE cpc = "idle" /\ ServerCreated /\ spc' = "update" /\ UNCHANGED <<cpc, seen>>
  <2>1. Phase = "idle" /\ Phase' = "idle"
    BY <1>8 DEF Phase
  <2>2. QED
    BY <2>1 DEF Rpc!rvars
<1>9. CASE UNCHANGED ipcVars
  <2>1. Phase' = Phase /\ request' = request /\ reply' = reply
    BY <1>9 DEF ipcVars, mailbox, Phase
  <2>2. QED
    BY <2>1 DEF Rpc!rvars
<1>10. QED
  BY <1>1, <1>2, <1>3, <1>4, <1>5, <1>6, <1>7, <1>8, <1>9 DEF IpcNext

(***************************************************************************)
(* The mailbox of minipc-mem-server.c is a remote procedure call: for every*)
(* width of the two counters and every list of procedures, a call runs its *)
(* procedure exactly once between the post and the return, with the        *)
(* arguments posted, and hands back what that run produced.                *)
(***************************************************************************)
THEOREM MailboxImplementsRpc == Spec => RpcSpec
<1>1. Init => Rpc!RInit
  BY DEF Init, IpcInit, Rpc!RInit, Phase
<1>2. QED
  BY <1>1, IpcAlways, StepIpc, StepRpc, PTL DEF Spec, RpcSpec, Rpc!RSpec
-----------------------------------------------------------------------------
(* What the real-time subsystem reports.                                   *)

Modes == {"disabled", "slave", "grand_master", "free_running"}

Plls == [mode : Modes, ref : Channels, locked : BOOLEAN, target : Int,
         current : Int, ext : BOOLEAN]

RtTypes ==
    /\ pstate \in [mode : DOMAIN Options \cup {"other"}, current_ref : Channels,
                   locked : BOOLEAN, setpoint : [Channels -> Int],
                   shifting : SUBSET RefChannels, ptracker : SUBSET RefChannels]
    /\ spll \in Plls
    /\ trackers \subseteq Channels /\ beenLocked \in BOOLEAN

(* A lock in the PLL, in the copy between its refresh and the end of the   *)
(* call, and in the reply belongs to the configuration in force, unless    *)
(* the hardware refused that.  The copy is stale between the execution of  *)
(* a call and the next refresh, and nobody reads it then.                  *)
LockFresh ==
    /\ spll.locked => beenLocked \/ Refused
    /\ spc \in {"action", "call"} /\ pstate.locked => beenLocked \/ Refused
    /\ LockReportFresh

RtInv == RtTypes /\ LockFresh /\ ModeCoherent

(* The arguments a procedure gets are those of its stub.                   *)
LEMMA ArgTypes ==
    ASSUME request \in Requests
    PROVE  /\ request.name = "rts_set_mode" => request.arg \in DOMAIN Options \cup {"other"}
           /\ request.name = "rts_lock_channel" => request.arg \in Channels
           /\ request.name = "rts_adjust_phase" => request.arg \in Channels \X Int
           /\ request.name = "rts_enable_ptracker" => request.arg \in Channels \X BOOLEAN
<1>1. PICK n \in Names : request \in [name : {n}, arg : Args[n]]
  BY DEF Requests
<1>2. request.name = n /\ request.arg \in Args[n]
  BY <1>1
<1>3. QED
  BY <1>2, RtIpcAssumption

(* A mode of the table, as spll_init gets it.                              *)
LEMMA OptionModes ==
    ASSUME NEW m \in DOMAIN Options
    PROVE  Options[m] \in Modes /\ (m = "bc" => Options[m] = "disabled") /\ m # "other"
BY DEF Options, Modes

(* The state main() sets up is a correct one.                              *)
LEMMA ClearedTypes ==
    /\ Cleared \in [mode : DOMAIN Options \cup {"other"}, current_ref : Channels,
                    locked : BOOLEAN, setpoint : [Channels -> Int],
                    shifting : SUBSET RefChannels, ptracker : SUBSET RefChannels]
    /\ Cleared.mode = "disabled" /\ Cleared.locked = FALSE
    /\ \A ext \in BOOLEAN : /\ PllOff(ext) \in Plls
                            /\ PllOff(ext).mode = "disabled" /\ PllOff(ext).locked = FALSE
    /\ Options["disabled"] = "disabled"
<1>1. "disabled" \in DOMAIN Options /\ Options["disabled"] = "disabled"
  BY DEF Options
<1>2. QED
  BY <1>1, RtIpcAssumption DEF Cleared, PllOff, Modes, Plls

(* spll_init, refused or not, sets the mode and forgets the lock unless it *)
(* is refused.                                                             *)
LEMMA SpllInitKeeps ==
    ASSUME spll \in Plls, NEW m \in Modes, NEW c \in Channels, SpllInit(m, c)
    PROVE  /\ spll' \in Plls /\ spll'.mode = m
           /\ spll'.locked => Refused'
           /\ beenLocked' = FALSE /\ trackers' = trackers
<1>1. CASE m = "grand_master" /\ ~spll.ext
  <2>1. spll' = [spll EXCEPT !.mode = m] /\ beenLocked' = FALSE /\ trackers' = trackers
    BY <1>1 DEF SpllInit
  <2>2. spll' \in Plls /\ spll'.mode = m /\ spll'.ext = spll.ext
    BY <2>1 DEF Plls
  <2>3. QED
    BY <1>1, <2>1, <2>2 DEF Refused
<1>2. CASE ~(m = "grand_master" /\ ~spll.ext)
  <2>1. /\ spll' = [PllOff(spll.ext) EXCEPT !.mode = m, !.ref = c]
        /\ beenLocked' = FALSE /\ trackers' = trackers
    BY <1>2, Zenon DEF SpllInit
  <2>2. spll.ext \in BOOLEAN
    BY DEF Plls
  <2>3. spll' \in Plls /\ spll'.mode = m /\ spll'.locked = FALSE
    BY <2>1, <2>2, ClearedTypes DEF Plls, PllOff
  <2>4. QED
    BY <2>1, <2>3
<1>3. QED
  BY <1>1, <1>2
(* Each procedure keeps the types, the mode and the freshness of the PLL's *)
(* own lock; all but rts_get_state may make the copy stale.                *)
LEMMA ExecuteKeeps ==
    ASSUME RtInv, request \in Requests, Execute
    PROVE  /\ RtTypes' /\ ModeCoherent' /\ (spll'.locked => beenLocked' \/ Refused')
           /\ (Known /\ request.name = "rts_get_state") => UNCHANGED rtVars
<1> USE DEF RtInv, RtTypes, LockFresh
<1>1. CASE UNCHANGED rtVars
  BY <1>1 DEF rtVars, ModeCoherent, Refused
<1>2. CASE request.name = "rts_set_mode" /\ rts_set_mode(request.arg)
  <2>1. request.arg \in DOMAIN Options \cup {"other"}
    BY <1>2, ArgTypes
  <2>2. pstate' = [pstate EXCEPT !.mode = request.arg]
    BY <1>2 DEF rts_set_mode
  <2>3. CASE request.arg \in DOMAIN Options
    <3>1. SpllInit(Options[request.arg], 0)
      BY <1>2, <2>3 DEF rts_set_mode
    <3>2. /\ spll' \in Plls /\ spll'.mode = Options[request.arg]
          /\ spll'.locked => Refused'
          /\ beenLocked' = FALSE /\ trackers' = trackers
      BY <2>3, <3>1, OptionModes, SpllInitKeeps, RtIpcAssumption
    <3>3. QED
      BY <1>2, <2>1, <2>2, <2>3, <3>2, OptionModes DEF ModeCoherent
  <2>4. CASE request.arg \notin DOMAIN Options
    <3>1. request.arg = "other" /\ UNCHANGED <<spll, trackers, beenLocked>>
      BY <1>2, <2>1, <2>4 DEF rts_set_mode
    <3>2. QED
      BY <1>2, <2>1, <2>2, <3>1 DEF ModeCoherent, Refused
  <2>5. QED
    BY <2>3, <2>4
<1>3. CASE request.name = "rts_lock_channel" /\ rts_lock_channel(request.arg)
  <2>1. request.arg \in Channels
    BY <1>3, ArgTypes
  <2>2. CASE pstate.mode # "bc"
    BY <1>1, <1>3, <2>2 DEF rts_lock_channel
  <2>3. CASE pstate.mode = "bc"
    <3>1. /\ SpllInit("slave", request.arg)
          /\ pstate' = [pstate EXCEPT !.current_ref = request.arg]
      BY <1>3, <2>3 DEF rts_lock_channel
    <3>2. /\ spll' \in Plls /\ spll'.mode = "slave" /\ (spll'.locked => Refused')
          /\ beenLocked' = FALSE /\ trackers' = trackers
      BY <2>1, <3>1, SpllInitKeeps DEF Modes
    <3>3. QED
      BY <1>3, <2>1, <2>3, <3>1, <3>2 DEF ModeCoherent
  <2>4. QED
    BY <2>2, <2>3
<1>4. CASE request.name = "rts_adjust_phase"
           /\ rts_adjust_phase(request.arg[1], request.arg[2])
  <2>1. request.arg[1] \in Channels /\ request.arg[2] \in Int
    BY <1>4, ArgTypes
  <2>2. QED
    BY <1>4, <2>1 DEF rts_adjust_phase, ModeCoherent, Plls, Refused
<1>5. CASE request.name = "rts_enable_ptracker"
           /\ rts_enable_ptracker(request.arg[1], request.arg[2])
  <2>1. request.arg[1] \in Channels
    BY <1>5, ArgTypes
  <2>2. QED
    BY <1>5, <2>1 DEF rts_enable_ptracker, ModeCoherent, Refused
<1>6. QED
  BY <1>1, <1>2, <1>3, <1>4, <1>5 DEF Execute

(* Nothing is locked when main() starts.                                   *)
LEMMA InitRt == Init => RtInv
BY ClearedTypes DEF Init, IpcInit, RtInv, RtTypes, LockFresh, LockReportFresh, ModeCoherent

(* Every step of the loop, of the client and of the PLL keeps the report   *)
(* true.                                                                   *)
LEMMA StepRt == IpcInv /\ RtInv /\ [Next]_vars => RtInv'
<1> SUFFICES ASSUME IpcInv, RtInv, [Next]_vars PROVE RtInv'
  OBVIOUS
<1> USE DEF RtInv, RtTypes, LockFresh, Refused
<1>1. CASE Mailbox
  BY <1>1 DEF Mailbox, ClientFill, ClientPost, ClientTake, rtVars, LockReportFresh, ModeCoherent
<1>2. CASE (ServerIdle \/ ServerAccept \/ ServerReply) /\ UNCHANGED <<rtVars, ups>>
  BY <1>2 DEF ServerIdle, ServerAccept, ServerReply, rtVars, LockReportFresh, ModeCoherent
<1>3. CASE rts_update
  <2>1. RtTypes' /\ ModeCoherent'
    <3>1. /\ pstate' \in [mode : DOMAIN Options \cup {"other"}, current_ref : Channels,
                          locked : BOOLEAN, setpoint : [Channels -> Int],
                          shifting : SUBSET RefChannels, ptracker : SUBSET RefChannels]
          /\ pstate'.mode = pstate.mode
      <4>1. spll.locked \in BOOLEAN
        BY DEF Plls
      <4>2. (IF spll.target # spll.current /\ pstate.current_ref < NRef
             THEN {pstate.current_ref} ELSE {}) \in SUBSET RefChannels
        BY DEF RefChannels
      <4>3. trackers \cap RefChannels \in SUBSET RefChannels
        OBVIOUS
      <4>4. QED
        BY <1>3, <4>1, <4>2, <4>3 DEF rts_update
    <3>2. UNCHANGED <<spll, trackers, beenLocked>>
      BY <1>3 DEF rts_update
    <3>3. QED
      BY <3>1, <3>2 DEF ModeCoherent
  <2>2. LockFresh'
    BY <1>3 DEF rts_update, LockReportFresh
  <2>3. QED
    BY <2>1, <2>2
<1>4. CASE ServerCall
  <2>1. request \in Requests
    BY <1>4 DEF IpcInv, Handshake, IpcTypes, ServerCall, Answer
  <2>2. RtTypes' /\ ModeCoherent' /\ (spll'.locked => beenLocked' \/ Refused')
    BY <1>4, <2>1, ExecuteKeeps DEF ServerCall
  <2>3. ASSUME reply'.type = "value", reply'.of.name = "rts_get_state", reply'.val.locked
        PROVE  beenLocked' \/ Refused'
    <3>1. reply' = [type |-> IF Known THEN "value" ELSE "error", val |-> Value, of |-> request]
      BY <1>4 DEF ServerCall, Answer
    <3>2. Known /\ request.name = "rts_get_state" /\ reply'.val = pstate
      BY <2>3, <3>1 DEF Value
    <3>3. UNCHANGED rtVars
      BY <1>4, <2>1, <3>2, ExecuteKeeps DEF ServerCall
    <3>4. QED
      BY <1>4, <2>3, <3>2, <3>3 DEF ServerCall, Answer, rtVars
  <2>4. spc' = "reply"
    BY <1>4 DEF ServerCall, Answer
  <2>5. QED
    BY <2>2, <2>3, <2>4 DEF LockReportFresh
<1>5. CASE Restart
  <2>1. spll.ext \in BOOLEAN
    BY DEF Plls
  <2>2. /\ pstate' = Cleared /\ spll' = PllOff(spll.ext) /\ trackers' = {}
        /\ beenLocked' = FALSE /\ spc' = "update"
    BY <1>5 DEF Restart
  <2>3. QED
    BY <2>1, <2>2, ClearedTypes DEF LockReportFresh, ModeCoherent
<1>6. CASE PllLocks
  <2>1. /\ spll' \in Plls /\ spll'.mode = spll.mode /\ beenLocked' = TRUE
        /\ UNCHANGED <<pstate, trackers, spc, reply>>
    BY <1>6 DEF PllLocks, ipcVars, mailbox, Plls
  <2>2. QED
    BY <2>1 DEF LockReportFresh, ModeCoherent
<1>7. CASE PllDelocks \/ PllShifts
  <2>1. /\ spll' \in Plls /\ spll'.mode = spll.mode /\ spll'.ext = spll.ext
        /\ spll'.locked => spll.locked
        /\ UNCHANGED <<pstate, trackers, beenLocked, spc, reply>>
    BY <1>7 DEF PllDelocks, PllShifts, ipcVars, mailbox, Plls
  <2>2. QED
    BY <2>1 DEF LockReportFresh, ModeCoherent
<1>8. CASE UNCHANGED vars
  BY <1>8 DEF vars, ipcVars, mailbox, rtVars, LockReportFresh, ModeCoherent
<1>9. QED
  BY <1>1, <1>2, <1>3, <1>4, <1>5, <1>6, <1>7, <1>8 DEF Next, Server

(* The two invariants give the type invariant, the length of the list of   *)
(* procedures included.                                                    *)
LEMMA InvTypes == IpcInv /\ RtInv => TypeOK
<1> SUFFICES ASSUME IpcInv, RtInv PROVE TypeOK
  OBVIOUS
<1>1. Len(flist) <= MaxExport
  <2>1. Len(Procs) \in Nat /\ flist = Listed(Len(Procs))
    BY MiniIpcAssumption DEF IpcInv, IpcTypes
  <2>2. Len(flist) = Entries(Len(Procs))
    BY <2>1, ListedNext
  <2>3. QED
    BY <2>1, <2>2, MiniIpcAssumption DEF Entries
<1>2. {nrequest, nreply, pid, seen} \subseteq 0..(CounterMod - 1)
  BY DEF IpcInv, IpcTypes, Counters
<1>3. QED
  BY <1>1, <1>2 DEF RtInv, RtTypes, TypeOK

(***************************************************************************)
(* What the switch's software is told is true when it is told, for every   *)
(* number of channels and every sequence of calls and restarts: a reported *)
(* lock is one of the configuration in force although pstate is a copy,    *)
(* and the reported mode is the mode of the PLL.  Left out of the first    *)
(* part, as LockReportFresh says: a grandmaster mode that the hardware     *)
(* refuses, which goes on reporting the lock of the mode before.           *)
(***************************************************************************)
THEOREM ReportAlwaysTrue == Spec => []ReportTrue
<1>1. IpcInv /\ RtInv => ReportTrue
  BY InvTypes DEF RtInv, LockFresh, ReportTrue
<1>2. QED
  BY <1>1, InitRt, StepRt, IpcAlways, PTL DEF Spec
=============================================================================
