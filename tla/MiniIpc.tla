------------------------------- MODULE MiniIpc -------------------------------
(***************************************************************************)
(* The mini-ipc mailbox (ipc/minipc-mem-server.c): a client on the other   *)
(* processor writes a request into shared memory and counts nrequest up;   *)
(* the server sees that the counter differs from the last one it served,   *)
(* looks the name up, runs the procedure and counts nreply up.  Nothing    *)
(* else orders the two: no lock, no interrupt.                             *)
(***************************************************************************)
EXTENDS Naturals, Sequences, FiniteSets

CONSTANTS
    Procs,        \* the exported procedures, in the order of rtipc_init
    MaxExport,    \* MINIPC_MAX_EXPORT: entries of the static list
    Args,         \* for each name a client may call, its arguments
    CounterMod,   \* the counters are unsigned: they wrap at 2^32
    Nothing

ASSUME MiniIpcAssumption ==
    /\ Procs \in Seq(STRING) /\ MaxExport \in Nat
    /\ CounterMod \in Nat \ {0, 1}

VARIABLES
    nrequest, nreply, \* the counters of struct mpc_shmem
    request,          \* struct mpc_req_packet: [name, arg]
    reply,            \* struct mpc_rep_packet: [type, val, of (ghost)]
    pid,              \* link->pid: the last nrequest served
    flist,            \* the names in link->flist, the last export first
    spc,              \* the server: "update", "action", "call", "reply"
    cpc,              \* the client: "idle", "filled", "waiting"
    seen              \* nreply as the client read it when it called

mailbox == <<nrequest, nreply, request, reply>>
ipcVars == <<mailbox, pid, flist, spc, cpc, seen>>

Names == DOMAIN Args
Requests == UNION {[name : {n}, arg : Args[n]] : n \in Names}

\* minipc_export: a free entry of the static list, linked in front.
Export(list, name) == IF Len(list) < MaxExport THEN <<name>> \o list ELSE list

\* The list after the first n calls of minipc_export in rtipc_init.
Exported[n \in Nat] == IF n = 0 THEN <<>> ELSE Export(Exported[n - 1], Procs[n])

\* minipc_server_create: the shared memory is zeroed, nothing is served yet.
\* Then the exports of rtipc_init.
ServerCreated ==
    /\ nrequest' = 0 /\ nreply' = 0 /\ pid' = 0
    /\ request' = Nothing /\ reply' = Nothing
    /\ flist' = Exported[Len(Procs)]

IpcInit ==
    /\ nrequest = 0 /\ nreply = 0 /\ pid = 0
    /\ request = Nothing /\ reply = Nothing
    /\ flist = Exported[Len(Procs)]
    /\ spc = "update" /\ cpc = "idle" /\ seen = 0

\* Counting up an unsigned counter.
Up(n) == (n + 1) % CounterMod

-----------------------------------------------------------------------------
\* The client, on the other processor.

ClientFill ==
    /\ cpc = "idle" /\ cpc' = "filled"
    /\ request' \in Requests
    /\ UNCHANGED <<nrequest, nreply, reply, pid, flist, spc, seen>>

ClientPost ==
    /\ cpc = "filled" /\ cpc' = "waiting"
    /\ nrequest' = Up(nrequest) /\ seen' = nreply
    /\ UNCHANGED <<nreply, request, reply, pid, flist, spc>>

ClientTake ==
    /\ cpc = "waiting" /\ nreply # seen
    /\ cpc' = "idle"
    /\ UNCHANGED <<nrequest, nreply, request, reply, pid, flist, spc, seen>>

-----------------------------------------------------------------------------
\* minipc_server_action, one step per access to the shared memory.

\* Mutated: the counters are taken not to wrap.
NewRequestGreater == nrequest > pid

NewRequest == nrequest # pid

ServerIdle ==
    /\ spc = "action" /\ ~NewRequest /\ spc' = "update"
    /\ UNCHANGED <<mailbox, pid, flist, cpc, seen>>

\* Mutated: the number of the request is not kept.
ServerAcceptForgets ==
    /\ spc = "action" /\ NewRequest
    /\ UNCHANGED pid
    /\ spc' = "call"
    /\ UNCHANGED <<mailbox, flist, cpc, seen>>

ServerAccept ==
    /\ spc = "action" /\ NewRequest
    /\ pid' = nrequest
    /\ spc' = "call"
    /\ UNCHANGED <<mailbox, flist, cpc, seen>>

\* Is the name on the list?
Known == \E i \in DOMAIN flist : flist[i] = request.name

\* The reply is written in place: EOPNOTSUPP for an unknown name.
Answer(val) ==
    /\ spc = "call" /\ spc' = "reply"
    /\ reply' = [type |-> IF Known THEN "value" ELSE "error",
                 val |-> val, of |-> request]
    /\ UNCHANGED <<nrequest, nreply, request, pid, flist, cpc, seen>>

ServerReply ==
    /\ spc = "reply" /\ spc' = "update"
    /\ nreply' = Up(nreply)
    /\ UNCHANGED <<nrequest, request, reply, pid, flist, cpc, seen>>

-----------------------------------------------------------------------------
\* The mailbox as a remote procedure call.

Phase == CASE cpc \in {"idle", "filled"} -> "idle"
           [] cpc = "waiting" /\ (nreply # seen \/ spc = "reply") -> "done"
           [] OTHER -> "called"

Rpc == INSTANCE RpcService WITH
         phase  <- Phase,
         call   <- IF Phase = "idle" THEN Nothing ELSE request,
         result <- IF Phase = "done" THEN reply.of ELSE Nothing

(***************************************************************************)
(* The mailbox implements RpcService: although only two counters order the *)
(* two processors, every call runs its procedure exactly once and gets     *)
(* back what that run produced, also when the counters wrap around.        *)
(***************************************************************************)
RpcSpec == Rpc!RSpec
=============================================================================
