------------------------------- MODULE RxPath -------------------------------
(***************************************************************************)
(* How a frame gets from the wire to a socket's user: the receive ring of  *)
(* the MiniNIC and its interrupt flag (minic_rx_frame in dev/minic.c), the *)
(* byte queues of the sockets (lib/net.c) and the timestamp put together   *)
(* from what both recorded (module RxTimestamp).                           *)
(*                                                                         *)
(* The hardware stores frames while the driver looks at the ring; nothing  *)
(* interrupts the driver, which runs in the main loop and is one step from *)
(* one access of the shared flag to the next.  A field of a packet (size,  *)
(* header, timestamp) is one cell of the queue instead of 2, 14 and 16     *)
(* bytes, and so is a byte of its payload.                                 *)
(***************************************************************************)
EXTENDS RxTimestamp, Sequences

CONSTANTS NetMaxSockets,  \* NET_MAX_SOCKETS
          NetSkbufSize,   \* NET_SKBUF_SIZE, in cells
          RxBufSize,      \* of update_rx_queues's payload buffer
          DataLength,     \* of the buffer a user passes to recvfrom
          Addrs,          \* destination addresses, with the ethertype
          Wire,           \* the kinds of frames that arrive; size includes the header
          RingSize,       \* frames the receive ring can hold
          Default,        \* the cal_phase_transition the program starts with
          Phases,         \* phases at which frames may arrive
          Transitions,    \* the transition points the hardware may have
          MaxFrames,      \* bound: frames on the wire
          FirstTick, LastTick   \* bound: the cycles in which they arrive

ASSUME RxPathAssumption ==
    /\ NetMaxSockets \in Nat \ {0} /\ NetSkbufSize \in Nat \ {0}
    /\ RxBufSize \in Nat \ {0} /\ DataLength \in Nat \ {0}
    /\ Addrs # {}
    /\ Wire \subseteq [dst : Addrs, size : Nat \ {0}, err : BOOLEAN]
    /\ RingSize \in Nat \ {0}
    /\ Default \in Fracs /\ Phases \cup Transitions \subseteq Fracs
    /\ MaxFrames \in Nat
    /\ FirstTick \in Nat /\ LastTick \in Nat /\ FirstTick <= LastTick

VARIABLES now,          \* cycles since second 0
          frac,         \* phase of the arrivals within a cycle
          transition,   \* phase at which the rising counter changes
          cal,          \* cal_phase_transition
          ring,         \* frames in the ring, with a valid descriptor
          isr,          \* MINIC_EIC_ISR_RX
          full,         \* MINIC_MCR_RX_FULL
          pc,           \* where minic_rx_frame is
          rx,           \* <<>>, or the frame it returns, and when it saw it
          socks,
          sent,         \* frames that arrived so far
          accepted,     \* history: what each queue should hold
          got           \* what recvfrom returns in this step, or <<>>

hardware == <<frac, transition, ring, isr, full, sent>>
driver   == <<pc, rx>>
vars     == <<now, hardware, cal, driver, socks, accepted, got>>

Lesser(m, n) == IF m < n THEN m ELSE n
First(ids)   == CHOOSE i \in ids : \A j \in ids : i <= j

SockIds == 0 .. NetMaxSockets - 1
Sizes   == {kind.size : kind \in Wire}
Frames  == [id : 1 .. MaxFrames, dst : Addrs, size : Sizes, err : BOOLEAN, at : Nat,
            counter_r : Ticks, counter_f : 0 .. F_COUNTER_MASK]
-----------------------------------------------------------------------------
(* The queue of a socket.                                                  *)

EmptyBuf   == [i \in 0 .. NetSkbufSize - 1 |-> <<"zero">>]
EmptyQueue == [buf |-> EmptyBuf, head |-> 0, tail |-> 0, avail |-> NetSkbufSize, n |-> 0]

\* (Mutated: without the wrap of head.)
WrapCopyOutFlat(q, cells) ==
    [q EXCEPT !.buf = [i \in DOMAIN @ |-> IF i - q.head \in 0 .. Len(cells) - 1
                                          THEN cells[i - q.head + 1] ELSE @[i]],
              !.head = (@ + Len(cells)) % NetSkbufSize,
              !.avail = @ - Len(cells)]
WrapCopyOut(q, cells) ==
    [q EXCEPT !.buf = [i \in DOMAIN @ |->
                         LET offset == (i - q.head) % NetSkbufSize
                         IN  IF offset < Len(cells) THEN cells[offset + 1] ELSE @[i]],
              !.head = (@ + Len(cells)) % NetSkbufSize,
              !.avail = @ - Len(cells)]

Cell(q, offset)  == q.buf[(q.tail + offset) % NetSkbufSize]
Cells(q, offset, len) == [i \in 1 .. len |-> Cell(q, offset + i - 1)]

\* wrap_copy_in, len cells.
WrapCopyIn(q, len) ==
    [q EXCEPT !.tail = (@ + len) % NetSkbufSize, !.avail = @ + len]

\* n_recvd of a good frame: header and payload, cut to the driver's buffer.
Recvd(frame) == Lesser(RxBufSize, frame.size)

\* The payload buffer of update_rx_queues holds recvd cells less the header;
\* one header's worth of what an earlier frame left there is queued with them.
Payload(frame) == [i \in 1 .. Recvd(frame) - 1 |-> <<"data", frame.id, i>>]
Packet(frame, hwts) ==
    <<<<"size", Recvd(frame)>>, <<"hdr", frame.id>>, <<"hwts", hwts>>>>
      \o Payload(frame) \o <<<<"left over">>>>
-----------------------------------------------------------------------------
TypeOK ==
    /\ now \in FirstTick .. LastTick
    /\ frac \in Fracs /\ transition \in Transitions /\ cal \in {Default, transition}
    /\ ring \in Seq(Frames) /\ Len(ring) <= RingSize
    /\ isr \in BOOLEAN /\ full \in BOOLEAN
    /\ pc \in {"idle", "clear", "return"}
    /\ pc = "idle" <=> rx = <<>>
    /\ sent \in 0 .. MaxFrames
    /\ \A i \in SockIds :
         /\ socks[i].in_use \in BOOLEAN
         /\ socks[i].addr \in Addrs
         /\ socks[i].phase_transition \in {0, Default, transition}
         /\ LET q == socks[i].queue
            IN  /\ q.head \in 0 .. NetSkbufSize - 1 /\ q.tail \in 0 .. NetSkbufSize - 1
                /\ q.avail \in 0 .. NetSkbufSize
                /\ q.n = Len(accepted[i])

\* minic_init and ptpd_netif_init.
Init ==
    /\ now = FirstTick
    /\ frac \in Phases /\ transition \in Transitions
    /\ cal = Default
    /\ ring = <<>> /\ isr = FALSE /\ full = FALSE
    /\ pc = "idle" /\ rx = <<>>
    /\ socks = [i \in SockIds |->
                  [in_use |-> FALSE, addr |-> CHOOSE addr \in Addrs : TRUE,
                   phase_transition |-> 0, queue |-> [EmptyQueue EXCEPT !.avail = 0]]]
    /\ sent = 0 /\ accepted = [i \in SockIds |-> <<>>] /\ got = <<>>
-----------------------------------------------------------------------------
(* The hardware.                                                           *)

Tick ==
    /\ now < LastTick
    /\ now' = now + 1
    /\ got' = <<>>
    /\ UNCHANGED <<hardware, cal, driver, socks, accepted>>

\* A frame arrives in this cycle and is in the ring in the next, or finds the
\* ring full, which stops reception until the driver restarts it.  The time
\* between the driver's last look at the ring and its clearing of the flag is
\* shorter than a frame, so that at most one arrives in it.
Arrive ==
    /\ now < LastTick /\ sent < MaxFrames
    /\ pc = "clear" => ring = <<>>
    /\ now' = now + 1
    /\ sent' = sent + 1
    /\ \E kind \in Wire,
          counter_r \in Rising(now % Second, frac),
          counter_f \in Falling(now % Second, frac) :
         LET frame == [id |-> sent + 1, dst |-> kind.dst, size |-> kind.size, err |-> kind.err,
                       at |-> now, counter_r |-> counter_r, counter_f |-> counter_f]
         IN  ring' = IF full \/ Len(ring) = RingSize THEN ring ELSE Append(ring, frame)
    /\ full' = (full \/ Len(ring) = RingSize)
    /\ isr' = TRUE
    /\ got' = <<>>
    /\ UNCHANGED <<frac, transition, cal, driver, socks, accepted>>
\* The driver is prepared for a flag without a valid descriptor behind it: a
\* frame that did not fit or that the hardware gave up.
Spoiled ==
    /\ now < LastTick /\ sent < MaxFrames
    /\ ring = <<>> /\ pc # "clear"
    /\ now' = now + 1
    /\ sent' = sent + 1
    /\ isr' = TRUE
    /\ full' \in {full, TRUE}
    /\ got' = <<>>
    /\ UNCHANGED <<frac, transition, cal, ring, driver, socks, accepted>>
-----------------------------------------------------------------------------
(* update_rx_queues, from the main loop.                                   *)

\* minic_rx_frame with a valid descriptor: it reads the frame and the time,
\* frees it and looks at the next descriptor.
MinicRxFrame ==
    /\ pc = "idle" /\ isr /\ ring # <<>>
    /\ rx' = <<Head(ring), now>>
    /\ ring' = Tail(ring)
    /\ pc' = IF Tail(ring) = <<>> THEN "clear" ELSE "return"
    /\ got' = <<>>
    /\ UNCHANGED <<now, frac, transition, cal, isr, full, socks, sent, accepted>>

\* minic_new_rx_buffer.  (Mutated: reception is not enabled again.)
MinicNewRxBufferOff == ring' = <<>> /\ isr' = FALSE /\ UNCHANGED full
MinicNewRxBuffer == ring' = <<>> /\ isr' = FALSE /\ full' = FALSE

\* With an invalid one it purges the ring.
MinicRxInvalid ==
    /\ pc = "idle" /\ isr /\ ring = <<>>
    /\ MinicNewRxBuffer
    /\ got' = <<>>
    /\ UNCHANGED <<now, frac, transition, cal, driver, socks, sent, accepted>>

\* It saw no further frame: if the ring overflowed it is restarted, and the
\* flag is cleared, that of a frame stored since then too.
ClearIsr ==
    /\ pc = "clear"
    /\ IF full THEN MinicNewRxBuffer ELSE isr' = FALSE /\ UNCHANGED <<ring, full>>
    /\ pc' = "return"
    /\ got' = <<>>
    /\ UNCHANGED <<now, frac, transition, cal, rx, socks, sent, accepted>>

Hwts(frame, seen) ==
    HwTimestamp(seen \div Second, seen % Second, frame.counter_r, frame.counter_f)

Matching(frame) == {i \in SockIds : socks[i].in_use /\ socks[i].addr = frame.dst}

\* With the space for header and timestamp.
Fits(q, frame) == Recvd(frame) + 3 <= q.avail

\* update_rx_queues with what minic_rx_frame returned: the first socket that
\* matches gets the frame if its queue has the room.
UpdateRxQueues ==
    /\ pc = "return"
    /\ LET frame == rx[1]
           i     == First(Matching(frame))
           queue == WrapCopyOut(socks[i].queue, Packet(frame, Hwts(frame, rx[2])))
       IN  IF ~frame.err /\ Matching(frame) # {} /\ Fits(socks[i].queue, frame)
           THEN /\ socks' = [socks EXCEPT ![i].queue = [queue EXCEPT !.n = @ + 1]]
                /\ accepted' = [accepted EXCEPT ![i] = Append(@, rx)]
           ELSE UNCHANGED <<socks, accepted>>
    /\ pc' = "idle" /\ rx' = <<>>
    /\ got' = <<>>
    /\ UNCHANGED <<now, hardware, cal>>
-----------------------------------------------------------------------------
(* The users of the sockets, in the main loop.                             *)

\* The first free socket, with an empty queue and the present calibration.
CreateSocket(addr) ==
    LET free == {i \in SockIds : ~socks[i].in_use}
    IN  /\ pc = "idle" /\ free # {}
        /\ socks' = [socks EXCEPT ![First(free)] =
                       [@ EXCEPT !.in_use = TRUE, !.addr = addr, !.phase_transition = cal,
                                 !.queue = [EmptyQueue EXCEPT !.buf = socks[First(free)].queue.buf]]]
        /\ accepted' = [accepted EXCEPT ![First(free)] = <<>>]
        /\ got' = <<>>
        /\ UNCHANGED <<now, hardware, cal, driver>>

CloseSocket(i) ==
    /\ pc = "idle" /\ socks[i].in_use
    /\ socks' = [socks EXCEPT ![i].in_use = FALSE]
    /\ got' = <<>>
    /\ UNCHANGED <<now, hardware, cal, driver, accepted>>

\* ptpd_netif_set_phase_transition: of the sockets already open too.
SetPhaseTransition(phase) ==
    [i \in SockIds |-> [socks[i] EXCEPT !.phase_transition = phase]]

\* calib_t24p found the transition point.
Calibrate ==
    /\ pc = "idle" /\ cal # transition
    /\ cal' = transition
    /\ socks' = SetPhaseTransition(transition)
    /\ got' = <<>>
    /\ UNCHANGED <<now, hardware, driver, accepted>>

\* ptpd_netif_recvfrom.  A size or a timestamp read where the queue holds
\* something else is whatever those bytes mean.
RecvFrom(i) ==
    LET q     == socks[i].queue
        first == Cell(q, 0)
        third == Cell(q, 2)
    IN  /\ pc = "idle" /\ socks[i].in_use /\ q.n > 0
        /\ \E size \in (IF first[1] = "size" THEN {first[2]} ELSE Sizes) :
             LET copied == Lesser(size, DataLength)
                 hwts   == IF third[1] = "hwts" THEN third[2]
                           ELSE [sec |-> 0, nsec |-> 0, ahead |-> FALSE]
             IN  /\ socks' = [socks EXCEPT ![i].queue =
                                WrapCopyIn([q EXCEPT !.n = @ - 1], 3 + copied)]
                 /\ got' = [want |-> Head(accepted[i]), calibrated |-> cal = transition,
                            hdr |-> Cell(q, 1),
                            data |-> Cells(q, 3, Lesser(size - 1, DataLength)),
                            ts |-> Linearize(hwts, RawPhase(frac, transition),
                                             socks[i].phase_transition)]
        /\ accepted' = [accepted EXCEPT ![i] = Tail(@)]
        /\ UNCHANGED <<now, hardware, cal, driver>>

Driver == MinicRxFrame \/ MinicRxInvalid \/ ClearIsr \/ UpdateRxQueues
Next ==
    \/ Tick \/ Arrive \/ Spoiled \/ Driver \/ Calibrate
    \/ \E addr \in Addrs : CreateSocket(addr)
    \/ \E i \in SockIds : CloseSocket(i) \/ RecvFrom(i)

\* The main loop calls update_rx_queues in every turn.
Spec == Init /\ [][Next]_vars /\ WF_vars(Driver)
-----------------------------------------------------------------------------
(***************************************************************************)
(* ptpd_netif_recvfrom returns the header and the payload of the oldest    *)
(* frame that update_rx_queues accepted for the socket, unmixed with       *)
(* others: the byte queue of a socket, which wraps, fills up, drops frames *)
(* and is reused by other sockets' owners, is a queue of packets.          *)
(***************************************************************************)
GotIntact ==
    got # <<>> =>
      LET frame == got.want[1]
      IN  /\ got.hdr = <<"hdr", frame.id>>
          /\ got.data = SubSeq(Payload(frame), 1, Lesser(Len(Payload(frame)), DataLength))

(***************************************************************************)
(* A queue whose packets were all received has all its room again:         *)
(* whatever recvfrom and update_rx_queues did to avail, nothing leaks.     *)
(***************************************************************************)
RoomRecovered ==
    \A i \in SockIds :
      socks[i].in_use /\ accepted[i] = <<>> =>
        socks[i].queue.avail = NetSkbufSize /\ socks[i].queue.head = socks[i].queue.tail

(***************************************************************************)
(* The byte queue of a socket is a queue of packets that never leaks room. *)
(***************************************************************************)
QueueSound == TypeOK /\ GotIntact /\ RoomRecovered

(***************************************************************************)
(* Once calibrated, recvfrom returns the exact time of arrival of a frame  *)
(* that minic_rx_frame saw within a quarter of a second, however long it   *)
(* waited in the queue, through which socket it came, whether the second   *)
(* changed in between and whatever the edge counters captured.             *)
(***************************************************************************)
TimestampTrue ==
    got # <<>> =>
      LET frame == got.want[1]
          seen  == got.want[2]
      IN  got.calibrated /\ seen - frame.at <= Second \div 4 - 2 =>
            Exact(got.ts, frame.at \div Second, frame.at % Second, frac)

(***************************************************************************)
(* Reception that stopped because the ring overflowed is started again: no *)
(* order of arrivals and polls leaves the node deaf.                       *)
(***************************************************************************)
OverflowRecovers == full ~> ~full
=============================================================================
