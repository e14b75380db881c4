------------------------------- MODULE Mouse -------------------------------
(***************************************************************************)
(* The PS/2 mouse driver (kernel/drivers/mouse.c) with interrupts on: the   *)
(* handler assembles three-byte packets and queues them as events.  Ps2    *)
(* composes it with mouse_init.                                            *)
(*                                                                         *)
(* mouse_event_get is one step here; what an interrupt in the middle of    *)
(* such a function does is shown in Keyboard, whose ring has the same code. *)
(***************************************************************************)
EXTENDS Integers, Sequences

CONSTANT MOUSE_EVENT_BUF

ASSUME MouseAssumption == MOUSE_EVENT_BUF \in Nat \ {0}

\* The part of a byte that the handler keeps: buttons or a displacement (it
\* does not look at bit 3).
Byte == {0, 1}

\* Two packets that differ in each byte, each with different displacements.
Packets == {<<0, 0, 1>>, <<1, 1, 0>>}

Event == [buttons : {0, 1}, dx : {0, 1}, dy : {0, 1}]

VARIABLES
    wire,           \* bytes of the packets sent and not yet handled
    packet_state, packet_byte0,
    event_buf, event_head, event_tail, event_count,
    mouse_present,
    out,            \* the event read last
    pkt, slipped,   \* history: the packet sent last; whether a byte got lost
                    \* or one that is no part of a packet was handled
    shift           \* history: how many more such bytes than lost ones, modulo 3

ring == <<event_buf, event_head, event_tail, event_count>>
vars == <<wire, packet_state, packet_byte0, ring, out, pkt, slipped, shift>>

None == [buttons |-> -1, dx |-> -1, dy |-> -1]

Index == 0..(MOUSE_EVENT_BUF - 1)

Init ==
    /\ wire = <<>>
    /\ packet_state = "WAIT_SYNC"
    /\ packet_byte0 = 0
    /\ event_buf = [i \in Index |-> [buttons |-> 0, dx |-> 0, dy |-> 0]]
    /\ event_head = 0 /\ event_tail = 0 /\ event_count = 0
    /\ out = None /\ pkt = None /\ slipped = FALSE /\ shift = 0

----------------------------------------------------------------------------

\* The mouse sends a packet.
send ==
    /\ wire = <<>>
    /\ wire' \in Packets
    /\ pkt' = [buttons |-> wire'[1], dx |-> wire'[2], dy |-> wire'[3]]
    /\ UNCHANGED <<packet_state, packet_byte0, ring, out, slipped, shift>>

\* A byte is overwritten in the controller before the handler reads it.
lose ==
    /\ wire # <<>>
    /\ wire' = Tail(wire)
    /\ slipped' = TRUE
    /\ shift' = (shift + 2) % 3
    /\ UNCHANGED <<packet_state, packet_byte0, ring, out, pkt>>

mouse_event_put(ev) ==
    IF event_count >= MOUSE_EVENT_BUF
      THEN UNCHANGED <<event_buf, event_tail, event_count>>
      ELSE /\ event_buf' = [event_buf EXCEPT ![event_tail] = ev]
           /\ event_tail' = (event_tail + 1) % MOUSE_EVENT_BUF
           /\ event_count' = event_count + 1

StoreDx_AtHead(b) ==
    event_buf' = [event_buf EXCEPT ![event_head].buttons = packet_byte0,
                                   ![event_head].dx = b]

\* The byte after byte 0: buttons and dx wait in the slot at event_tail.
StoreDx(b) ==
    event_buf' = [event_buf EXCEPT ![event_tail].buttons = packet_byte0,
                                   ![event_tail].dx = b]

Assembled_AtHead(b) == [buttons |-> packet_byte0, dx |-> event_buf[event_head].dx, dy |-> b]

Assembled(b) == [buttons |-> packet_byte0, dx |-> event_buf[event_tail].dx, dy |-> b]


\* After byte 2, whether or not the event found room.
event_done == packet_state' = "WAIT_SYNC"

\* The handler has read b.
mouse_interrupt_handler(b) ==
    \/ /\ ~mouse_present
       /\ UNCHANGED <<packet_state, packet_byte0, ring>>
    \/ /\ mouse_present
       /\ packet_state = "WAIT_SYNC"
       /\ packet_byte0' = b
       /\ packet_state' = "HAVE_BYTE0"
       /\ UNCHANGED ring
    \/ /\ mouse_present
       /\ packet_state = "HAVE_BYTE0"
       /\ StoreDx(b)
       /\ packet_state' = "HAVE_BYTE1"
       /\ UNCHANGED <<packet_byte0, event_head, event_tail, event_count>>
    \/ /\ mouse_present
       /\ packet_state = "HAVE_BYTE1"
       /\ mouse_event_put(Assembled(b))
       /\ event_done
       /\ UNCHANGED <<packet_byte0, event_head>>

\* IRQ12 with a byte of a packet.
packet_byte ==
    /\ wire # <<>>
    /\ mouse_interrupt_handler(Head(wire))
    /\ wire' = Tail(wire)
    /\ UNCHANGED <<out, pkt, slipped, shift>>

\* IRQ12 with a byte that mouse_init left in the controller.
stray_byte(b) ==
    /\ mouse_interrupt_handler(b)
    /\ slipped' = (slipped \/ mouse_present)
    /\ shift' = IF mouse_present THEN (shift + 1) % 3 ELSE shift
    /\ UNCHANGED <<wire, out, pkt>>

mouse_get_event ==
    /\ event_count > 0
    /\ out' = event_buf[event_head]
    /\ event_head' = (event_head + 1) % MOUSE_EVENT_BUF
    /\ event_count' = event_count - 1
    /\ UNCHANGED <<wire, packet_state, packet_byte0, event_buf, event_tail, pkt, slipped, shift>>

----------------------------------------------------------------------------
(* Properties.                                                              *)

Unread == [i \in 1..event_count |-> event_buf[(event_head + i - 1) % MOUSE_EVENT_BUF]]

\* Byte 1 meets a full queue: its half packet goes into the oldest event.
Clobber ==
    /\ packet_state = "HAVE_BYTE0"
    /\ event_count = MOUSE_EVENT_BUF
    /\ Unread' = [Unread EXCEPT ![1].buttons = Unread'[1].buttons, ![1].dx = Unread'[1].dx]
    /\ UNCHANGED out

Fifo == INSTANCE BoundedFifo WITH
            Item <- Event, Size <- MOUSE_EVENT_BUF, MaxRun <- 1, queue <- Unread

\* The handler and the reader keep the queue a FIFO, although half a packet
\* waits in the slot behind the last event: an event is read as it was put, in
\* order, and what does not fit is dropped.  Only byte 1 of a packet that meets
\* a full queue changes an unread event, the oldest (StoreDx).
QueueIsFifo == Fifo!Init /\ [][Clobber \/ Fifo!Next]_<<Unread, out>>

PacketStates == <<"WAIT_SYNC", "HAVE_BYTE0", "HAVE_BYTE1">>


\* As long as no byte is lost and mouse_init leaves no answer unread, each
\* queued event is the packet that was sent, put together from its three bytes
\* although the reader moves the queue between them.
EventIsPacket == [][~slipped /\ event_count' > event_count => event_buf'[event_tail] = pkt]_vars

============================================================================
