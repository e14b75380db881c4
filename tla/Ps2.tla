-------------------------------- MODULE Ps2 --------------------------------
(***************************************************************************)
(* The PS/2 devices from power on: kernel_main runs keyboard_init and       *)
(* mouse_init with interrupts off (Ps2Init), then IRQ12 drives the mouse    *)
(* driver (Mouse), whose packets come only if the exchange left the mouse   *)
(* reporting, its port enabled and IRQ12 on.                               *)
(***************************************************************************)
EXTENDS Mouse

VARIABLES step, config, ports, outbuf, kbd_ok, scanning, reporting, wants_arg, misread

Boot == INSTANCE Ps2Init

boot_vars == <<step, config, ports, outbuf, kbd_ok, mouse_present, scanning, reporting, wants_arg, misread>>

Irq12 == step = "done" /\ "aux" \in ports /\ config.irq12

Ps2_Init == Init /\ Boot!Init

boot == Boot!Next /\ UNCHANGED vars

mouse_send == Irq12 /\ reporting /\ send /\ UNCHANGED boot_vars

mouse_lose == lose /\ UNCHANGED boot_vars

\* The controller delivers what is in its buffer before the next packet: a scan
\* code to the keyboard's handler, an answer of the mouse to the mouse's.
left_over ==
    /\ step = "done" /\ outbuf # <<>>
    /\ \/ Head(outbuf) = "key" /\ UNCHANGED vars
       \/ Head(outbuf) # "key" /\ Irq12 /\ \E b \in Byte : stray_byte(b)
    /\ outbuf' = Tail(outbuf)
    /\ UNCHANGED <<step, config, ports, kbd_ok, mouse_present, scanning, reporting, wants_arg, misread>>

mouse_irq == Irq12 /\ outbuf = <<>> /\ packet_byte /\ UNCHANGED boot_vars

reader == mouse_get_event /\ UNCHANGED boot_vars

Next == boot \/ mouse_send \/ mouse_lose \/ left_over \/ mouse_irq \/ reader

Spec == Ps2_Init /\ [][Next]_<<vars, boot_vars>>

----------------------------------------------------------------------------
(* Properties of the initialisation (Ps2Init).                              *)

\* Whatever keys are pressed meanwhile, a keyboard that keyboard_init reported
\* as ready is still ready when mouse_init is done with the controller.
KeyboardStaysReady == Boot!KeyboardStaysReady

============================================================================
