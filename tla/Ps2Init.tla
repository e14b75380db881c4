------------------------------ MODULE Ps2Init ------------------------------
(***************************************************************************)
(* keyboard_init and then mouse_init, as kernel_main calls them with       *)
(* interrupts off, against the 8042 controller and its two devices.  One   *)
(* step is one exchange: a command and the reading of its answer.          *)
(*                                                                         *)
(* Answers and scan codes go through one output buffer, and a read takes   *)
(* whatever byte is first.  A device may fail to acknowledge any command.  *)
(* Ps2 composes this with the driver that runs afterwards.                 *)
(***************************************************************************)
EXTENDS Integers, Sequences

Config == [irq1 : BOOLEAN, irq12 : BOOLEAN, xlat : BOOLEAN]

VARIABLES
    step,       \* the exchange that comes next
    config,     \* configuration byte of the controller
    ports,      \* devices whose port is enabled
    outbuf,     \* bytes in the controller's output buffer
    kbd_ok,     \* whether keyboard_init reached its end
    mouse_present,
    scanning, reporting,   \* what the devices send on their own
    wants_arg,             \* the mouse takes the next byte as an argument
    misread                \* history: a scan code was taken for the configuration

device == <<scanning, reporting, wants_arg>>
vars == <<step, config, ports, outbuf, kbd_ok, mouse_present, device, misread>>

Init ==
    /\ step = "k_ports"
    /\ config \in Config           \* as the firmware left it
    /\ ports \in SUBSET {"kbd", "aux"}
    /\ outbuf = <<>>
    /\ kbd_ok = FALSE /\ mouse_present = FALSE
    /\ scanning \in BOOLEAN
    /\ reporting = FALSE /\ wants_arg = FALSE /\ misread = FALSE

----------------------------------------------------------------------------
(* The controller.                                                          *)

\* A key is pressed; its byte waits in the output buffer, which holds one.
key ==
    /\ step # "done"
    /\ "kbd" \in ports /\ scanning
    /\ outbuf = <<>>
    /\ outbuf' = <<"key">>
    /\ UNCHANGED <<step, config, ports, kbd_ok, mouse_present, device, misread>>

\* Read r after the controller or a device has answered a.
Answered(a, r) == r = Head(Append(outbuf, a)) /\ outbuf' = Tail(Append(outbuf, a))

\* What the driver takes for the configuration byte when it reads r: a scan
\* code may stand for any value.
ConfigRead(r) == IF r = "config" THEN {config} ELSE Config

\* mouse_send_aux(cmd) reading r.  A mouse that does not acknowledge a command
\* does not carry it out; one that waits for an argument takes cmd for it.
mouse_send_aux(cmd, r) ==
    /\ \E a \in {"ACK", "NAK"} :
         /\ Answered(a, r)
         /\ wants_arg' = (a = "ACK" /\ ~wants_arg /\ cmd = "SET_SAMPLE")
         /\ reporting' = IF a = "NAK" \/ wants_arg \/ cmd = "SET_SAMPLE"
                           THEN reporting
                           ELSE cmd = "ENABLE"
    /\ UNCHANGED scanning

Reply == {"ACK", "NAK", "ID", "key"}

----------------------------------------------------------------------------
(* keyboard_init.                                                           *)

k_ports ==
    /\ step = "k_ports"
    /\ ports' = {}
    /\ outbuf' = <<>>
    /\ step' = "k_config"
    /\ UNCHANGED <<config, kbd_ok, mouse_present, device, misread>>

KbdConfig(c) == [irq1 |-> TRUE, irq12 |-> FALSE, xlat |-> TRUE]

k_config ==
    /\ step = "k_config"
    /\ \E r \in {"config", "key"} :
         /\ Answered("config", r)
         /\ \E c \in ConfigRead(r) : config' = KbdConfig(c)
         /\ misread' = (misread \/ r = "key")
    /\ step' = "k_tests"
    /\ UNCHANGED <<ports, kbd_ok, mouse_present, device>>

\* Self test of the controller and test of the interface: either may fail.
k_tests ==
    /\ step = "k_tests"
    /\ step' \in {"k_reset", "m_ports"}
    /\ UNCHANGED <<config, ports, outbuf, kbd_ok, mouse_present, device, misread>>

\* Enable the port and reset the keyboard, which then scans; a missing
\* answer is ignored.
k_reset ==
    /\ step = "k_reset"
    /\ ports' = ports \cup {"kbd"}
    /\ scanning' = TRUE
    /\ step' = "k_scan"
    /\ UNCHANGED <<config, outbuf, kbd_ok, mouse_present, reporting, wants_arg, misread>>

k_scan ==
    /\ step = "k_scan"
    /\ \E a \in {"ACK", "NAK"}, r \in Reply :
         /\ Answered(a, r)
         /\ kbd_ok' = (r = "ACK")
    /\ step' = "m_ports"
    /\ UNCHANGED <<config, ports, mouse_present, device, misread>>

----------------------------------------------------------------------------
(* mouse_init.                                                              *)

MousePorts_All == ports \ {"aux", "kbd"}

MousePorts == ports \ {"aux"}

m_ports ==
    /\ step = "m_ports"
    /\ ports' = MousePorts
    /\ outbuf' = <<>>
    /\ step' = "m_config"
    /\ UNCHANGED <<config, kbd_ok, mouse_present, device, misread>>

MouseConfig(c) == [c EXCEPT !.irq12 = TRUE]

\* The configuration, then the port is enabled and the buffer flushed.
m_config ==
    /\ step = "m_config"
    /\ \E r \in {"config", "key"} :
         /\ r = Head(Append(outbuf, "config"))
         /\ \E c \in ConfigRead(r) : config' = MouseConfig(c)
         /\ misread' = (misread \/ r = "key")
    /\ outbuf' = <<>>
    /\ ports' = ports \cup {"aux"}
    /\ step' = "m_reset"
    /\ UNCHANGED <<kbd_ok, mouse_present, device>>

\* A command that must be acknowledged: otherwise mouse_init returns.
Required(now, cmd, next) ==
    /\ step = now
    /\ \E r \in Reply :
         /\ mouse_send_aux(cmd, r)
         /\ step' = IF r = "ACK" THEN next ELSE "done"
    /\ UNCHANGED <<config, ports, kbd_ok, mouse_present, misread>>

m_reset == Required("m_reset", "RESET", "m_selftest")

\* A mouse that passed its self test sends its device id after the result, unless
\* the next command comes first; mouse_init does not read it.
m_selftest ==
    /\ step = "m_selftest"
    /\ \E a \in {"OK", "FAIL"}, r \in {"OK", "FAIL", "key"}, id \in {<<>>, <<"ID">>} :
         /\ a = "FAIL" => id = <<>>
         /\ r = Head(Append(outbuf, a))
         /\ outbuf' = Tail(Append(outbuf, a)) \o id
         /\ step' = IF r = "OK" THEN "m_defaults" ELSE "done"
    /\ UNCHANGED <<config, ports, kbd_ok, mouse_present, device, misread>>

m_defaults == Required("m_defaults", "SET_DEFAULTS", "m_sample")

\* The rate itself is written with mouse_write_data, without SEND_TO_AUX: it
\* goes to the keyboard, whose answer is read and dropped.
m_sample ==
    /\ step = "m_sample"
    /\ \E r \in Reply : mouse_send_aux("SET_SAMPLE", r)
    /\ step' = "m_enable"
    /\ UNCHANGED <<config, ports, kbd_ok, mouse_present, misread>>

m_enable ==
    /\ step = "m_enable"
    /\ \E r \in Reply :
         /\ mouse_send_aux("ENABLE", r)
         /\ mouse_present' = (r = "ACK")
    /\ step' = "done"
    /\ UNCHANGED <<config, ports, kbd_ok, misread>>

Next ==
    \/ key
    \/ k_ports \/ k_config \/ k_tests \/ k_reset \/ k_scan
    \/ m_ports \/ m_config \/ m_reset \/ m_selftest \/ m_defaults \/ m_sample \/ m_enable

Spec == Init /\ [][Next]_vars

----------------------------------------------------------------------------
(* Properties.                                                              *)

\* A keyboard reported as ready still works after mouse_init has rewritten the
\* configuration they share: port on, scanning, IRQ1 on and codes translated.
\* Keys pressed meanwhile do no harm, unless a scan code is read as the
\* configuration byte (mouse.c:285).
KeyboardStaysReady ==
    step = "done" /\ kbd_ok /\ ~misread =>
        "kbd" \in ports /\ scanning /\ config.irq1 /\ config.xlat

============================================================================
