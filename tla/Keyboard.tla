----------------------------- MODULE Keyboard ------------------------------
(***************************************************************************)
(* The PS/2 keyboard driver (kernel/drivers/keyboard.c): the interrupt     *)
(* handler decodes scan codes and fills a ring buffer, and a thread empties *)
(* it with keyboard_getchar.                                               *)
(*                                                                         *)
(* kbd_buffer_get runs with interrupts on when a kernel thread calls       *)
(* keyboard_getchar, and its variables are not volatile: the -O2 build     *)
(* loads kbd_count once for the test and for the decrement, stores it, and *)
(* then reads the character.  The handler may run between these steps.     *)
(* System calls enter through an interrupt gate, so there keyboard_getchar *)
(* runs with interrupts off.                                               *)
(*                                                                         *)
(* The kernel code that calls keyboard_getchar with interrupts on (the     *)
(* installer, or the kernel's shell in debug builds) runs where pit_init   *)
(* has not been called, and pic_init masks IRQ0: no timer ends its hlt.    *)
(***************************************************************************)
EXTENDS Integers, Sequences, SequencesExt, FiniteSets

CONSTANTS
    KBD_BUFFER_SIZE,
    Keys,        \* the keys in use, out of the ones of Code below
    Readers,     \* where keyboard_getchar is called: "thread" or "syscall"
    MaxWire      \* bytes the keyboard controller holds

ASSUME KeyboardAssumption == KBD_BUFFER_SIZE \in Nat \ {0} /\ Readers \subseteq {"thread", "syscall"} /\ MaxWire \in Nat

VARIABLES
    down,       \* keys held down
    wire,       \* bytes on their way from the keyboard
    kbd_buffer, kbd_head, kbd_tail, kbd_count,
    mods,       \* shift_pressed, ctrl_pressed, alt_pressed, caps_lock
    e0_prefix,
    reader,     \* who reads in this behaviour
    pc, reg,    \* the reader in keyboard_getchar, and its copy of kbd_count
    out         \* the character it took last

ring == <<kbd_buffer, kbd_head, kbd_tail, kbd_count>>
vars == <<down, wire, ring, mods, e0_prefix, reader, pc, reg, out>>

----------------------------------------------------------------------------
(* The keyboard: set 1 scan codes.  Keys on the extended pad send E0 and    *)
(* then the code of a key of the main pad.                                  *)

Extended == {"RCtrl", "RAlt", "Up", "Home", "Delete", "Insert"}

Code(k) ==
    CASE k = "RCtrl"  -> "LCtrl"
      [] k = "RAlt"   -> "LAlt"
      [] k = "Up"     -> "KP8"
      [] k = "Home"   -> "KP7"
      [] k = "Delete" -> "KP."
      [] k = "Insert" -> "KP0"
      [] OTHER        -> k

E0 == [code |-> "E0", break |-> FALSE]

Bytes(k, break) ==
    (IF k \in Extended THEN <<E0>> ELSE <<>>) \o <<[code |-> Code(k), break |-> break]>>

press(k) ==
    /\ k \notin down
    /\ Len(wire) + 2 <= MaxWire
    /\ down' = down \cup {k}
    /\ wire' = wire \o Bytes(k, FALSE)
    /\ UNCHANGED <<ring, mods, e0_prefix, reader, pc, reg, out>>

release(k) ==
    /\ k \in down
    /\ Len(wire) + 2 <= MaxWire
    /\ down' = down \ {k}
    /\ wire' = wire \o Bytes(k, TRUE)
    /\ UNCHANGED <<ring, mods, e0_prefix, reader, pc, reg, out>>

----------------------------------------------------------------------------
(* Characters.  Each key of the tables stands for its class: letters follow *)
(* Caps Lock, other printing keys only Shift, Enter neither.                *)

Esc(c) == <<"ESC", "[", c>>

Letter == {"a"}
Printing == {"1"}
Plain == {"Enter", "Escape", "KP8", "KP7", "KP.", "KP0"}

Shifted(c) == IF c = "a" THEN "A" ELSE "!"

Char == {"a", "A", "1", "!", "Enter", "Escape", "KP8", "KP7", "KP.", "KP0", "DEL", "ESC", "[", "H"}

\* The characters an extended key stands for.
ExtendedChars(code) ==
    CASE code = "KP8" -> Esc("A")
      [] code = "KP7" -> Esc("H")
      [] code = "KP." -> <<"DEL">>
      [] OTHER        -> <<>>

\* scancode_table and scancode_shift_table, then Caps Lock.
Ascii(code, m) ==
    CASE code \in Letter   -> <<IF m.shift # m.caps THEN Shifted(code) ELSE code>>
      [] code \in Printing -> <<IF m.shift THEN Shifted(code) ELSE code>>
      [] code \in Plain    -> <<code>>
      [] OTHER             -> <<>>

Modifiers(b) ==
    CASE b.code \in {"LShift", "RShift"}   -> [mods EXCEPT !.shift = ~b.break]
      [] b.code = "LCtrl"                  -> [mods EXCEPT !.ctrl = ~b.break]
      [] b.code = "LAlt"                   -> [mods EXCEPT !.alt = ~b.break]
      [] b.code = "Caps" /\ ~b.break       -> [mods EXCEPT !.caps = ~@]
      [] OTHER                             -> mods

----------------------------------------------------------------------------
(* The ring buffer.                                                         *)

put_OffByOne(r, c) ==
    IF r.count > KBD_BUFFER_SIZE THEN r
    ELSE [buf |-> [r.buf EXCEPT ![r.tail] = c], tail |-> (r.tail + 1) % KBD_BUFFER_SIZE,
          count |-> r.count + 1]

kbd_buffer_put(r, c) ==
    IF r.count >= KBD_BUFFER_SIZE THEN r
    ELSE [buf |-> [r.buf EXCEPT ![r.tail] = c], tail |-> (r.tail + 1) % KBD_BUFFER_SIZE,
          count |-> r.count + 1]

PutAll(s) ==
    LET r == FoldLeft(kbd_buffer_put, [buf |-> kbd_buffer, tail |-> kbd_tail, count |-> kbd_count], s)
    IN  kbd_buffer' = r.buf /\ kbd_tail' = r.tail /\ kbd_count' = r.count /\ UNCHANGED kbd_head

----------------------------------------------------------------------------
(* Interrupts.                                                              *)

InterruptsOn == reader = "thread" \/ pc = "out"

\* An interrupt ends the hlt of keyboard_getchar.
Woken == IF pc = "hlt" THEN "get" ELSE pc

handle_NoPrefix(b) ==
    /\ e0_prefix' = (b = E0)
    /\ IF b = E0 THEN UNCHANGED <<ring, mods>>
       ELSE /\ mods' = Modifiers(b)
            /\ PutAll(IF b.break THEN <<>> ELSE IF e0_prefix THEN ExtendedChars(b.code) ELSE Ascii(b.code, mods))

handle(b) ==
    CASE b = E0              -> e0_prefix' = TRUE /\ UNCHANGED <<ring, mods>>
      [] b # E0 /\ e0_prefix -> /\ e0_prefix' = FALSE
                                /\ PutAll(IF b.break THEN <<>> ELSE ExtendedChars(b.code))
                                /\ UNCHANGED mods
      [] OTHER               -> /\ PutAll(IF b.break THEN <<>> ELSE Ascii(b.code, mods))
                                /\ mods' = Modifiers(b)
                                /\ UNCHANGED e0_prefix

kbd_interrupt_handler ==
    /\ InterruptsOn
    /\ wire # <<>>
    /\ handle(Head(wire))
    /\ wire' = Tail(wire)
    /\ pc' = Woken
    /\ UNCHANGED <<down, reader, reg, out>>

\* The mouse or the floppy controller interrupts; nothing says that they do.
other_interrupt ==
    /\ InterruptsOn
    /\ pc = "hlt"
    /\ pc' = Woken
    /\ UNCHANGED <<down, wire, ring, mods, e0_prefix, reader, reg, out>>

----------------------------------------------------------------------------
(* keyboard_getchar.                                                        *)

getchar_call ==
    /\ pc = "out"
    /\ pc' = "get"
    /\ UNCHANGED <<down, wire, ring, mods, e0_prefix, reader, reg, out>>

get_test_OffByOne ==
    /\ pc = "get"
    /\ reg' = kbd_count
    /\ pc' = IF kbd_count <= 1 THEN "serial" ELSE "store"
    /\ UNCHANGED <<down, wire, ring, mods, e0_prefix, reader, out>>

\* kbd_buffer_get: load and test kbd_count.
get_test ==
    /\ pc = "get"
    /\ reg' = kbd_count
    /\ pc' = IF kbd_count <= 0 THEN "serial" ELSE "store"
    /\ UNCHANGED <<down, wire, ring, mods, e0_prefix, reader, out>>

get_store ==
    /\ pc = "store"
    /\ kbd_count' = reg - 1
    /\ reg' = 0
    /\ pc' = "read"
    /\ UNCHANGED <<down, wire, kbd_buffer, kbd_head, kbd_tail, mods, e0_prefix, reader, out>>

HeadAfter_NoWrap == kbd_head + 1

HeadAfter == (kbd_head + 1) % KBD_BUFFER_SIZE

get_read ==
    /\ pc = "read"
    /\ out' = kbd_buffer[kbd_head]
    /\ kbd_head' = HeadAfter
    /\ pc' = "out"
    /\ UNCHANGED <<down, wire, kbd_buffer, kbd_tail, kbd_count, mods, e0_prefix, reader, reg>>

\* serial_getchar has a character, which is returned, or the thread halts.
serial_poll ==
    /\ pc = "serial"
    /\ pc' \in {"out", "hlt"}
    /\ UNCHANGED <<down, wire, ring, mods, e0_prefix, reader, reg, out>>

getchar == getchar_call \/ get_test \/ get_store \/ get_read \/ serial_poll

----------------------------------------------------------------------------

keyboard_init ==
    /\ kbd_buffer = [i \in 0..(KBD_BUFFER_SIZE - 1) |-> "NUL"]
    /\ kbd_head = 0 /\ kbd_tail = 0 /\ kbd_count = 0
    /\ mods = [shift |-> FALSE, ctrl |-> FALSE, alt |-> FALSE, caps |-> FALSE]
    /\ e0_prefix = FALSE

Init ==
    /\ keyboard_init
    /\ down = {} /\ wire = <<>>
    /\ reader \in Readers
    /\ pc = "out" /\ reg = 0 /\ out = "NUL"

Next ==
    \/ \E k \in Keys : press(k) \/ release(k)
    \/ kbd_interrupt_handler
    \/ other_interrupt
    \/ getchar

Spec == Init /\ [][Next]_vars

\* Bytes on the wire raise IRQ1, which is served whenever interrupts are on.
\* The reading thread keeps running.  No other interrupt is sure to come.
FairSpec ==
    /\ Spec
    /\ WF_vars(kbd_interrupt_handler)
    /\ WF_vars(get_test) /\ WF_vars(get_store) /\ WF_vars(get_read) /\ WF_vars(serial_poll)

----------------------------------------------------------------------------
(* Properties.                                                              *)

Index == 0..(KBD_BUFFER_SIZE - 1)

\* Indices stay within the buffer and the count between zero and its size.
TypeOK ==
    /\ kbd_head \in Index /\ kbd_tail \in Index
    /\ kbd_count \in 0..KBD_BUFFER_SIZE
    /\ kbd_buffer \in [Index -> Char \cup {"NUL"}]
    /\ pc \in {"out", "get", "store", "read", "serial", "hlt"}

\* What the reader will get: kbd_count characters from kbd_head on.
Unread ==
    [i \in 1..(kbd_count + IF pc = "read" THEN 1 ELSE 0) |->
        kbd_buffer[(kbd_head + i - 1) % KBD_BUFFER_SIZE]]

\* Read by threads the ring is not mapped to the FIFO: a thread can lose an
\* increment of kbd_count between get_test and get_store.
Fifo == INSTANCE BoundedFifo WITH
            Item <- Char, Size <- KBD_BUFFER_SIZE, MaxRun <- 3,
            queue <- IF reader = "syscall" THEN Unread ELSE <<>>,
            out <- IF reader = "syscall" THEN out ELSE "NUL"

\* With interrupts off in kbd_buffer_get, the ring is a FIFO that loses only
\* what does not fit: no key is duplicated, reordered or overwritten, however
\* the indices wrap and wherever an escape sequence meets a full buffer.
FifoSpec == Fifo!Spec

\* Once all bytes are handled, ctrl_pressed and alt_pressed say whether the
\* key is held: the break and make codes of extended keys, which share the
\* codes of the main pad, do not reach them.
ModifiersTrackKeys ==
    wire = <<>> =>
        /\ mods.ctrl = ("LCtrl" \in down)
        /\ mods.alt = ("LAlt" \in down)
        /\ ~e0_prefix

\* A key that gives characters and that keyboard_getchar has not seen: still
\* on the wire, or put into the buffer after the test of kbd_count.
Pressed ==
    \/ kbd_count > 0
    \/ \E i \in DOMAIN wire : ~wire[i].break /\ wire[i].code \in {"a", "KP8"}

\* A key that comes between the test of kbd_count and the hlt (keyboard.c:534,
\* 540) does not wake the reader, but it is not lost: the next byte from the
\* keyboard, at the latest the one that says the key was released, ends the hlt
\* and the reader returns with the key.
NextByteWakes ==
    (reader = "thread" /\ pc = "hlt" /\ kbd_count > 0 /\ wire # <<>>) ~> (pc = "out")

\* "Blocking read of a character (waits for a key)" (keyboard.h:19): whoever
\* found the buffer empty returns when a key has been pressed.
GetcharReturns == (pc \in {"serial", "hlt"} /\ Pressed) ~> (pc = "out")

============================================================================
