-------------------------------- MODULE Fdc --------------------------------
(***************************************************************************)
(* The floppy driver (kernel/drivers/fdc.c): motors, initialisation, seek  *)
(* and transfer with their waits for IRQ 6, and the controller.            *)
(*                                                                         *)
(* A wait ends when fdc_irq_fired is set or when its time, counted in      *)
(* reads of port 0x80, is over.  The controller may answer late (Late):    *)
(* after the driver has given up.  It takes no command while it transfers, *)
(* nor before its result bytes are read; the driver ignores that.          *)
(***************************************************************************)
EXTENDS Integers

CONSTANTS
    Drive,              \* the drives in use
    Cylinder,
    Late,               \* whether the controller may answer after a timeout
    SeekEnd,            \* what ST0 may show as its Seek End bit after a seek
    MOTOR_OFF_DELAY

ASSUME FdcAssumption ==
    /\ Drive \subseteq {0, 1} /\ 0 \in Drive
    /\ 0 \in Cylinder
    /\ Late \in BOOLEAN
    /\ SeekEnd \subseteq BOOLEAN /\ SeekEnd # {}
    /\ MOTOR_OFF_DELAY \in Nat \ {0}

Retries == 3

VARIABLES
    fdc_irq_fired, st0_ok,           \* st0_ok: fdc_result[0], as last read, shows no error
    motor_state, motor_off_timer,
    pc, op, retries,                 \* the operation in progress
    sensed,                          \* whether st0 and cyl of this seek were assigned
    ready,                           \* whether fdc_init has succeeded
    returned,                        \* what the last operation returned
    \* the controller:
    dor,                             \* motors switched on by the last write to the DOR
    phase,                           \* "idle", "reset", "exec", "hung" (no disk) or "result"
    result_ok,                       \* the status it has in the result phase
    seeking,
    sense,                           \* cylinder of a seek or reset not yet sensed, -1 for none
    \* history:
    mine,                            \* whether the transfer in the controller is op's
    completed                        \* whether it ended without error

driver == <<fdc_irq_fired, st0_ok>>
motors == <<motor_state, motor_off_timer, dor>>
call == <<op, retries, sensed, ready, returned>>
chip == <<phase, result_ok, seeking, sense>>
history == <<mine, completed>>
vars == <<driver, motors, pc, call, chip, history>>

Op == [kind : {"read", "write", "detect"}, drive : Drive, cyl : Cylinder]
InitOp == [kind |-> "init", drive |-> 0, cyl |-> 0]

----------------------------------------------------------------------------
(* Motors.                                                                  *)

fdc_motor_on(d) ==
    /\ motor_state' = [motor_state EXCEPT ![d] = "ON"]
    /\ motor_off_timer' = [motor_off_timer EXCEPT ![d] = MOTOR_OFF_DELAY]
    /\ dor' = IF motor_state[d] = "ON" THEN dor ELSE {d}

motor_off_NoWrite(d) ==
    /\ motor_state' = [motor_state EXCEPT ![d] = "OFF"]
    /\ motor_off_timer' = [motor_off_timer EXCEPT ![d] = 0]
    /\ UNCHANGED dor

motor_off_KeepTimer(d) ==
    /\ motor_state' = [motor_state EXCEPT ![d] = "OFF"]
    /\ dor' = {}
    /\ UNCHANGED motor_off_timer

fdc_motor_off(d) ==
    /\ motor_state' = [motor_state EXCEPT ![d] = "OFF"]
    /\ motor_off_timer' = [motor_off_timer EXCEPT ![d] = 0]
    /\ dor' = {}

\* One tick.  The comment at fdc.c:339 has a main loop call it; no code does, so
\* it may come between two operations but need not.
Expiring == {d \in Drive : motor_state[d] = "ON" /\ motor_off_timer[d] = 1}

fdc_motor_tick ==
    LET Running == {d \in Drive : motor_state[d] = "ON" /\ motor_off_timer[d] > 0}
    IN  /\ pc = "idle"
        /\ Running # {}
        /\ motor_off_timer' = [d \in Drive |-> motor_off_timer[d] - IF d \in Running THEN 1 ELSE 0]
        /\ motor_state' = [d \in Drive |-> IF d \in Expiring THEN "OFF" ELSE motor_state[d]]
        /\ dor' = IF Expiring = {} THEN dor ELSE {}
        /\ UNCHANGED <<driver, pc, call, chip, history>>

----------------------------------------------------------------------------
(* Calls.                                                                   *)

Return(ok) == pc' = "idle" /\ returned' = ok

Begin(o) ==
    /\ pc = "idle"
    /\ op' = o
    /\ retries' = Retries
    /\ sensed' = FALSE
    /\ mine' = FALSE /\ completed' = FALSE
    /\ UNCHANGED <<driver, ready>>

\* fdc_read_sectors and fdc_write_sectors through fdc_motor_on.
start(o) ==
    /\ ready /\ o.kind # "detect"
    /\ Begin(o)
    /\ fdc_motor_on(o.drive)
    /\ pc' = "seek"
    /\ returned' = FALSE
    /\ UNCHANGED chip

\* READ ID needs no seek.
fdc_detect_disk(o) ==
    /\ ready /\ o.kind = "detect"
    /\ Begin(o)
    /\ fdc_motor_on(o.drive)
    /\ pc' = "xfer"
    /\ returned' = FALSE
    /\ UNCHANGED chip

write_protected(o) ==
    /\ ready /\ o.kind = "write"
    /\ Begin(o)
    /\ Return(FALSE)
    /\ UNCHANGED <<motors, chip>>

\* fdc_init, by kernel_main and by the installer, as far as fdc_reset's wait.
fdc_init ==
    /\ Begin(InitOp)
    /\ motor_state' = [d \in Drive |-> "OFF"]
    /\ motor_off_timer' = [d \in Drive |-> 0]
    /\ dor' = {}
    /\ phase' = "reset" /\ seeking' = FALSE /\ sense' = -1
    /\ pc' = "resetwait"
    /\ returned' = FALSE
    /\ UNCHANGED result_ok

\* fdc_wait_irq returning true.
GotIrq == fdc_irq_fired /\ fdc_irq_fired' = FALSE

\* fdc_wait_irq returning false; unless Late, no answer is to come.
Answering == seeking \/ phase \in {"exec", "reset"}

TimedOut == ~fdc_irq_fired /\ (Late \/ ~Answering) /\ UNCHANGED fdc_irq_fired

reset_wait ==
    /\ pc = "resetwait"
    /\ \/ GotIrq /\ fdc_motor_on(0) /\ pc' = "seek" /\ UNCHANGED returned
       \/ TimedOut /\ Return(FALSE) /\ UNCHANGED motors
    /\ sense' = IF phase = "idle" THEN -1 ELSE sense
    /\ UNCHANGED <<st0_ok, op, retries, sensed, ready, phase, result_ok, seeking, history>>

----------------------------------------------------------------------------
(* fdc_seek, and fdc_recalibrate, which is the same loop towards cylinder 0. *)

TriesLeft_Forever == retries

TriesLeft == retries - 1

fdc_seek ==
    /\ pc = "seek"
    /\ IF retries = 0
         THEN /\ fdc_motor_off(op.drive)
              /\ Return(FALSE)
              /\ UNCHANGED <<retries, seeking>>
         ELSE /\ retries' = TriesLeft
              /\ seeking' = (seeking \/ phase = "idle")
              /\ pc' = "seekwait"
              /\ UNCHANGED <<motors, returned>>
    /\ UNCHANGED <<driver, op, sensed, ready, phase, result_ok, sense, history>>

seek_wait ==
    /\ pc = "seekwait"
    /\ \/ GotIrq /\ pc' = "sense"
       \/ TimedOut /\ pc' = "seek"
    /\ UNCHANGED <<st0_ok, motors, call, chip, history>>

\* fdc_sense_interrupt and the test of st0 and cyl.  When it fails they keep
\* what the try before left, which was not good, or are uninitialised.
Sensed == phase = "idle" /\ sense # -1

Arrived ==
    IF Sensed THEN {sense = op.cyl /\ ~se : se \in SeekEnd}
    ELSE IF sensed THEN {FALSE} ELSE BOOLEAN

seek_sense ==
    /\ pc = "sense"
    /\ \E arrived \in Arrived :
         IF arrived /\ op.kind = "init"
           THEN fdc_motor_off(0) /\ ready' = TRUE /\ Return(TRUE)
           ELSE /\ pc' = IF arrived THEN "xfer" ELSE "seek"
                /\ UNCHANGED <<motors, ready, returned>>
    /\ sensed' = (sensed \/ Sensed)
    /\ sense' = IF phase = "idle" THEN -1 ELSE sense
    /\ UNCHANGED <<driver, op, retries, phase, result_ok, seeking, history>>

----------------------------------------------------------------------------
(* The transfer.                                                            *)

\* DMA is set up and READ DATA, WRITE DATA or READ ID sent.  Without a disk
\* that turns the controller never answers.
send_transfer ==
    /\ pc = "xfer"
    /\ IF phase = "idle"
         THEN /\ phase' \in IF op.drive \in dor THEN {"exec", "hung"} ELSE {"hung"}
              /\ mine' = TRUE
         ELSE UNCHANGED <<phase, mine>>
    /\ pc' = "xferwait"
    /\ UNCHANGED <<driver, motors, call, result_ok, seeking, sense, completed>>

transfer_timeout ==
    /\ pc = "xferwait"
    /\ TimedOut
    /\ fdc_motor_off(op.drive)
    /\ Return(FALSE)
    /\ UNCHANGED <<st0_ok, op, retries, sensed, ready, chip, history>>

\* fdc_read_result: outside the result phase it reads nothing, and
\* fdc_result[0] stays as an earlier operation left it.
ResultRead_Ignored == TRUE

ResultRead == IF phase = "result" THEN result_ok ELSE st0_ok

ReadResult ==
    /\ pc = "xferwait"
    /\ GotIrq
    /\ st0_ok' = ResultRead
    /\ Return(st0_ok')
    /\ phase' = IF phase = "result" THEN "idle" ELSE phase
    /\ UNCHANGED <<op, retries, sensed, ready, result_ok, seeking, sense, history>>

transfer_result ==
    /\ op.kind # "detect"
    /\ ReadResult
    /\ IF st0_ok'
         THEN /\ motor_off_timer' = [motor_off_timer EXCEPT ![op.drive] = MOTOR_OFF_DELAY]
              /\ UNCHANGED <<motor_state, dor>>
         ELSE fdc_motor_off(op.drive)

detect_result ==
    /\ op.kind = "detect"
    /\ ReadResult
    /\ fdc_motor_off(op.drive)

\* The body of a call: of fdc_write_sectors, as of fdc_read_sectors, from its
\* seek on.
step ==
    \/ reset_wait \/ fdc_seek \/ seek_wait \/ seek_sense
    \/ send_transfer \/ transfer_timeout \/ transfer_result \/ detect_result

----------------------------------------------------------------------------
(* The controller; its answers raise IRQ 6.                                 *)

fdc_interrupt_handler == fdc_irq_fired' = TRUE

\* The reset leaves a status to be sensed, of cylinder 0, for each drive;
\* fdc_reset senses the four of them.
reset_done ==
    /\ phase = "reset"
    /\ phase' = "idle"
    /\ sense' = 0
    /\ fdc_interrupt_handler
    /\ UNCHANGED <<st0_ok, motors, pc, call, result_ok, seeking, history>>

\* The head may end on another cylinder than it was sent to.
seek_done ==
    /\ seeking
    /\ seeking' = FALSE
    /\ sense' \in Cylinder
    /\ fdc_interrupt_handler
    /\ UNCHANGED <<st0_ok, motors, pc, call, phase, result_ok, history>>

transfer_done ==
    /\ phase = "exec"
    /\ phase' = "result"
    /\ result_ok' \in BOOLEAN
    /\ completed' = (completed \/ (mine /\ result_ok'))
    /\ fdc_interrupt_handler
    /\ UNCHANGED <<st0_ok, motors, pc, call, seeking, sense, mine>>

controller == reset_done \/ seek_done \/ transfer_done

----------------------------------------------------------------------------

Init ==
    /\ fdc_irq_fired = FALSE
    /\ st0_ok = TRUE                 \* fdc_result is zero
    /\ motor_state = [d \in Drive |-> "OFF"]
    /\ motor_off_timer = [d \in Drive |-> 0]
    /\ pc = "idle" /\ op = InitOp /\ retries = 0 /\ sensed = FALSE
    /\ ready = FALSE /\ returned = FALSE
    /\ dor = {} /\ phase = "idle" /\ result_ok = FALSE /\ seeking = FALSE /\ sense = -1
    /\ mine = FALSE /\ completed = FALSE

Next ==
    \/ fdc_init
    \/ \E o \in Op : start(o) \/ fdc_detect_disk(o) \/ write_protected(o)
    \/ step
    \/ fdc_motor_tick
    \/ controller

Spec == Init /\ [][Next]_vars

\* A call runs on, and a controller that is going to answer does.
FairSpec == Spec /\ WF_vars(step) /\ WF_vars(controller)

----------------------------------------------------------------------------
(* Properties.                                                              *)

\* Every variable keeps its type; the timer of a motor that is off is zero.
TypeOK ==
    /\ pc \in {"idle", "resetwait", "seek", "seekwait", "sense", "xfer", "xferwait"}
    /\ op \in Op \cup {InitOp}
    /\ retries \in 0..Retries
    /\ motor_state \in [Drive -> {"OFF", "ON"}]
    /\ motor_off_timer \in [Drive -> 0..MOTOR_OFF_DELAY]
    /\ \A d \in Drive : motor_state[d] = "OFF" => motor_off_timer[d] = 0
    /\ dor \subseteq Drive
    /\ phase \in {"idle", "reset", "exec", "hung", "result"}
    /\ sense \in Cylinder \cup {-1}
    /\ {fdc_irq_fired, st0_ok, sensed, ready, returned, result_ok, seeking, mine, completed}
         \subseteq BOOLEAN

\* fdc_read_sectors, fdc_write_sectors and fdc_detect_disk return true only if
\* the controller completed, without error, the command this call gave it.
SuccessIsReal == pc = "idle" /\ returned /\ op.kind # "init" => completed

\* "Returns: true = success, false = failure" (fdc.c:680), of fdc_read_sectors.
ReadIsReal == pc = "idle" /\ returned /\ op.kind = "read" => completed

\* A motor that turns is one the driver has on record as ON, whichever drives the
\* calls were for and however they ended: it is there for fdc_motor_off or
\* fdc_motor_tick to stop.  The converse fails with two drives (fdc.c:303).
RunningMotorKnown == \A d \in dor : motor_state[d] = "ON"

\* Every call returns, whatever the controller does or leaves undone.
CallReturns == pc # "idle" ~> pc = "idle"

============================================================================
