----------------------------- MODULE Scheduler -----------------------------
(***************************************************************************)
(* The round-robin process scheduler (kernel/sched/scheduler.c), together  *)
(* with the interrupt return path that drives it (ISR_RETURN in            *)
(* kernel/arch/interrupt.asm) and the tail of kernel_main that boots it.   *)
(*                                                                         *)
(* One CPU runs one thread: the boot thread of kernel_main or the idle     *)
(* loop while current = IDLE, otherwise the process `current'.  An         *)
(* interrupt may arrive between any two steps of that thread, except after *)
(* cli.  The calls sched_yield, sched_block and sched_exit re-enable       *)
(* interrupts (hal_irq_restore) before they call sched_switch_to, so each  *)
(* is five steps here: the part under hal_irq_save, which leaves its       *)
(* choice in the local `next' (held), and the four assignments of          *)
(* sched_switch_to.  sched_start re-enables them before its last one.      *)
(*                                                                         *)
(* sched_create_process and sched_unblock leave the interrupt flag alone.  *)
(* kernel_main creates with interrupts on while no other thread exists     *)
(* (see ReadyList for the steps of that call).  Processes are taken to     *)
(* make these two calls with interrupts off, as a system call or a handler *)
(* would: no process of the repository makes them, and with interrupts on  *)
(* two threads can take one PCB between alloc_pcb and state = PROC_READY.  *)
(***************************************************************************)
EXTENDS Integers, Sequences, SequencesExt, FiniteSets

CONSTANTS PROC_MAX,   \* number of PCBs in pcb_pool
          TIME_SLICE, \* PROC_TIME_SLICE_DEFAULT, in ticks
          MaxPid,     \* bound: processes created in one behaviour
          BootFlag,   \* flag of the process kernel_main creates
          Workloads   \* sets of scheduler calls: the threads of a behaviour
                      \* make the calls of one of them

ASSUME ConstantsAssumption ==
    /\ PROC_MAX \in Nat \ {0}
    /\ TIME_SLICE \in Nat \ {0}
    /\ MaxPid \in Nat
    /\ BootFlag \in {"USER", "KERNEL"}
    /\ Workloads \subseteq SUBSET {"create", "yield", "block", "exit"}

IDLE == 0               \* idle_pcb
Slot == 1..PROC_MAX     \* pcb_pool
Proc == {IDLE} \cup Slot

VARIABLES
    state,     \* pcb->state
    flags,     \* pcb->flags
    ticks,     \* pcb->ticks_remaining
    resume,    \* what pcb->kernel_esp points to: see Context
    held,      \* the local `next' on the stack of a thread in the window
    ready,     \* the ready queue, head first
    current,   \* the PCB `current' points to
    next_pid,  \* the next pid: a PCB stands for the process, so pids are not stored
    at,        \* where the running thread is: see Place
    boot,      \* how far kernel_main has come
    calls      \* the workload: never changes

pcbs == <<state, flags, ticks, resume, held>>
vars == <<state, flags, ticks, resume, held, ready, current, next_pid, at, boot, calls>>

(***************************************************************************)
(* A saved context is none (kernel_esp = 0), fresh (the frame of the last  *)
(* interrupt, or the entry frame of a new process), window (the frame of   *)
(* an interrupt taken between hal_irq_restore and sched_switch_to), stale  *)
(* (the thread ran on after its frame was saved and then left the CPU      *)
(* without saving another, so its own stack has overwritten it) or torn    *)
(* (the frame of an interrupt taken after `current' was changed and before *)
(* the stack was: it lies on the stack of the thread that is leaving,      *)
(* inside the switch, which would go on to restore that same frame).       *)
(***************************************************************************)
Context == {"none", "fresh", "window", "stale", "torn"}

(***************************************************************************)
(* run: ordinary code, interrupts on.  window: inside a scheduler call,    *)
(* between hal_irq_restore and sched_switch_to.  picked, marked, switch:   *)
(* `current' has been changed, then its state, then its ticks, and the     *)
(* stack not yet.  wild: executing through a frame that no longer exists.  *)
(* halt: cli; hlt.                                                         *)
(***************************************************************************)
Interruptible == {"run", "window", "picked", "marked", "switch"}

Place == Interruptible \cup {"wild", "halt"}

\* The fields of every PCB, the queue and the counters keep their ranges; in
\* particular ticks_remaining is never decremented below zero by sched_tick.
TypeOK ==
    /\ state \in [Proc -> {"FREE", "READY", "RUNNING", "BLOCKED"}]
    /\ flags \in [Proc -> {"USER", "KERNEL"}]
    /\ ticks \in [Proc -> 0..TIME_SLICE]
    /\ resume \in [Proc -> Context]
    /\ held \in [Proc -> Proc]
    /\ ready \in Seq(Slot)
    /\ current \in Proc
    /\ next_pid \in 1..(MaxPid + 1)
    /\ at \in Place
    /\ boot \in {"create", "start", "done", "returned"}

----------------------------------------------------------------------------
(* The state sched_init leaves; kernel_main then runs with pit_init done.   *)

sched_init ==
    /\ state = [p \in Proc |-> IF p = IDLE THEN "READY" ELSE "FREE"]
    /\ flags = [p \in Proc |-> "KERNEL"]
    /\ ticks = [p \in Proc |-> 0]
    /\ resume = [p \in Proc |-> "none"]
    /\ held = [p \in Proc |-> IDLE]
    /\ ready = <<>>
    /\ current = IDLE
    /\ next_pid = 1

Init == sched_init /\ at = "run" /\ boot = "create" /\ calls \in Workloads

----------------------------------------------------------------------------
(* Helpers.  dequeue_ready on the queue q yields Head(q), or NULL when q is *)
(* empty, and every caller then falls back to the idle process.             *)

enqueue_AtHead(q, p) == <<p>> \o q

enqueue_ready(q, p) == Append(q, p)

\* The state fields after enqueue_ready(p).
EnqueuedState_Kept(p) == state

EnqueuedState(p) == [state EXCEPT ![p] = "READY"]

NextProc(q) == IF q = <<>> THEN IDLE ELSE Head(q)

Dequeued_Kept(q) == q

Dequeued(q) == IF q = <<>> THEN q ELSE Tail(q)

alloc_pcb(p) ==
    /\ state[p] = "FREE"
    /\ \A s \in Slot : s < p => state[s] # "FREE"

time_slice(p) == IF p = IDLE THEN 0 ELSE TIME_SLICE

\* sched_restore_context(kernel_esp): where the restored frame continues.
sched_restore_context(context) ==
    CASE context = "fresh"  -> "run"
      [] context = "window" -> "window"
      [] OTHER              -> "wild"

\* st and tk are the state and tick fields as the caller has left them.
sched_switch_to(next, st, tk) ==
    /\ current' = next
    /\ state' = [st EXCEPT ![next] = "RUNNING"]
    /\ ticks' = [tk EXCEPT ![next] = time_slice(next)]
    /\ at' = sched_restore_context(resume[next])

----------------------------------------------------------------------------
(* Interrupts.                                                              *)

tick_Unguarded ==
    IF current # IDLE THEN [ticks EXCEPT ![current] = @ - 1] ELSE ticks

sched_tick ==
    IF current # IDLE /\ ticks[current] > 0
      THEN [ticks EXCEPT ![current] = @ - 1]
      ELSE ticks

need_resched_NotIdle(tk) == current # IDLE /\ tk[current] = 0

sched_need_resched(tk) ==
    IF current = IDLE THEN Len(ready) > 0 ELSE tk[current] = 0

\* The context an interrupt of the running thread saves.
SavedContext_Missing == "stale"

SavedContext ==
    CASE at = "run"    -> "fresh"
      [] at = "window" -> "window"
      [] OTHER         -> "torn"

Requeued_Always == current # IDLE

Requeued == current # IDLE /\ state[current] = "RUNNING"

sched_do_switch_asm(tk) ==
    LET st   == IF Requeued THEN EnqueuedState(current) ELSE state
        q    == IF Requeued THEN enqueue_ready(ready, current) ELSE ready
        next == NextProc(q)
    IN  /\ ready' = Dequeued(q)
        /\ resume' = [resume EXCEPT ![current] = SavedContext]
        /\ IF next = current
             THEN /\ state' = st
                  /\ ticks' = tk
                  /\ UNCHANGED <<current, at>>
             ELSE sched_switch_to(next, st, tk)
        /\ UNCHANGED <<flags, held, next_pid, boot>>

\* ISR_RETURN after a handler that left the tick fields tk.
ISR_RETURN(tk) ==
    IF sched_need_resched(tk)
      THEN sched_do_switch_asm(tk)
      ELSE /\ ticks' = tk
           /\ UNCHANGED <<state, flags, resume, held, ready, current, next_pid, at, boot>>

\* A slice is PROC_TIME_SLICE_DEFAULT ticks, 300 ms: it does not run out between
\* its renewal and sched_restore_context, a line on the serial port at most.
SwitchIsShort == at = "switch" /\ current # IDLE => ticks[current] > 1

isr_timer == at \in Interruptible /\ SwitchIsShort /\ ISR_RETURN(sched_tick)

\* Keyboard, mouse and FDC interrupts, and every system call but SYS_EXIT.
isr_other == at \in Interruptible /\ ISR_RETURN(ticks)

\* SYS_EXIT: interrupts are off from the gate to sched_restore_context.
sched_exit_asm ==
    /\ at = "run"
    /\ current # IDLE
    /\ flags[current] = "USER"
    /\ ready' = Dequeued(ready)
    /\ sched_switch_to(NextProc(ready), [state EXCEPT ![current] = "FREE"], ticks)
    /\ UNCHANGED <<flags, resume, held, next_pid, boot>>

----------------------------------------------------------------------------
(* Calls of the running thread.                                             *)

sched_create_process(flag) ==
    \E p \in Slot :
      /\ alloc_pcb(p)
      /\ next_pid <= MaxPid
      /\ next_pid' = next_pid + 1
      /\ state' = EnqueuedState(p)
      /\ flags' = [flags EXCEPT ![p] = flag]
      /\ ticks' = [ticks EXCEPT ![p] = TIME_SLICE]
      /\ resume' = [resume EXCEPT ![p] = "fresh"]
      /\ held' = [held EXCEPT ![p] = IDLE]
      /\ ready' = enqueue_ready(ready, p)
      /\ UNCHANGED <<current, at>>

\* The thread kernel_main runs on is the one current = IDLE stands for.
BootThread == current = IDLE /\ at = "run"

boot_create == BootThread /\ boot = "create" /\ boot' = "start" /\ sched_create_process(BootFlag)

\* sched_start up to hal_irq_restore: with an empty queue it returns, and
\* kernel_main halts.
sched_start ==
    /\ BootThread
    /\ boot = "start"
    /\ IF ready = <<>>
         THEN /\ boot' = "returned"
              /\ at' = "halt"
              /\ UNCHANGED <<state, flags, ticks, resume, held, ready, current, next_pid>>
         ELSE /\ boot' = "done"
              /\ ready' = Tail(ready)
              /\ resume' = [resume EXCEPT ![IDLE] = "fresh"]
              /\ current' = Head(ready)
              /\ state' = [state EXCEPT ![Head(ready)] = "RUNNING"]
              /\ ticks' = [ticks EXCEPT ![Head(ready)] = TIME_SLICE]
              /\ at' = "switch"
              /\ UNCHANGED <<flags, held, next_pid>>

KernelThread == current # IDLE /\ at = "run" /\ flags[current] = "KERNEL"

\* With interrupts off.
thread_create(flag) ==
    KernelThread /\ "create" \in calls /\ sched_create_process(flag) /\ UNCHANGED boot

\* The part of a call under hal_irq_save: st and q as it leaves them.
EnterWindow(st, q) ==
    /\ state' = st
    /\ ready' = Dequeued(q)
    /\ held' = [held EXCEPT ![current] = NextProc(q)]
    /\ at' = "window"
    /\ UNCHANGED <<flags, ticks, resume, current, next_pid, boot>>

sched_yield ==
    /\ KernelThread
    /\ "yield" \in calls
    /\ ready # <<>>
    /\ IF Requeued
         THEN EnterWindow(EnqueuedState(current), enqueue_ready(ready, current))
         ELSE EnterWindow(state, ready)

sched_block ==
    /\ KernelThread
    /\ "block" \in calls
    /\ EnterWindow([state EXCEPT ![current] = IF @ = "RUNNING" THEN "BLOCKED" ELSE @], ready)

sched_exit ==
    /\ KernelThread
    /\ "exit" \in calls
    /\ EnterWindow([state EXCEPT ![current] = "FREE"], ready)

(* The rest of such a call: sched_switch_to(next) with interrupts on.  It   *)
(* saves no context for the thread it leaves.                               *)

switch_current ==
    /\ at = "window"
    /\ at' = "picked"
    /\ current' = held[current]
    /\ resume' = [resume EXCEPT ![current] = "stale"]
    /\ held' = [held EXCEPT ![current] = IDLE]
    /\ UNCHANGED <<state, flags, ticks, ready, next_pid, boot>>

switch_state ==
    /\ at = "picked"
    /\ at' = "marked"
    /\ state' = [state EXCEPT ![current] = "RUNNING"]
    /\ UNCHANGED <<flags, ticks, resume, held, ready, current, next_pid, boot>>

switch_ticks ==
    /\ at = "marked"
    /\ at' = "switch"
    /\ ticks' = [ticks EXCEPT ![current] = time_slice(current)]
    /\ UNCHANGED <<state, flags, resume, held, ready, current, next_pid, boot>>

\* The last call of sched_switch_to and of sched_start.
switch_restore ==
    /\ at = "switch"
    /\ at' = sched_restore_context(resume[current])
    /\ UNCHANGED <<state, flags, ticks, resume, held, ready, current, next_pid, boot>>

\* Called with interrupts off, from a handler: see ReadyList for the rest.
sched_unblock ==
    /\ at \in Interruptible
    /\ "block" \in calls
    /\ \E p \in Slot :
         /\ state[p] = "BLOCKED"
         /\ state' = EnqueuedState(p)
         /\ ready' = enqueue_ready(ready, p)
    /\ UNCHANGED <<flags, ticks, resume, held, current, next_pid, at, boot>>

----------------------------------------------------------------------------

Step ==
    \/ isr_timer
    \/ isr_other
    \/ sched_exit_asm
    \/ boot_create
    \/ sched_start
    \/ \E flag \in {"USER", "KERNEL"} : thread_create(flag)
    \/ sched_yield
    \/ sched_block
    \/ sched_exit
    \/ switch_current
    \/ switch_state
    \/ switch_ticks
    \/ switch_restore
    \/ sched_unblock

Next == Step /\ UNCHANGED calls

Spec == Init /\ [][Next]_vars

\* The PIT ticks at 100 Hz for as long as interrupts are enabled, and a switch
\* that has begun comes to its end.
FairSpec ==
    /\ Spec
    /\ WF_vars(isr_timer /\ UNCHANGED calls)
    /\ WF_vars(switch_restore /\ UNCHANGED calls)

----------------------------------------------------------------------------
(* Properties.                                                              *)

In(q, p) == \E i \in 1..Len(q) : q[i] = p

Queued(p) == In(ready, p)

\* The ready queue links each PCB at most once, and only PCBs that are READY,
\* wherever an interrupt hits the calls that switch with interrupts on.
\* enqueue_ready checks neither: linking a PCB twice would cut the list.  The
\* running process is linked only inside sched_yield's window.
QueueSound ==
    /\ IsInjective(ready)
    /\ \A p \in Slot : Queued(p) => state[p] = "READY"
    /\ Queued(current) => at = "window"

\* Thread p is between hal_irq_restore and sched_switch_to, running or stopped.
InWindow(p) ==
    IF p = current /\ at \in {"run", "window"} THEN at = "window" ELSE resume[p] = "window"

\* The process a call has taken from the queue is this call's alone until the
\* call switches to it: no interrupt in the window makes it current, links it
\* again, or lets another call take it.
HeldSound ==
    \A p \in Slot : InWindow(p) /\ held[p] # IDLE =>
        /\ ~Queued(held[p])
        /\ state[held[p]] = "READY"
        /\ held[p] # current
        /\ \A o \in Slot \ {p} : InWindow(o) => held[o] # held[p]

\* The calls that leave a process without saving its context.
Leaving == {"yield", "block"}

\* No process but the current one is RUNNING, whatever window an interrupt
\* hits, while no thread makes one of those calls: preemption and exit take
\* RUNNING from a process before they leave it.
OnlyCurrentRuns ==
    calls \cap Leaving = {} => \A p \in Slot : state[p] = "RUNNING" => p = current

\* Round robin: a process leaves the queue only after all that were ahead of
\* it, and none is put ahead of it (dequeue_ready takes the head, enqueue_ready
\* links at the tail).
NoOvertaking ==
    [][/\ \A i, j \in 1..Len(ready) :
            i < j /\ In(ready', ready[i]) => In(ready', ready[j])
       /\ \A k, m \in 1..Len(ready') :
            k < m /\ In(ready, ready'[m]) =>
                \E i, j \in 1..Len(ready) : i < j /\ ready[i] = ready'[k] /\ ready[j] = ready'[m]]_vars

\* The calls that switch with interrupts on.
Switching == {"yield", "block", "exit"}

\* Where processes leave the CPU by preemption and SYS_EXIT only, what the
\* scheduler may dispatch next (a queued process, or the idle process) has its
\* last frame on its own stack, also when interrupts hit the end of sched_start
\* or come before it: no dispatch continues through a frame that is gone.
ContextRestorable ==
    calls \cap Switching = {} =>
        /\ \A p \in Proc : Queued(p) \/ (p = IDLE /\ current # IDLE) => resume[p] = "fresh"
        /\ at # "wild"

\* A READY process that is not running is in the queue, so that the scheduler
\* can find it again ("returns, so the interrupted process continues",
\* scheduler.c:134).
NoProcessLost ==
    \A p \in Slot : state[p] = "READY" => Queued(p) \/ p = current

\* Every queued process gets the CPU, where processes leave it by preemption and
\* SYS_EXIT only, however many of them are created (with interrupts off).
QueuedIsDispatched ==
    \A p \in Slot : calls \cap Switching = {} /\ Queued(p) ~> current = p

============================================================================
