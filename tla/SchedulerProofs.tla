-------------------------- MODULE SchedulerProofs --------------------------
(***************************************************************************)
(* Proofs about the scheduler, for every pool size, time slice and set of  *)
(* calls.                                                                  *)
(***************************************************************************)
EXTENDS Scheduler, TLAPS

----------------------------------------------------------------------------
(* What enqueue_ready and dequeue_ready do to a queue without duplicates.   *)

\* enqueue_ready adds exactly the given process, and keeps the queue free of
\* duplicates if the process was not linked before.
LEMMA EnqueueLemma ==
    ASSUME NEW q \in Seq(Slot), NEW e \in Slot
    PROVE  /\ enqueue_ready(q, e) \in Seq(Slot)
           /\ enqueue_ready(q, e) # <<>>
           /\ \A x : In(enqueue_ready(q, e), x) <=> In(q, x) \/ x = e
           /\ IsInjective(q) /\ ~In(q, e) => IsInjective(enqueue_ready(q, e))
<1> DEFINE r == Append(q, e)
<1>1. /\ r \in Seq(Slot) /\ Len(r) = Len(q) + 1 /\ r # <<>>
      /\ \A i \in 1..Len(q) : r[i] = q[i]
      /\ r[Len(q) + 1] = e
      /\ Len(q) \in Nat /\ DOMAIN r = 1..Len(r) /\ DOMAIN q = 1..Len(q)
  OBVIOUS
<1> HIDE DEF r
<1>2. \A x : In(r, x) <=> In(q, x) \/ x = e
  BY <1>1 DEF In
<1>3. IsInjective(q) /\ ~In(q, e) => IsInjective(r)
  BY <1>1 DEF In, IsInjective
<1>4. QED
  BY <1>1, <1>2, <1>3, Zenon DEF enqueue_ready, r

\* dequeue_ready removes the head, and the head is not linked afterwards.
LEMMA DequeueLemma ==
    ASSUME NEW q \in Seq(Slot), IsInjective(q)
    PROVE  /\ Dequeued(q) \in Seq(Slot)
           /\ IsInjective(Dequeued(q))
           /\ NextProc(q) \in Proc
           /\ \A x : In(Dequeued(q), x) => In(q, x)
           /\ ~In(Dequeued(q), NextProc(q))
           /\ NextProc(q) # IDLE => In(q, NextProc(q))
           /\ q # <<>> => NextProc(q) \in Slot
<1>1. CASE q = <<>>
  BY <1>1 DEF Dequeued, NextProc, In, Proc
<1>2. CASE q # <<>>
  <2> DEFINE r == Tail(q)
  <2>1. /\ r \in Seq(Slot) /\ Len(q) \in Nat \ {0} /\ Len(r) = Len(q) - 1
        /\ \A i \in 1..Len(r) : r[i] = q[i + 1]
        /\ Head(q) = q[1] /\ q[1] \in Slot
        /\ DOMAIN r = 1..Len(r) /\ DOMAIN q = 1..Len(q)
    BY <1>2
  <2> HIDE DEF r
  <2>2. IsInjective(r)
    <3> SUFFICES ASSUME NEW a \in 1..Len(r), NEW b \in 1..Len(r), r[a] = r[b]
                 PROVE  a = b
      BY <2>1, Zenon DEF IsInjective
    <3>1. a + 1 \in DOMAIN q /\ b + 1 \in DOMAIN q /\ q[a + 1] = q[b + 1]
      BY <2>1
    <3>2. a + 1 = b + 1
      BY <3>1, Zenon DEF IsInjective
    <3>3. QED
      BY <3>2, <2>1
  <2>3. \A x : In(r, x) => In(q, x)
    BY <2>1 DEF In
  <2>4. ~In(r, q[1])
    BY <2>1 DEF In, IsInjective
  <2>5. In(q, q[1])
    BY <2>1 DEF In
  <2>6. QED
    BY <1>2, <2>1, <2>2, <2>3, <2>4, <2>5, Zenon DEF Dequeued, NextProc, r, Proc
<1>3. QED
  BY <1>1, <1>2, Zenon

----------------------------------------------------------------------------
(* The inductive invariant.  QueueSound alone is not inductive: the process *)
(* a call holds in its window becomes current without passing through the   *)
(* queue again (HeldSound), only a process may be in a window, and what a   *)
(* switch has made current is not BLOCKED or FREE, so that no unblock and   *)
(* no creation links it.                                                    *)

WindowSound ==
    /\ at = "window" => current # IDLE
    /\ at = "run" => resume[current] # "window"
    /\ at \in Interruptible \ {"window"} => state[current] \in {"READY", "RUNNING"}
    /\ resume[IDLE] # "window" /\ state[IDLE] \in {"READY", "RUNNING"}

IInv == TypeOK /\ QueueSound /\ HeldSound /\ WindowSound

\* sched_init establishes the invariant.
LEMMA InitIInv == Init => IInv
<1> SUFFICES ASSUME Init PROVE IInv
  BY Zenon
<1> USE ConstantsAssumption DEF Init, sched_init
<1>1. TypeOK
  BY DEF TypeOK, Proc, Slot, IDLE, Context, Place, Interruptible
<1>2. QueueSound
  BY DEF QueueSound, IsInjective, Queued, In
<1>3. HeldSound /\ WindowSound
  BY Zenon DEF HeldSound, WindowSound, InWindow, Proc, Slot, IDLE
<1>4. QED
  BY <1>1, <1>2, <1>3, Zenon DEF IInv

\* sched_do_switch_asm, from whatever tick fields the handler left.
LEMMA DoSwitchIInv ==
    ASSUME IInv, at \in Interruptible,
           NEW tk \in [Proc -> 0..TIME_SLICE],
           sched_do_switch_asm(tk)
    PROVE  IInv'
<1> DEFINE st == IF Requeued THEN EnqueuedState(current) ELSE state
           q == IF Requeued THEN enqueue_ready(ready, current) ELSE ready
           next == NextProc(q)
<1>1. /\ TypeOK /\ QueueSound /\ HeldSound /\ WindowSound
      /\ current \in Proc /\ (current # IDLE => current \in Slot) /\ IDLE \notin Slot
  BY DEF IInv, TypeOK, Proc, Slot, IDLE
<1>2. /\ q \in Seq(Slot) /\ IsInjective(q)
      /\ \A x : In(q, x) <=> In(ready, x) \/ (Requeued /\ x = current)
  <2>1. CASE Requeued
    <3>1. current \in Slot /\ ~In(ready, current)
      BY <1>1, <2>1, Zenon DEF Requeued, QueueSound, Queued
    <3>2. QED
      BY <1>1, <2>1, <3>1, EnqueueLemma, Zenon DEF QueueSound, TypeOK
  <2>2. CASE ~Requeued
    BY <1>1, <2>2, Zenon DEF QueueSound, TypeOK
  <2>3. QED
    BY <2>1, <2>2, Zenon
<1>3. /\ Dequeued(q) \in Seq(Slot) /\ IsInjective(Dequeued(q)) /\ next \in Proc
      /\ \A x : In(Dequeued(q), x) => In(q, x)
      /\ ~In(Dequeued(q), next)
      /\ next # IDLE => In(q, next)
  BY <1>2, DequeueLemma, Zenon
<1>4. /\ st \in [Proc -> {"FREE", "READY", "RUNNING", "BLOCKED"}]
      /\ st[current] # state[current] => st[current] = "READY"
      /\ \A p \in Slot : In(q, p) => st[p] = "READY"
      /\ \A p \in Proc : p # current => st[p] = state[p]
  BY <1>1, <1>2, Zenon DEF TypeOK, QueueSound, Queued, Requeued, EnqueuedState, Proc
<1>5. \A p \in Slot : InWindow(p) /\ held[p] # IDLE =>
         /\ ~In(q, held[p]) /\ st[held[p]] = "READY" /\ held[p] # current
         /\ held[p] # next /\ held[p] \in Proc
         /\ \A o \in Slot \ {p} : InWindow(o) => held[o] # held[p]
  <2> SUFFICES ASSUME NEW p \in Slot, InWindow(p), held[p] # IDLE
               PROVE  /\ ~In(q, held[p]) /\ st[held[p]] = "READY" /\ held[p] # current
                      /\ held[p] # next /\ held[p] \in Proc
                      /\ \A o \in Slot \ {p} : InWindow(o) => held[o] # held[p]
    BY Zenon
  <2>1. /\ ~In(ready, held[p]) /\ state[held[p]] = "READY" /\ held[p] # current
        /\ held[p] \in Proc
        /\ \A o \in Slot \ {p} : InWindow(o) => held[o] # held[p]
    BY <1>1, Zenon DEF HeldSound, Queued, TypeOK, Proc
  <2>2. QED
    BY <2>1, <1>2, <1>3, <1>4, Zenon
<1>6. /\ ready' = Dequeued(q)
      /\ resume' = [resume EXCEPT ![current] = SavedContext]
      /\ IF next = current
           THEN state' = st /\ ticks' = tk /\ current' = current /\ at' = at
           ELSE sched_switch_to(next, st, tk)
      /\ UNCHANGED <<flags, held, next_pid, boot>>
  BY Zenon DEF sched_do_switch_asm
<1>7. /\ resume' \in [Proc -> Context]
      /\ resume'[current] = SavedContext
      /\ \A p \in Proc : p # current => resume'[p] = resume[p]
      /\ resume'[IDLE] # "window"
  BY <1>1, <1>6, Zenon DEF TypeOK, SavedContext, Context, Proc, WindowSound
<1> HIDE DEF st, q, next
<1>8. CASE next = current
  <2>1. TypeOK'
    BY <1>1, <1>3, <1>4, <1>6, <1>7, <1>8, Zenon DEF TypeOK
  <2>2. QueueSound'
    BY <1>1, <1>2, <1>3, <1>4, <1>6, <1>8, Zenon DEF QueueSound, Queued
  <2>3. \A p \in Slot : InWindow(p)' => InWindow(p)
    BY <1>1, <1>6, <1>7, <1>8 DEF InWindow, Proc, SavedContext
  <2>4. HeldSound'
    BY <2>3, <1>3, <1>5, <1>6, <1>8, Zenon DEF HeldSound, Queued
  <2>5. WindowSound'
    <3>1. IDLE \in Proc /\ st[IDLE] \in {"READY", "RUNNING"}
      BY <1>1, <1>4 DEF Proc, WindowSound
    <3>2. at \in Interruptible \ {"window"} => st[current] \in {"READY", "RUNNING"}
      BY <1>1, <1>4 DEF WindowSound
    <3>3. QED
      BY <1>1, <1>6, <1>7, <1>8, <3>1, <3>2 DEF WindowSound, SavedContext
  <2>6. QED
    BY <2>1, <2>2, <2>4, <2>5, Zenon DEF IInv
<1>9. CASE next # current
  <2>0. /\ current' = next
        /\ state' = [st EXCEPT ![next] = "RUNNING"]
        /\ ticks' = [tk EXCEPT ![next] = time_slice(next)]
        /\ at' = sched_restore_context(resume[next])
        /\ resume'[next] = resume[next]
    BY <1>3, <1>6, <1>7, <1>9, Zenon DEF sched_switch_to
  <2>1. TypeOK'
    <3>1. time_slice(next) \in 0..TIME_SLICE
      BY ConstantsAssumption DEF time_slice
    <3>2. at' \in Place
      BY <2>0, Zenon DEF sched_restore_context, Place, Interruptible
    <3>3. QED
      BY <1>1, <1>3, <1>4, <1>6, <1>7, <2>0, <3>1, <3>2, Zenon DEF TypeOK
  <2>2. QueueSound'
    BY <1>1, <1>2, <1>3, <1>4, <1>6, <2>0, Zenon DEF QueueSound, Queued, Proc
  <2>3. \A p \in Slot : InWindow(p)' => InWindow(p)
    <3> SUFFICES ASSUME NEW p \in Slot, InWindow(p)' PROVE InWindow(p)
      BY Zenon
    <3>1. CASE p = next
      BY <3>1, <1>9, <2>0, Zenon DEF InWindow, sched_restore_context
    <3>2. CASE p = current
      BY <3>2, <1>7, <1>9, <2>0, Zenon DEF InWindow, SavedContext
    <3>3. CASE p # next /\ p # current
      BY <3>3, <1>7, <2>0, Zenon DEF InWindow, Proc
    <3>4. QED
      BY <3>1, <3>2, <3>3, Zenon
  <2>4. HeldSound'
    BY <2>0, <2>3, <1>3, <1>4, <1>5, <1>6, SMTT(30) DEF HeldSound, Queued
  <2>5. WindowSound'
    <3>1. IDLE \in Proc /\ st[IDLE] \in {"READY", "RUNNING"}
      BY <1>1, <1>4 DEF Proc, WindowSound
    <3>2. state'[next] = "RUNNING" /\ state'[IDLE] \in {"READY", "RUNNING"}
      BY <1>3, <1>4, <2>0, <3>1
    <3>3. QED
      BY <1>7, <2>0, <3>2 DEF WindowSound, sched_restore_context
  <2>6. QED
    BY <2>1, <2>2, <2>4, <2>5, Zenon DEF IInv
<1>10. QED
  BY <1>8, <1>9, Zenon

\* Interrupts: the timer counts a slice down and ISR_RETURN may switch.
LEMMA InterruptIInv == IInv /\ (isr_timer \/ isr_other) => IInv'
<1> SUFFICES ASSUME IInv, isr_timer \/ isr_other PROVE IInv'
  BY Zenon
<1>1. sched_tick \in [Proc -> 0..TIME_SLICE] /\ ticks \in [Proc -> 0..TIME_SLICE]
  BY ConstantsAssumption DEF IInv, TypeOK, sched_tick
<1>2. PICK tk \in [Proc -> 0..TIME_SLICE] : at \in Interruptible /\ ISR_RETURN(tk)
  BY <1>1, Zenon DEF isr_timer, isr_other
<1>3. CASE sched_need_resched(tk)
  BY <1>2, <1>3, DoSwitchIInv, Zenon DEF ISR_RETURN
<1>4. CASE ~sched_need_resched(tk)
  BY <1>2, <1>4
  DEF ISR_RETURN, IInv, TypeOK, QueueSound, Queued, HeldSound, InWindow, WindowSound
<1>5. QED
  BY <1>3, <1>4, Zenon

\* SYS_EXIT takes the next process from the queue and frees the current one.
LEMMA ExitAsmIInv == IInv /\ sched_exit_asm => IInv'
<1> SUFFICES ASSUME IInv, sched_exit_asm PROVE IInv'
  BY Zenon
<1> DEFINE next == NextProc(ready)
           st == [state EXCEPT ![current] = "FREE"]
<1>1. /\ TypeOK /\ QueueSound /\ HeldSound /\ WindowSound
      /\ current \in Slot /\ IDLE \notin Slot /\ at = "run"
      /\ ~In(ready, current)
  BY DEF IInv, TypeOK, Proc, Slot, IDLE, sched_exit_asm, QueueSound, Queued
<1>2. /\ Dequeued(ready) \in Seq(Slot) /\ IsInjective(Dequeued(ready)) /\ next \in Proc
      /\ \A x : In(Dequeued(ready), x) => In(ready, x)
      /\ ~In(Dequeued(ready), next)
      /\ next # IDLE => In(ready, next)
      /\ next # current
  BY <1>1, DequeueLemma, Zenon DEF TypeOK, QueueSound
<1>3. /\ ready' = Dequeued(ready) /\ current' = next
      /\ state' = [st EXCEPT ![next] = "RUNNING"]
      /\ ticks' = [ticks EXCEPT ![next] = time_slice(next)]
      /\ at' = sched_restore_context(resume[next])
      /\ UNCHANGED <<flags, resume, held, next_pid, boot>>
  BY Zenon DEF sched_exit_asm, sched_switch_to
<1>4. \A p \in Slot : In(ready, p) => st[p] = "READY"
  BY <1>1, Zenon DEF QueueSound, Queued, TypeOK, Proc
<1>5. st \in [Proc -> {"FREE", "READY", "RUNNING", "BLOCKED"}]
  BY <1>1, Zenon DEF TypeOK
<1>6. TypeOK'
  <2>1. time_slice(next) \in 0..TIME_SLICE /\ at' \in Place
    BY <1>3, ConstantsAssumption DEF time_slice, sched_restore_context, Place, Interruptible
  <2>2. QED
    BY <1>1, <1>2, <1>3, <1>5, <2>1, Zenon DEF TypeOK
<1>7. QueueSound'
  BY <1>1, <1>2, <1>3, <1>4, <1>5, Zenon DEF QueueSound, Queued, Proc
<1>8. \A p \in Slot : InWindow(p)' => InWindow(p)
  BY <1>1, <1>2, <1>3, Zenon DEF InWindow, WindowSound, sched_restore_context
<1>9. HeldSound'
  BY <1>1, <1>2, <1>3, <1>5, <1>8 DEF HeldSound, Queued, TypeOK, Proc
<1>10. WindowSound'
  <2>1. IDLE \in Proc /\ st[IDLE] = state[IDLE]
    BY <1>1 DEF Proc, TypeOK
  <2>2. state'[next] = "RUNNING" /\ state'[IDLE] \in {"READY", "RUNNING"}
    BY <1>1, <1>2, <1>3, <1>5, <2>1 DEF WindowSound
  <2>3. QED
    BY <1>1, <1>3, <2>2 DEF WindowSound, sched_restore_context
<1>11. QED
  BY <1>6, <1>7, <1>9, <1>10, Zenon DEF IInv

\* sched_create_process links a PCB that was FREE, hence in no window's hands.
LEMMA CreateIInv ==
    ASSUME IInv, at = "run", NEW flag \in {"USER", "KERNEL"},
           sched_create_process(flag), boot' \in {"create", "start", "done", "returned"}
    PROVE  IInv'
<1> PICK p \in Slot :
      /\ state[p] = "FREE"
      /\ next_pid <= MaxPid
      /\ next_pid' = next_pid + 1
      /\ state' = EnqueuedState(p)
      /\ flags' = [flags EXCEPT ![p] = flag]
      /\ ticks' = [ticks EXCEPT ![p] = TIME_SLICE]
      /\ resume' = [resume EXCEPT ![p] = "fresh"]
      /\ held' = [held EXCEPT ![p] = IDLE]
      /\ ready' = enqueue_ready(ready, p)
      /\ UNCHANGED <<current, at>>
  BY Zenon DEF sched_create_process, alloc_pcb
<1>1. /\ TypeOK /\ QueueSound /\ HeldSound /\ WindowSound
      /\ p \in Proc /\ IDLE \in Proc /\ IDLE \notin Slot /\ ~In(ready, p)
  BY DEF IInv, TypeOK, Proc, Slot, IDLE, QueueSound, Queued
<1>2. /\ ready' \in Seq(Slot) /\ IsInjective(ready')
      /\ \A x : In(ready', x) <=> In(ready, x) \/ x = p
  BY <1>1, EnqueueLemma, Zenon DEF TypeOK, QueueSound
<1>3. state' = [state EXCEPT ![p] = "READY"]
  BY Zenon DEF EnqueuedState
<1>4. TypeOK'
  BY <1>1, <1>2, <1>3, ConstantsAssumption DEF TypeOK, Context
<1>5. QueueSound'
  <2>1. p # current
    BY <1>1, Zenon DEF WindowSound, Interruptible
  <2>2. QED
    BY <1>1, <1>2, <1>3, <2>1, Zenon DEF QueueSound, Queued, TypeOK, Proc
<1>6. \A o \in Slot : InWindow(o)' => InWindow(o) /\ o # p
  BY <1>1, Zenon DEF InWindow, TypeOK, Proc
<1>7. HeldSound'
  BY <1>1, <1>2, <1>3, <1>6, Zenon DEF HeldSound, Queued, TypeOK, Proc
<1>8. WindowSound'
  BY <1>1, <1>3, Zenon DEF WindowSound, TypeOK, Proc
<1>9. QED
  BY <1>4, <1>5, <1>7, <1>8, Zenon DEF IInv

\* The first half of sched_yield, sched_block and sched_exit: q is the queue
\* the call dequeues from and st the states it leaves.
LEMMA EnterWindowIInv ==
    ASSUME IInv, KernelThread,
           NEW q \in Seq(Slot), IsInjective(q),
           \A x : In(q, x) => In(ready, x) \/ x = current,
           NEW st \in [Proc -> {"FREE", "READY", "RUNNING", "BLOCKED"}],
           \A p \in Proc : p # current => st[p] = state[p],
           In(q, current) => st[current] = "READY" /\ NextProc(q) # current,
           EnterWindow(st, q)
    PROVE  IInv'
<1> DEFINE next == NextProc(q)
<1>1. /\ TypeOK /\ QueueSound /\ HeldSound /\ WindowSound
      /\ current \in Slot /\ IDLE \notin Slot /\ at = "run" /\ current # IDLE
      /\ ~In(ready, current)
  BY DEF IInv, TypeOK, Proc, Slot, IDLE, KernelThread, QueueSound, Queued
<1>2. /\ Dequeued(q) \in Seq(Slot) /\ IsInjective(Dequeued(q)) /\ next \in Proc
      /\ \A x : In(Dequeued(q), x) => In(q, x)
      /\ ~In(Dequeued(q), next)
      /\ next # IDLE => In(q, next)
  BY DequeueLemma, Zenon
<1>3. next # current
  BY <1>1, <1>2, Zenon
<1>4. /\ state' = st /\ ready' = Dequeued(q) /\ at' = "window"
      /\ held' = [held EXCEPT ![current] = next]
      /\ UNCHANGED <<flags, ticks, resume, current, next_pid, boot>>
  BY Zenon DEF EnterWindow
<1> HIDE DEF next
<1>5. TypeOK'
  BY <1>1, <1>2, <1>4 DEF TypeOK, Place, Interruptible
<1>6. \A p \in Slot : In(q, p) => st[p] = "READY"
  BY <1>1, Zenon DEF QueueSound, Queued, Proc
<1>7. QueueSound'
  BY <1>1, <1>2, <1>4, <1>6, Zenon DEF QueueSound, Queued
<1>8. \A p \in Slot : InWindow(p)' => p = current \/ InWindow(p)
  BY <1>4, Zenon DEF InWindow
<1>9. /\ held'[current] = next
      /\ \A p \in Slot : p # current => held'[p] = held[p] /\ held[p] \in Proc
  BY <1>1, <1>4, Zenon DEF TypeOK, Proc
<1>10. \A p \in Slot : p # current /\ InWindow(p) /\ held[p] # IDLE => ~In(q, held[p])
  BY <1>1, Zenon DEF HeldSound, Queued
<1>11. HeldSound'
  <2> SUFFICES ASSUME NEW p \in Slot, InWindow(p)', held'[p] # IDLE
               PROVE  /\ ~In(ready', held'[p])
                      /\ state'[held'[p]] = "READY"
                      /\ held'[p] # current'
                      /\ \A o \in Slot \ {p} : InWindow(o)' => held'[o] # held'[p]
    BY Zenon DEF HeldSound, Queued
  <2>1. CASE p = current
    <3>1. held'[p] = next /\ next # IDLE /\ next \in Slot
      BY <2>1, <1>2, <1>9, Zenon DEF Proc
    <3>2. \A o \in Slot \ {p} : InWindow(o)' => held'[o] # next
      BY <2>1, <3>1, <1>2, <1>8, <1>9, <1>10, SMTT(30)
    <3>3. QED
      BY <3>1, <3>2, <1>2, <1>3, <1>4, <1>6, SMTT(30)
  <2>2. CASE p # current
    <3>1. held'[p] = held[p] /\ InWindow(p) /\ held[p] # IDLE /\ held[p] \in Proc
      BY <2>2, <1>8, <1>9, Zenon
    <3>2. /\ ~In(ready, held[p]) /\ state[held[p]] = "READY" /\ held[p] # current
          /\ \A o \in Slot \ {p} : InWindow(o) => held[o] # held[p]
      BY <3>1, <1>1, Zenon DEF HeldSound, Queued
    <3>3. next # held[p]
      BY <3>1, <2>2, <1>2, <1>10, SMTT(30)
    <3>4. QED
      BY <3>1, <3>2, <3>3, <2>2, <1>2, <1>4, <1>8, <1>9, <1>10, SMTT(30)
  <2>3. QED
    BY <2>1, <2>2, Zenon
<1>12. WindowSound'
  <2>1. IDLE \in Proc /\ IDLE # current /\ st[IDLE] = state[IDLE]
    BY <1>1, Zenon DEF Proc
  <2>2. QED
    BY <1>1, <1>4, <2>1, Zenon DEF WindowSound
<1>13. QED
  BY <1>5, <1>7, <1>11, <1>12, Zenon DEF IInv

\* sched_yield, sched_block and sched_exit up to hal_irq_restore.
LEMMA CallIInv == IInv /\ (sched_yield \/ sched_block \/ sched_exit) => IInv'
<1> SUFFICES ASSUME IInv, sched_yield \/ sched_block \/ sched_exit PROVE IInv'
  BY Zenon
<1>1. /\ KernelThread /\ TypeOK /\ QueueSound
      /\ current \in Slot /\ current \in Proc /\ ~In(ready, current)
      /\ ready \in Seq(Slot) /\ IsInjective(ready)
      /\ state \in [Proc -> {"FREE", "READY", "RUNNING", "BLOCKED"}]
  BY Zenon DEF IInv, TypeOK, QueueSound, Queued, Proc, KernelThread, sched_yield, sched_block, sched_exit
<1>2. ASSUME sched_yield, Requeued PROVE IInv'
  <2> DEFINE q == enqueue_ready(ready, current)
             st == EnqueuedState(current)
  <2>1. /\ q \in Seq(Slot) /\ IsInjective(q)
        /\ \A x : In(q, x) <=> In(ready, x) \/ x = current
    BY <1>1, EnqueueLemma, Zenon
  <2>2. NextProc(q) # current
    <3>1. ready # <<>>
      BY <1>2, Zenon DEF sched_yield
    <3>2. q # <<>> /\ Head(q) = ready[1] /\ Len(ready) \in Nat \ {0}
      BY <1>1, <3>1 DEF enqueue_ready
    <3>3. In(ready, ready[1])
      BY <3>2 DEF In
    <3>4. QED
      BY <1>1, <3>2, <3>3, Zenon DEF NextProc
  <2>3. /\ st \in [Proc -> {"FREE", "READY", "RUNNING", "BLOCKED"}]
        /\ \A p \in Proc : p # current => st[p] = state[p]
        /\ st[current] = "READY"
    BY <1>1, Zenon DEF EnqueuedState
  <2>4. EnterWindow(st, q)
    BY <1>2, Zenon DEF sched_yield
  <2> HIDE DEF q, st
  <2>5. QED
    BY <1>1, <2>1, <2>2, <2>3, <2>4, EnterWindowIInv, SMTT(30)
<1>3. ASSUME NEW st \in [Proc -> {"FREE", "READY", "RUNNING", "BLOCKED"}],
             \A p \in Proc : p # current => st[p] = state[p],
             EnterWindow(st, ready)
      PROVE  IInv'
  BY <1>1, <1>3, EnterWindowIInv, Zenon
<1>4. ASSUME sched_yield, ~Requeued PROVE IInv'
  BY <1>1, <1>3, <1>4, Zenon DEF sched_yield
<1>5. ASSUME sched_block PROVE IInv'
  <2> DEFINE st == [state EXCEPT ![current] = IF @ = "RUNNING" THEN "BLOCKED" ELSE @]
  <2>1. /\ st \in [Proc -> {"FREE", "READY", "RUNNING", "BLOCKED"}]
        /\ \A p \in Proc : p # current => st[p] = state[p]
        /\ EnterWindow(st, ready)
    BY <1>1, <1>5, Zenon DEF sched_block
  <2> HIDE DEF st
  <2>2. QED
    BY <2>1, <1>3, Zenon
<1>6. ASSUME sched_exit PROVE IInv'
  <2> DEFINE st == [state EXCEPT ![current] = "FREE"]
  <2>1. /\ st \in [Proc -> {"FREE", "READY", "RUNNING", "BLOCKED"}]
        /\ \A p \in Proc : p # current => st[p] = state[p]
        /\ EnterWindow(st, ready)
    BY <1>1, <1>6, Zenon DEF sched_exit
  <2> HIDE DEF st
  <2>2. QED
    BY <2>1, <1>3, Zenon
<1>7. QED
  BY <1>2, <1>4, <1>5, <1>6, Zenon

\* The second half begins: the held process becomes current.
LEMMA SwitchCurrentIInv == IInv /\ switch_current => IInv'
<1> SUFFICES ASSUME IInv, switch_current PROVE IInv'
  BY Zenon
<1> DEFINE next == held[current]
<1>1. /\ TypeOK /\ QueueSound /\ HeldSound /\ WindowSound /\ at = "window"
      /\ current \in Slot /\ IDLE \notin Slot /\ IDLE \in Proc /\ next \in Proc
  BY SMTT(30) DEF IInv, TypeOK, Proc, Slot, IDLE, WindowSound, switch_current
<1>2. InWindow(current)
  BY <1>1, Zenon DEF InWindow
<1>3. /\ ~In(ready, next) /\ next # current
      /\ next # IDLE => \A o \in Slot \ {current} : InWindow(o) => held[o] # next
      /\ state[next] \in {"READY", "RUNNING"}
  <2>1. CASE next = IDLE
    BY <2>1, <1>1 DEF In, TypeOK, WindowSound
  <2>2. CASE next # IDLE
    BY <2>2, <1>1, <1>2, Zenon DEF HeldSound, Queued
  <2>3. QED
    BY <2>1, <2>2, Zenon
<1>4. /\ current' = next /\ at' = "picked"
      /\ resume' = [resume EXCEPT ![current] = "stale"]
      /\ held' = [held EXCEPT ![current] = IDLE]
      /\ UNCHANGED <<state, flags, ticks, ready, next_pid, boot>>
  BY Zenon DEF switch_current
<1> HIDE DEF next
<1>5. TypeOK'
  BY <1>1, <1>4, Zenon DEF TypeOK, Context, Place, Interruptible
<1>6. QueueSound'
  BY <1>1, <1>3, <1>4, Zenon DEF QueueSound, Queued
<1>7. /\ resume'[current] = "stale"
      /\ \A p \in Proc : p # current => resume'[p] = resume[p] /\ held'[p] = held[p]
  BY <1>1, <1>4, Zenon DEF TypeOK, Proc
<1>8. \A p \in Slot : InWindow(p)' => InWindow(p) /\ p # current
  BY <1>1, <1>4, <1>7, Zenon DEF InWindow, Proc
<1>9. HeldSound'
  <2> SUFFICES ASSUME NEW p \in Slot, InWindow(p)', held'[p] # IDLE
               PROVE  /\ ~In(ready', held'[p])
                      /\ state'[held'[p]] = "READY"
                      /\ held'[p] # current'
                      /\ \A o \in Slot \ {p} : InWindow(o)' => held'[o] # held'[p]
    BY Zenon DEF HeldSound, Queued
  <2>1. InWindow(p) /\ p # current /\ held'[p] = held[p]
    BY <1>1, <1>7, <1>8, Zenon DEF Proc
  <2>2. /\ ~In(ready, held[p]) /\ state[held[p]] = "READY"
        /\ \A o \in Slot \ {p} : InWindow(o) => held[o] # held[p]
    BY <1>1, <2>1, Zenon DEF HeldSound, Queued
  <2>3. held[p] # next
    BY <1>3, <2>1, IDLE # held[p], Zenon
  <2>4. \A o \in Slot \ {p} : InWindow(o)' => held'[o] # held'[p]
    BY <2>1, <2>2, <1>7, <1>8, Zenon DEF Proc
  <2>5. QED
    BY <2>1, <2>2, <2>3, <2>4, <1>4, Zenon
<1>10. WindowSound'
  BY <1>1, <1>3, <1>4, <1>7, Zenon DEF WindowSound, Proc
<1>11. QED
  BY <1>5, <1>6, <1>9, <1>10, Zenon DEF IInv

\* It is marked RUNNING, its slice renewed, and its context restored.
LEMMA SwitchRestIInv == IInv /\ (switch_state \/ switch_ticks \/ switch_restore) => IInv'
<1> SUFFICES ASSUME IInv, switch_state \/ switch_ticks \/ switch_restore PROVE IInv'
  BY Zenon
<1>1. /\ TypeOK /\ QueueSound /\ HeldSound /\ WindowSound
      /\ current \in Proc /\ ~In(ready, current) /\ at \in {"picked", "marked", "switch"}
      /\ UNCHANGED <<flags, resume, held, ready, current, next_pid, boot>>
  BY Zenon DEF IInv, TypeOK, QueueSound, Queued, switch_state, switch_ticks, switch_restore
<1>2. \/ state' = state
      \/ state' = [state EXCEPT ![current] = "RUNNING"]
  BY Zenon DEF switch_state, switch_ticks, switch_restore
<1>3. /\ state' \in [Proc -> {"FREE", "READY", "RUNNING", "BLOCKED"}]
      /\ \A p \in Proc : p # current => state'[p] = state[p]
      /\ state'[current] \in {"READY", "RUNNING"}
      /\ state'[IDLE] \in {"READY", "RUNNING"}
  BY <1>1, <1>2, Zenon DEF TypeOK, WindowSound, Proc, Interruptible
<1>4. /\ at' \in {"run", "window", "marked", "switch", "wild"}
      /\ at' = "window" => resume[current] = "window"
      /\ at' = "run" => resume[current] = "fresh"
  BY Zenon DEF switch_state, switch_ticks, switch_restore, sched_restore_context
<1>5. ticks' \in [Proc -> 0..TIME_SLICE]
  <2>1. time_slice(current) \in 0..TIME_SLICE
    BY ConstantsAssumption DEF time_slice
  <2>2. ticks' \in {ticks, [ticks EXCEPT ![current] = time_slice(current)]}
    BY Zenon DEF switch_state, switch_ticks, switch_restore
  <2>3. QED
    BY <1>1, <2>1, <2>2, Zenon DEF TypeOK
<1>6. TypeOK'
  BY <1>1, <1>3, <1>4, <1>5, Zenon DEF TypeOK, Place, Interruptible
<1>7. QueueSound'
  BY <1>1, <1>3, Zenon DEF QueueSound, Queued, Proc
<1>8. \A p \in Slot : InWindow(p)' => InWindow(p)
  BY <1>1, <1>4, Zenon DEF InWindow
<1>9. HeldSound'
  BY <1>1, <1>3, <1>8, Zenon DEF HeldSound, Queued, TypeOK, Proc
<1>10. WindowSound'
  BY <1>1, <1>3, <1>4, Zenon DEF WindowSound
<1>11. QED
  BY <1>6, <1>7, <1>9, <1>10, Zenon DEF IInv

\* sched_unblock links a BLOCKED process, which no call holds.
LEMMA UnblockIInv == IInv /\ sched_unblock => IInv'
<1> SUFFICES ASSUME IInv, sched_unblock PROVE IInv'
  BY Zenon
<1> PICK p \in Slot : /\ state[p] = "BLOCKED"
                      /\ state' = EnqueuedState(p)
                      /\ ready' = enqueue_ready(ready, p)
  BY Zenon DEF sched_unblock
<1>1. /\ TypeOK /\ QueueSound /\ HeldSound /\ WindowSound /\ ~In(ready, p) /\ p \in Proc
      /\ at \in Interruptible
      /\ UNCHANGED <<flags, ticks, resume, held, current, next_pid, at, boot>>
  BY Zenon DEF IInv, QueueSound, Queued, Proc, sched_unblock
<1>2. /\ ready' \in Seq(Slot) /\ IsInjective(ready')
      /\ \A x : In(ready', x) <=> In(ready, x) \/ x = p
  BY <1>1, EnqueueLemma, Zenon DEF TypeOK, QueueSound
<1>3. state' = [state EXCEPT ![p] = "READY"]
  BY Zenon DEF EnqueuedState
<1>4. TypeOK'
  BY <1>1, <1>2, <1>3, SMTT(30) DEF TypeOK
<1>5. at # "window" => p # current
  BY <1>1, Zenon DEF WindowSound
<1>6. QueueSound'
  BY <1>1, <1>2, <1>3, <1>5, SMTT(30) DEF QueueSound, Queued, TypeOK, Proc
<1>7. HeldSound'
  BY <1>1, <1>2, <1>3 DEF HeldSound, InWindow, Queued, TypeOK, Proc
<1>8. WindowSound'
  BY <1>1, <1>3, Zenon DEF WindowSound, TypeOK, Proc
<1>9. QED
  BY <1>4, <1>6, <1>7, <1>8, Zenon DEF IInv

\* sched_start hands the CPU to the head of the queue.
LEMMA StartIInv == IInv /\ sched_start => IInv'
<1> SUFFICES ASSUME IInv, sched_start PROVE IInv'
  BY Zenon
<1>1. /\ TypeOK /\ QueueSound /\ HeldSound /\ WindowSound
      /\ current = IDLE /\ IDLE \notin Slot /\ IDLE \in Proc /\ at = "run"
  BY SMTT(30) DEF IInv, Proc, Slot, IDLE, sched_start, BootThread
<1>2. CASE ready = <<>>
  BY <1>1, <1>2 DEF sched_start, IInv, TypeOK, Place, QueueSound, Queued, In, HeldSound, InWindow, WindowSound
<1>3. CASE ready # <<>>
  <2> DEFINE next == NextProc(ready)
  <2>1. /\ Dequeued(ready) \in Seq(Slot) /\ IsInjective(Dequeued(ready)) /\ next \in Slot
        /\ \A x : In(Dequeued(ready), x) => In(ready, x)
        /\ ~In(Dequeued(ready), next)
        /\ In(ready, next) /\ next \in Proc
    BY <1>1, <1>3, DequeueLemma, Zenon DEF TypeOK, QueueSound, Proc
  <2>2. /\ boot' = "done" /\ ready' = Dequeued(ready)
        /\ resume' = [resume EXCEPT ![IDLE] = "fresh"]
        /\ current' = next
        /\ state' = [state EXCEPT ![next] = "RUNNING"]
        /\ ticks' = [ticks EXCEPT ![next] = TIME_SLICE]
        /\ at' = "switch"
        /\ UNCHANGED <<flags, held, next_pid>>
    BY <1>3, Zenon DEF sched_start, Dequeued, NextProc
  <2> HIDE DEF next
  <2>3. TypeOK'
    <3>1. TIME_SLICE \in 0..TIME_SLICE
      BY ConstantsAssumption
    <3>2. QED
      BY <1>1, <2>1, <2>2, <3>1, Zenon DEF TypeOK, Context, Place, Interruptible
  <2>4. QueueSound'
    BY <1>1, <2>1, <2>2, Zenon DEF QueueSound, Queued, TypeOK, Proc
  <2>5. \A p \in Slot : InWindow(p)' => InWindow(p)
    BY <1>1, <2>1, <2>2, SMTT(30) DEF InWindow, TypeOK, Proc
  <2>6. HeldSound'
    BY <1>1, <2>1, <2>2, <2>5, Zenon DEF HeldSound, Queued, TypeOK, Proc
  <2>7. WindowSound'
    BY <1>1, <2>1, <2>2, Zenon DEF WindowSound, TypeOK, Proc
  <2>8. QED
    BY <2>3, <2>4, <2>6, <2>7, Zenon DEF IInv
<1>4. QED
  BY <1>2, <1>3, Zenon

\* Every step of the scheduler, of its callers and of the interrupts keeps
\* the invariant.
LEMMA NextIInv == IInv /\ [Next]_vars => IInv'
<1> SUFFICES ASSUME IInv, [Next]_vars PROVE IInv'
  BY Zenon
<1>1. CASE boot_create
  BY <1>1, CreateIInv, ConstantsAssumption, Zenon DEF boot_create, BootThread
<1>2. ASSUME NEW flag \in {"USER", "KERNEL"}, thread_create(flag) PROVE IInv'
  <2>1. boot' \in {"create", "start", "done", "returned"}
    BY <1>2, Zenon DEF thread_create, IInv, TypeOK
  <2>2. QED
    BY <1>2, <2>1, CreateIInv, Zenon DEF thread_create, KernelThread
<1>3. CASE UNCHANGED vars
  BY <1>3 DEF vars, IInv, TypeOK, QueueSound, Queued, HeldSound, InWindow, WindowSound
<1>4. QED
  BY Zenon, <1>1, <1>2, <1>3, InterruptIInv, ExitAsmIInv, StartIInv, CallIInv, SwitchCurrentIInv,
     SwitchRestIInv, UnblockIInv
  DEF Next, Step

\* The scheduler's fields keep their types.
THEOREM TypeCorrect == Spec => []TypeOK
<1>1. IInv => TypeOK
  BY Zenon DEF IInv
<1>2. QED
  BY <1>1, InitIInv, NextIInv, PTL DEF Spec

\* Whatever calls kernel threads make, and wherever interrupts hit the switches
\* these make with interrupts on, the ready queue links only READY processes and
\* each of them once, so enqueue_ready never cuts the list, provided processes
\* call sched_create_process and sched_unblock with interrupts off.
THEOREM QueueIsSound == Spec => []QueueSound
<1>1. IInv => QueueSound
  BY Zenon DEF IInv
<1>2. QED
  BY <1>1, InitIInv, NextIInv, PTL DEF Spec

\* The process taken by a call whose window is interrupted stays that call's.
THEOREM HeldIsSound == Spec => []HeldSound
<1>1. IInv => HeldSound
  BY Zenon DEF IInv
<1>2. QED
  BY <1>1, InitIInv, NextIInv, PTL DEF Spec

============================================================================
