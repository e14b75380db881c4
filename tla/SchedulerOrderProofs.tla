----------------------- MODULE SchedulerOrderProofs -----------------------
(***************************************************************************)
(* Proofs about the order in which the scheduler runs processes and about  *)
(* the contexts it resumes, from the invariant of SchedulerProofs.         *)
(***************************************************************************)
EXTENDS SchedulerProofs

----------------------------------------------------------------------------
(* Round robin.                                                             *)

\* b keeps the order of a: what stays of a stays behind what left it, and what
\* is new in b is behind all of a that stays.
InOrder(a, b) ==
    /\ \A i, j \in 1..Len(a) : i < j /\ In(b, a[i]) => In(b, a[j])
    /\ \A k, m \in 1..Len(b) :
         k < m /\ In(a, b[m]) => \E i, j \in 1..Len(a) : i < j /\ a[i] = b[k] /\ a[j] = b[m]

\* Linking a process that is not in the queue, taking the head, or one after
\* the other, keeps the order of a queue without duplicates.
LEMMA OrderLemma ==
    ASSUME NEW a \in Seq(Slot), IsInjective(a), NEW q \in Seq(Slot),
           \/ q = a
           \/ \E e \in Slot : ~In(a, e) /\ q = enqueue_ready(a, e),
           NEW b, b \in {q, Dequeued(q)}
    PROVE  InOrder(a, b)
<1>1. /\ Len(a) \in Nat /\ Len(q) \in Nat /\ Len(a) <= Len(q)
      /\ \A i \in 1..Len(a) : q[i] = a[i]
      /\ \A i \in 1..Len(q) : In(a, q[i]) => i <= Len(a)
  <2>1. CASE q = a
    BY <2>1
  <2>2. ASSUME NEW e \in Slot, ~In(a, e), q = enqueue_ready(a, e)
        PROVE  /\ Len(a) \in Nat /\ Len(q) = Len(a) + 1
               /\ \A i \in 1..Len(a) : q[i] = a[i]
               /\ q[Len(a) + 1] = e
    BY <2>2 DEF enqueue_ready
  <2>3. QED
    BY <2>1, <2>2
<1>2. \E d \in {0, 1} :
         /\ Len(b) \in Nat /\ Len(b) = Len(q) - d
         /\ \A k \in 1..Len(b) : b[k] = q[k + d]
  <2>1. CASE b = q
    BY <2>1, <1>1
  <2>2. CASE b # q
    BY <2>2, <1>1 DEF Dequeued
  <2>3. QED
    BY <2>1, <2>2
<1>3. PICK d \in {0, 1} :
         /\ Len(b) \in Nat /\ Len(b) = Len(q) - d
         /\ \A k \in 1..Len(b) : b[k] = q[k + d]
  BY <1>2
<1>4. ASSUME NEW k \in 1..Len(b), In(a, b[k])
      PROVE  k + d \in 1..Len(a) /\ b[k] = a[k + d]
  BY <1>1, <1>3, <1>4
<1>5. ASSUME NEW i \in 1..Len(a), NEW j \in 1..Len(a), i < j, In(b, a[i])
      PROVE  In(b, a[j])
  <2>1. PICK k \in 1..Len(b) : b[k] = a[i]
    BY <1>5 DEF In
  <2>2. k + d \in 1..Len(a) /\ a[k + d] = a[i]
    BY <1>4, <2>1 DEF In
  <2>3. k + d = i
    BY <2>2 DEF IsInjective
  <2>4. j - d \in 1..Len(b) /\ b[j - d] = a[j]
    BY <1>1, <1>3, <1>5, <2>3
  <2>5. QED
    BY <2>4 DEF In
<1>6. ASSUME NEW k \in 1..Len(b), NEW m \in 1..Len(b), k < m, In(a, b[m])
      PROVE  \E i, j \in 1..Len(a) : i < j /\ a[i] = b[k] /\ a[j] = b[m]
  <2>1. m + d \in 1..Len(a) /\ b[m] = a[m + d]
    BY <1>4, <1>6
  <2>2. k + d \in 1..Len(a) /\ k + d < m + d /\ b[k] = a[k + d]
    BY <1>1, <1>3, <1>6, <2>1
  <2>3. QED
    BY <2>1, <2>2
<1>7. QED
  BY <1>5, <1>6 DEF InOrder

\* A step leaves the queue alone, links one process that was not linked, takes
\* the head, or links the current process and then takes the head.
LEMMA StepInOrder == IInv /\ [Next]_vars => InOrder(ready, ready')
<1> SUFFICES ASSUME IInv, [Next]_vars PROVE InOrder(ready, ready')
  OBVIOUS
<1>1. /\ ready \in Seq(Slot) /\ IsInjective(ready)
      /\ \A p \in Slot : In(ready, p) => state[p] = "READY"
      /\ current \in Proc /\ IDLE \notin Slot
  BY DEF IInv, TypeOK, QueueSound, Queued, Slot, IDLE
<1>2. CASE ready' \in {ready, Dequeued(ready)}
  BY <1>1, <1>2, OrderLemma
<1>3. ASSUME NEW p \in Slot, state[p] # "READY",
             ready' \in {enqueue_ready(ready, p), Dequeued(enqueue_ready(ready, p))}
      PROVE  InOrder(ready, ready')
  <2>1. ~In(ready, p) /\ enqueue_ready(ready, p) \in Seq(Slot)
    BY <1>1, <1>3, EnqueueLemma, Zenon
  <2>2. QED
    BY <1>1, <1>3, <2>1, OrderLemma
<1>4. Requeued => current \in Slot /\ state[current] # "READY"
  BY <1>1 DEF Requeued, Proc
<1>5. ASSUME NEW flag, sched_create_process(flag) PROVE InOrder(ready, ready')
  BY <1>3, <1>5 DEF sched_create_process, alloc_pcb
<1>6. ASSUME NEW tk, ISR_RETURN(tk) PROVE InOrder(ready, ready')
  BY <1>2, <1>3, <1>4, <1>6 DEF ISR_RETURN, sched_do_switch_asm
<1>7. CASE isr_timer \/ isr_other
  BY <1>6, <1>7 DEF isr_timer, isr_other
<1>8. CASE sched_exit_asm \/ sched_block \/ sched_exit
  BY <1>2, <1>8 DEF sched_exit_asm, sched_block, sched_exit, EnterWindow
<1>14. CASE switch_current \/ switch_state \/ switch_ticks \/ switch_restore
  BY <1>2, <1>14 DEF switch_current, switch_state, switch_ticks, switch_restore
<1>9. CASE sched_start
  BY <1>2, <1>9 DEF sched_start, Dequeued
<1>10. CASE sched_yield
  BY <1>2, <1>3, <1>4, <1>10 DEF sched_yield, EnterWindow
<1>11. CASE sched_unblock
  BY <1>3, <1>11 DEF sched_unblock
<1>12. CASE UNCHANGED vars
  BY <1>2, <1>12 DEF vars
<1>13. QED
  BY <1>5, <1>7, <1>8, <1>9, <1>10, <1>11, <1>12, <1>14 DEF Next, Step, boot_create, thread_create

\* Round robin, for every number of processes and every mix of calls and
\* interrupts: no process leaves the ready queue before one that was ahead of
\* it, and none is linked ahead of one that waits.
THEOREM RoundRobin == Spec => NoOvertaking
<1>1. InOrder(ready, ready') =>
        /\ \A i, j \in 1..Len(ready) :
             i < j /\ In(ready', ready[i]) => In(ready', ready[j])
        /\ \A k, m \in 1..Len(ready') :
             k < m /\ In(ready, ready'[m]) =>
                 \E i, j \in 1..Len(ready) : i < j /\ ready[i] = ready'[k] /\ ready[j] = ready'[m]
  BY DEF InOrder
<1>2. QED
  BY <1>1, StepInOrder, InitIInv, NextIInv, PTL DEF Spec, NoOvertaking

----------------------------------------------------------------------------
(* One RUNNING process, under the workloads without sched_yield and         *)
(* sched_block.  A thread is then in a window only inside sched_exit, which *)
(* has freed its PCB; so nothing the scheduler dispatches is in a window.   *)

ExitSound ==
    calls \cap Leaving = {} =>
        /\ \A p \in Slot : state[p] = "RUNNING" => p = current
        /\ \A p \in Slot : state[p] \in {"READY", "RUNNING"} => resume[p] # "window"
        /\ at = "window" => state[current] = "FREE"

\* No step, and no interrupt inside a switch, leaves a second process RUNNING.
LEMMA NextExitSound == IInv /\ ExitSound /\ [Next]_vars => ExitSound'
<1> DEFINE Goal == /\ \A p \in Slot : state'[p] = "RUNNING" => p = current'
                   /\ \A p \in Slot : state'[p] \in {"READY", "RUNNING"} => resume'[p] # "window"
                   /\ at' = "window" => state'[current'] = "FREE"
<1> SUFFICES ASSUME IInv, ExitSound, [Next]_vars, calls' \cap Leaving = {} PROVE Goal
  BY DEF ExitSound
<1>1. /\ calls \cap Leaving = {}
      /\ "yield" \notin calls /\ "block" \notin calls
  BY DEF Next, vars, Leaving
<1>2. /\ \A p \in Slot : state[p] = "RUNNING" => p = current
      /\ \A p \in Slot : state[p] \in {"READY", "RUNNING"} => resume[p] # "window"
      /\ at = "window" => state[current] = "FREE"
  BY <1>1 DEF ExitSound
<1>3. /\ state \in [Proc -> {"FREE", "READY", "RUNNING", "BLOCKED"}]
      /\ resume \in [Proc -> Context]
      /\ current \in Proc /\ IDLE \in Proc /\ IDLE \notin Slot
      /\ \A p \in Proc : p \in Slot \/ p = IDLE
      /\ \A p \in Slot : p \in Proc
      /\ resume[IDLE] # "window"
      /\ at = "window" => current # IDLE
      /\ at \in {"picked", "marked", "switch"} => state[current] \in {"READY", "RUNNING"}
      /\ ready \in Seq(Slot) /\ IsInjective(ready)
      /\ \A p \in Slot : In(ready, p) => state[p] = "READY"
  BY DEF IInv, TypeOK, QueueSound, Queued, WindowSound, Interruptible, Proc, Slot, IDLE
<1>4. NextProc(ready) \in Proc /\ (NextProc(ready) # IDLE => In(ready, NextProc(ready)))
  BY <1>3, DequeueLemma
<1>5. ASSUME NEW tk, sched_do_switch_asm(tk) PROVE Goal
  <2> DEFINE st == IF Requeued THEN EnqueuedState(current) ELSE state
             q == IF Requeued THEN enqueue_ready(ready, current) ELSE ready
             next == NextProc(q)
  <2>1. /\ resume' = [resume EXCEPT ![current] = SavedContext]
        /\ IF next = current
             THEN state' = st /\ current' = current /\ at' = at
             ELSE /\ state' = [st EXCEPT ![next] = "RUNNING"] /\ current' = next
                  /\ at' = sched_restore_context(resume[next])
    BY <1>5 DEF sched_do_switch_asm, sched_switch_to
  <2>2. /\ st \in [Proc -> {"FREE", "READY", "RUNNING", "BLOCKED"}]
        /\ \A p \in Slot : st[p] # "RUNNING"
        /\ \A p \in Proc : p # current => st[p] = state[p]
        /\ st[current] # state[current] => st[current] = "READY"
    BY <1>2, <1>3 DEF Requeued, EnqueuedState
  <2>3. at = "window" => current \in Slot /\ st[current] = "FREE"
    BY <1>2, <1>3 DEF Requeued
  <2>4. /\ q \in Seq(Slot) /\ IsInjective(q)
        /\ \A p \in Slot : In(q, p) => st[p] = "READY"
    <3>1. CASE Requeued
      <4>1. current \in Slot /\ ~In(ready, current)
        BY <1>3, <3>1 DEF Requeued
      <4>2. QED
        BY <1>3, <3>1, <4>1, EnqueueLemma DEF EnqueuedState
    <3>2. CASE ~Requeued
      BY <1>3, <3>2
    <3>3. QED
      BY <3>1, <3>2
  <2>5. next \in Proc /\ (next # IDLE => In(q, next))
    BY <2>4, DequeueLemma
  <2> HIDE DEF st, q, next
  <2>6. SavedContext = "window" => at = "window"
    BY DEF SavedContext
  <2>7. \A p \in Slot : st[p] = "READY" => resume'[p] # "window"
    BY <1>2, <1>3, <2>1, <2>2, <2>3, <2>6
  <2>8. CASE next = current
    BY <2>1, <2>2, <2>3, <2>7, <2>8
  <2>9. CASE next # current
    <3>1. resume[next] # "window"
      <4>1. CASE next = IDLE
        BY <4>1, <1>3
      <4>2. CASE next # IDLE
        BY <4>2, <1>2, <1>3, <2>2, <2>4, <2>5, <2>9
      <4>3. QED
        BY <4>1, <4>2
    <3>2. at' # "window" /\ resume'[next] = resume[next]
      BY <1>3, <2>1, <2>5, <2>9, <3>1 DEF sched_restore_context
    <3>3. state'[next] = "RUNNING" /\ \A p \in Proc : p # next => state'[p] = st[p]
      BY <2>1, <2>2, <2>5, <2>9
    <3>4. QED
      BY <1>3, <2>1, <2>2, <2>7, <2>9, <3>1, <3>2, <3>3
  <2>10. QED
    BY <2>8, <2>9
<1>6. CASE isr_timer \/ isr_other
  BY <1>2, <1>5, <1>6 DEF isr_timer, isr_other, ISR_RETURN
<1>7. CASE sched_exit_asm
  <2> DEFINE next == NextProc(ready)
             st == [state EXCEPT ![current] = "FREE"]
  <2>1. /\ state' = [st EXCEPT ![next] = "RUNNING"] /\ current' = next
        /\ resume' = resume
        /\ at' = sched_restore_context(resume[next])
    BY <1>7 DEF sched_exit_asm, sched_switch_to
  <2>2. resume[next] # "window"
    BY <1>2, <1>3, <1>4
  <2>3. at' # "window"
    BY <2>1, <2>2 DEF sched_restore_context
  <2>4. st \in [Proc -> {"FREE", "READY", "RUNNING", "BLOCKED"}]
        /\ \A p \in Slot : st[p] # "RUNNING" /\ (st[p] = "READY" => state[p] = "READY")
    BY <1>2, <1>3
  <2> HIDE DEF st, next
  <2>5. QED
    BY <1>2, <1>3, <2>1, <2>2, <2>3, <2>4
<1>8. ASSUME NEW flag, sched_create_process(flag), at = "run" PROVE Goal
  <2>1. PICK p \in Slot : /\ state[p] = "FREE"
                          /\ state' = [state EXCEPT ![p] = "READY"]
                          /\ resume' = [resume EXCEPT ![p] = "fresh"]
                          /\ UNCHANGED <<current, at>>
    BY <1>8, Zenon DEF sched_create_process, alloc_pcb, EnqueuedState
  <2>2. QED
    BY <1>2, <1>3, <1>8, <2>1
<1>9. CASE sched_start
  <2>1. /\ current = IDLE
        /\ \/ state' = state /\ resume' = resume /\ current' = current /\ at' = "halt"
           \/ /\ ready # <<>>
              /\ state' = [state EXCEPT ![NextProc(ready)] = "RUNNING"]
              /\ current' = NextProc(ready)
              /\ resume' = [resume EXCEPT ![IDLE] = "fresh"]
              /\ at' = "switch"
    BY <1>9 DEF sched_start, BootThread, NextProc
  <2>2. resume[NextProc(ready)] # "window"
    BY <1>2, <1>3, <1>4
  <2>3. QED
    BY <1>2, <1>3, <1>4, <2>1, <2>2
<1>10. CASE sched_exit
  <2>1. /\ current # IDLE
        /\ state' = [state EXCEPT ![current] = "FREE"]
        /\ UNCHANGED <<current, resume>>
    BY <1>10 DEF sched_exit, EnterWindow, KernelThread
  <2>2. QED
    BY <1>2, <1>3, <2>1
<1>11. CASE switch_current
  <2>1. /\ at = "window" /\ at' = "picked" /\ state' = state
        /\ resume' = [resume EXCEPT ![current] = "stale"]
    BY <1>11 DEF switch_current
  <2>2. \A p \in Slot : state[p] # "RUNNING"
    BY <1>2, <1>3, <2>1
  <2>3. QED
    BY <1>2, <1>3, <2>1, <2>2
<1>12. CASE switch_state \/ switch_ticks
  <2>1. /\ at \in {"picked", "marked"} /\ at' # "window"
        /\ state' \in {state, [state EXCEPT ![current] = "RUNNING"]}
        /\ UNCHANGED <<current, resume>>
    BY <1>12 DEF switch_state, switch_ticks
  <2>2. QED
    BY <1>2, <1>3, <2>1
<1>13. CASE switch_restore
  <2>1. /\ at = "switch" /\ at' = sched_restore_context(resume[current])
        /\ UNCHANGED <<state, current, resume>>
    BY <1>13 DEF switch_restore
  <2>2. resume[current] # "window"
    BY <1>2, <1>3, <2>1
  <2>3. at' # "window"
    BY <2>1, <2>2 DEF sched_restore_context
  <2>4. QED
    BY <1>2, <2>1, <2>3
<1>14. CASE UNCHANGED vars
  BY <1>2, <1>14 DEF vars
<1>15. ~sched_yield /\ ~sched_block /\ ~sched_unblock
  BY <1>1 DEF sched_yield, sched_block, sched_unblock
<1>16. QED
  BY <1>6, <1>7, <1>8, <1>9, <1>10, <1>11, <1>12, <1>13, <1>14, <1>15
  DEF Next, Step, boot_create, BootThread, thread_create, KernelThread

\* Preemption, creation, SYS_EXIT and sched_exit, with interrupts anywhere in the
\* switch of the latter, never leave a second process RUNNING.
THEOREM OneRunning == Spec => []OnlyCurrentRuns
<1>1. Init => ExitSound
  BY DEF Init, sched_init, ExitSound, Proc, Slot, IDLE
<1>2. IInv /\ ExitSound => OnlyCurrentRuns
  BY DEF ExitSound, OnlyCurrentRuns
<1>3. QED
  BY <1>1, <1>2, InitIInv, NextIInv, NextExitSound, PTL DEF Spec

----------------------------------------------------------------------------
(* Saved frames, under the workloads that leave the CPU by preemption and   *)
(* SYS_EXIT.  The running thread is then in ordinary code or at the end of  *)
(* sched_start, where its slice has just been renewed: no interrupt there   *)
(* switches, so none saves a frame of the boot thread for the process.      *)

FrameSound ==
    calls \cap Switching = {} =>
        /\ at \in {"run", "switch", "halt"}
        /\ at = "switch" => current # IDLE /\ ticks[current] > 0 /\ resume[current] = "fresh"
        /\ \A p \in Proc : In(ready, p) \/ (p = IDLE /\ current # IDLE) => resume[p] = "fresh"

\* Every step keeps the frames of what may be dispatched next.
LEMMA NextFrameSound == IInv /\ FrameSound /\ [Next]_vars => FrameSound'
<1> DEFINE Goal ==
      /\ at' \in {"run", "switch", "halt"}
      /\ at' = "switch" => current' # IDLE /\ ticks'[current'] > 0 /\ resume'[current'] = "fresh"
      /\ \A p \in Proc : In(ready', p) \/ (p = IDLE /\ current' # IDLE) => resume'[p] = "fresh"
<1> SUFFICES ASSUME IInv, FrameSound, [Next]_vars, calls' \cap Switching = {} PROVE Goal
  BY DEF FrameSound
<1>1. /\ calls \cap Switching = {}
      /\ "yield" \notin calls /\ "block" \notin calls /\ "exit" \notin calls
  BY DEF Next, vars, Switching
<1>2. /\ at \in {"run", "switch", "halt"}
      /\ at = "switch" => current # IDLE /\ ticks[current] > 0 /\ resume[current] = "fresh"
      /\ \A p \in Proc : In(ready, p) \/ (p = IDLE /\ current # IDLE) => resume[p] = "fresh"
  BY <1>1 DEF FrameSound
<1>3. /\ resume \in [Proc -> Context] /\ ticks \in [Proc -> 0..TIME_SLICE]
      /\ current \in Proc /\ IDLE \in Proc /\ IDLE \notin Slot
      /\ \A p \in Proc : p \in Slot \/ p = IDLE
      /\ \A p \in Slot : p \in Proc
      /\ ready \in Seq(Slot) /\ IsInjective(ready)
      /\ \A p \in Slot : In(ready, p) => state[p] = "READY"
  BY DEF IInv, TypeOK, QueueSound, Queued, Proc, Slot, IDLE
<1>4. /\ NextProc(ready) \in Proc /\ (NextProc(ready) # IDLE => In(ready, NextProc(ready)))
      /\ \A x : In(Dequeued(ready), x) => In(ready, x)
      /\ ready # <<>> => NextProc(ready) \in Slot
  BY <1>3, DequeueLemma
<1>5. ASSUME NEW tk, at = "run", sched_do_switch_asm(tk) PROVE Goal
  <2> DEFINE q == IF Requeued THEN enqueue_ready(ready, current) ELSE ready
             next == NextProc(q)
  <2>1. /\ resume' = [resume EXCEPT ![current] = "fresh"] /\ ready' = Dequeued(q)
        /\ IF next = current
             THEN current' = current /\ at' = at
             ELSE current' = next /\ at' = sched_restore_context(resume[next])
    BY <1>5 DEF sched_do_switch_asm, sched_switch_to, SavedContext
  <2>2. /\ q \in Seq(Slot) /\ IsInjective(q)
        /\ \A x : In(q, x) => In(ready, x) \/ x = current
    <3>1. CASE Requeued
      <4>1. current \in Slot /\ ~In(ready, current)
        BY <1>3, <3>1 DEF Requeued
      <4>2. QED
        BY <1>3, <3>1, <4>1, EnqueueLemma
    <3>2. CASE ~Requeued
      BY <1>3, <3>2
    <3>3. QED
      BY <3>1, <3>2
  <2>3. /\ next \in Proc /\ (next # IDLE => In(q, next))
        /\ \A x : In(Dequeued(q), x) => In(q, x)
    BY <2>2, DequeueLemma
  <2> HIDE DEF q, next
  <2>4. resume'[current] = "fresh" /\ \A p \in Proc : p # current => resume'[p] = resume[p]
    BY <1>3, <2>1
  <2>5. at' = "run"
    <3>1. next # current => resume[next] = "fresh"
      BY <1>2, <2>2, <2>3
    <3>2. QED
      BY <1>5, <2>1, <3>1 DEF sched_restore_context
  <2>6. \A p \in Proc : In(ready', p) \/ (p = IDLE /\ current' # IDLE) => resume'[p] = "fresh"
    BY <1>2, <2>1, <2>2, <2>3, <2>4
  <2>7. QED
    BY <2>5, <2>6
<1>6. ASSUME NEW tk, at = "switch", tk[current] > 0, ISR_RETURN(tk) PROVE Goal
  <2>1. current # IDLE /\ ~sched_need_resched(tk)
    BY <1>2, <1>6 DEF sched_need_resched
  <2>2. ticks' = tk /\ UNCHANGED <<resume, ready, current, at>>
    BY <1>6, <2>1 DEF ISR_RETURN
  <2>3. QED
    BY <1>2, <1>6, <2>2
<1>7. ASSUME NEW tk, at = "run", ISR_RETURN(tk) PROVE Goal
  BY <1>2, <1>5, <1>7 DEF ISR_RETURN
<1>8. CASE isr_timer
  <2>1. at = "switch" => sched_tick[current] > 0
    BY <1>2, <1>3, <1>8, ConstantsAssumption DEF isr_timer, SwitchIsShort, sched_tick
  <2>2. at \in {"run", "switch"}
    BY <1>2, <1>8 DEF isr_timer, Interruptible
  <2>3. QED
    BY <1>6, <1>7, <1>8, <2>1, <2>2 DEF isr_timer
<1>9. CASE isr_other
  <2>1. at \in {"run", "switch"}
    BY <1>2, <1>9 DEF isr_other, Interruptible
  <2>2. QED
    BY <1>2, <1>6, <1>7, <1>9, <2>1 DEF isr_other
<1>10. CASE sched_exit_asm
  <2>1. /\ current # IDLE /\ ready' = Dequeued(ready) /\ current' = NextProc(ready)
        /\ resume' = resume /\ at' = sched_restore_context(resume[NextProc(ready)])
    BY <1>10 DEF sched_exit_asm, sched_switch_to
  <2>2. resume[NextProc(ready)] = "fresh"
    BY <1>2, <1>4, <2>1
  <2>3. at' = "run"
    BY <2>1, <2>2 DEF sched_restore_context
  <2>4. QED
    BY <1>2, <1>4, <2>1, <2>3
<1>11. ASSUME NEW flag, sched_create_process(flag), at = "run" PROVE Goal
  <2>1. PICK p \in Slot : /\ state[p] = "FREE"
                          /\ ready' = enqueue_ready(ready, p)
                          /\ resume' = [resume EXCEPT ![p] = "fresh"]
                          /\ UNCHANGED <<current, at>>
    BY <1>11, Zenon DEF sched_create_process, alloc_pcb
  <2>2. \A x : In(ready', x) => In(ready, x) \/ x = p
    BY <1>3, <2>1, EnqueueLemma, Zenon
  <2>3. QED
    BY <1>2, <1>3, <1>11, <2>1, <2>2
<1>12. CASE sched_start
  <2>1. CASE ready = <<>>
    BY <1>2, <1>12, <2>1 DEF sched_start
  <2>2. CASE ready # <<>>
    <3>1. /\ current' = NextProc(ready) /\ ready' = Dequeued(ready) /\ at' = "switch"
          /\ resume' = [resume EXCEPT ![IDLE] = "fresh"]
          /\ ticks' = [ticks EXCEPT ![NextProc(ready)] = TIME_SLICE]
      BY <1>12, <2>2 DEF sched_start, NextProc, Dequeued
    <3>2. NextProc(ready) \in Slot /\ NextProc(ready) # IDLE /\ resume[NextProc(ready)] = "fresh"
      BY <1>2, <1>3, <1>4, <2>2
    <3>3. ticks'[current'] > 0
      BY <1>3, <3>1, <3>2, ConstantsAssumption
    <3>4. \A p \in Proc : resume'[p] = "fresh" \/ (p # IDLE /\ resume'[p] = resume[p])
      BY <1>3, <3>1
    <3>5. QED
      BY <1>2, <1>3, <1>4, <3>1, <3>2, <3>3, <3>4
  <2>3. QED
    BY <2>1, <2>2
<1>13. CASE switch_restore
  <2>1. at' = "run" /\ UNCHANGED <<current, ready, resume>>
    BY <1>2, <1>13 DEF switch_restore, sched_restore_context
  <2>2. QED
    BY <1>2, <2>1
<1>14. CASE UNCHANGED vars
  BY <1>2, <1>14 DEF vars
<1>15. /\ ~sched_yield /\ ~sched_block /\ ~sched_exit /\ ~sched_unblock
       /\ ~switch_current /\ ~switch_state /\ ~switch_ticks
  BY <1>1, <1>2
  DEF sched_yield, sched_block, sched_exit, sched_unblock, switch_current, switch_state, switch_ticks
<1>16. QED
  BY <1>8, <1>9, <1>10, <1>11, <1>12, <1>13, <1>14, <1>15
  DEF Next, Step, boot_create, BootThread, thread_create, KernelThread

\* Where processes leave the CPU by preemption and SYS_EXIT only, and a slice
\* outlasts the end of sched_start, every dispatch finds the last frame of the
\* process it dispatches, on that process's own stack.
THEOREM QueuedRestorable == Spec => []ContextRestorable
<1>1. Init => FrameSound
  BY DEF Init, sched_init, FrameSound, In
<1>2. IInv /\ FrameSound => ContextRestorable
  BY DEF FrameSound, ContextRestorable, Queued
<1>3. QED
  BY <1>1, <1>2, InitIInv, NextIInv, NextFrameSound, PTL DEF Spec

============================================================================
