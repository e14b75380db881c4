----------------------------- MODULE ReadyList -----------------------------
(***************************************************************************)
(* The ready queue as scheduler.c implements it: PCBs linked through their *)
(* next field, with head, tail and count.  Scheduler.tla takes the queue   *)
(* to be a sequence; here its field updates are steps.                     *)
(*                                                                         *)
(* Interrupt handlers, and calls under hal_irq_save, run their enqueue and *)
(* dequeue with interrupts off, and so must a process that unblocks        *)
(* another: sched_unblock does not save the interrupt flag.  The thread of *)
(* kernel_main (current = NULL, as for idle) creates the first process     *)
(* with interrupts on: there the timer may stop it between any two         *)
(* assignments of enqueue_ready.                                           *)
(***************************************************************************)
EXTENDS Integers, Sequences, SequencesExt, FiniteSets

CONSTANTS Proc, NULL

ASSUME ReadyListAssumption == NULL \notin Proc

Thread == Proc \cup {NULL}

VARIABLES
    list,      \* the fields of the ready queue and the next field of each PCB
    state,     \* pcb->state of each process; "BLOCKED" before its creation too
    current,   \* the running process, NULL for the boot thread and idle
    pc,        \* where each thread is in enqueue_ready
    arg,       \* its argument
    booted     \* whether kernel_main has created its process

vars == <<list, state, current, pc, arg, booted>>

Init ==
    /\ list = [head |-> NULL, tail |-> NULL, next |-> [p \in Proc |-> NULL], count |-> 0]
    /\ current = NULL
    /\ state = [p \in Proc |-> "BLOCKED"]
    /\ pc = [t \in Thread |-> "run"]
    /\ arg = [t \in Thread |-> NULL]
    /\ booted = FALSE

----------------------------------------------------------------------------
(* enqueue_ready and dequeue_ready as their callers with interrupts off     *)
(* see them.                                                                *)

EnqLink_AtHead(l, p) == [l EXCEPT !.head = p, !.next = [@ EXCEPT ![p] = l.head]]

\* A store through a NULL tail goes to low memory and links nothing.
EnqLink(l, p) ==
    CASE l.head = NULL                     -> [l EXCEPT !.head = p]
      [] l.head # NULL /\ l.tail = NULL    -> l
      [] OTHER                             -> [l EXCEPT !.next = [@ EXCEPT ![l.tail] = p]]

EnqReset(l, p) == [l EXCEPT !.next = [@ EXCEPT ![p] = NULL]]

EnqTail(l, p) == [l EXCEPT !.tail = p]

EnqCount(l) == [l EXCEPT !.count = @ + 1]

enqueue_ready(l, p) == EnqCount(EnqTail(EnqLink(EnqReset(l, p), p), p))

\* The list after dequeue_ready, which returns l.head.
dequeue_ready(l) ==
    IF l.head = NULL THEN l
    ELSE LET h == l.next[l.head]
         IN  [head |-> h, tail |-> IF h = NULL THEN NULL ELSE l.tail,
              next |-> [l.next EXCEPT ![l.head] = NULL], count |-> l.count - 1]

\* The dequeued process (idle when there is none) becomes current.
SwitchTo(l, st) ==
    /\ list' = dequeue_ready(l)
    /\ current' = l.head
    /\ state' = IF l.head = NULL THEN st ELSE [st EXCEPT ![l.head] = "RUNNING"]

----------------------------------------------------------------------------
(* Steps.                                                                   *)

InterruptsOn == current = NULL \/ pc[current] = "run"

\* ISR_RETURN with the slice used up: sched_do_switch_asm.
do_switch ==
    /\ InterruptsOn
    /\ current = NULL => list.count > 0
    /\ IF current # NULL /\ state[current] = "RUNNING"
         THEN LET l == enqueue_ready(list, current)
                  st == [state EXCEPT ![current] = "READY"]
              IN  IF l.head = current
                    THEN list' = dequeue_ready(l) /\ state' = st /\ UNCHANGED current
                    ELSE SwitchTo(l, st)
         ELSE SwitchTo(list, state)
    /\ UNCHANGED <<pc, arg, booted>>

\* sched_block up to and with its sched_switch_to.
sched_block ==
    /\ current # NULL
    /\ pc[current] = "run"
    /\ state[current] = "RUNNING"
    /\ SwitchTo(list, [state EXCEPT ![current] = "BLOCKED"])
    /\ UNCHANGED <<pc, arg, booted>>

\* As far as enqueue_ready's first two assignments.
BeginEnqueue(p) ==
    /\ pc[current] = "run"
    /\ state[p] = "BLOCKED"
    /\ state' = [state EXCEPT ![p] = "READY"]
    /\ list' = EnqReset(list, p)
    /\ pc' = [pc EXCEPT ![current] = "link"]
    /\ arg' = [arg EXCEPT ![current] = p]
    /\ UNCHANGED current

sched_unblock(p) == current # NULL /\ BeginEnqueue(p) /\ UNCHANGED booted

boot_create(p) == current = NULL /\ ~booted /\ booted' = TRUE /\ BeginEnqueue(p)

\* One of the remaining assignments of enqueue_ready.
Assign(here, l, there) ==
    /\ pc[current] = here
    /\ list' = l
    /\ pc' = [pc EXCEPT ![current] = there]
    /\ UNCHANGED <<state, current, arg, booted>>

enqueue_CountFirst ==
    \/ Assign("link", EnqCount(list), "tail")
    \/ Assign("tail", EnqLink(list, arg[current]), "count")
    \/ Assign("count", EnqTail(list, arg[current]), "run")

\* The test of ready.head and the store it selects are one step.
enqueue_step ==
    \/ Assign("link", EnqLink(list, arg[current]), "tail")
    \/ Assign("tail", EnqTail(list, arg[current]), "count")
    \/ Assign("count", EnqCount(list), "run")

Next ==
    \/ do_switch \/ sched_block \/ enqueue_step
    \/ \E p \in Proc : sched_unblock(p) \/ boot_create(p)

Spec == Init /\ [][Next]_vars

----------------------------------------------------------------------------
(* Properties.                                                              *)

\* The processes met from PCB p on, at most n of them.
RECURSIVE Walk(_, _)
Walk(p, n) == IF p = NULL \/ n = 0 THEN <<>> ELSE <<p>> \o Walk(list.next[p], n - 1)

Chain == Walk(list.head, Cardinality(Proc) + 1)

Abstract == INSTANCE ReadyQueue WITH queue <- Chain

\* The linked list implements a FIFO of distinct processes: what dequeue_ready
\* will meet, following next from head, changes only as such a queue does.
AbstractSpec == Abstract!Spec

\* Outside enqueue_ready, tail is the last PCB linked from head and count the
\* number of PCBs linked, although the timer may interrupt the creation of
\* the first process: the count, which makes sched_need_resched switch away
\* from idle, is the last field to change.
ListConsistent ==
    (\A t \in Thread : pc[t] = "run") =>
        /\ list.count = Len(Chain)
        /\ list.tail = IF Chain = <<>> THEN NULL ELSE Last(Chain)

============================================================================
