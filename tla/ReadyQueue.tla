---------------------------- MODULE ReadyQueue -----------------------------
(***************************************************************************)
(* What the ready queue promises: a FIFO of distinct processes.            *)
(***************************************************************************)
EXTENDS Sequences, SequencesExt

CONSTANT Proc

VARIABLE queue

Enqueue(p) == ~Contains(queue, p) /\ queue' = Append(queue, p)

Dequeue == queue # <<>> /\ queue' = Tail(queue)

\* The timer interrupt requeues the process it stops and takes the next one
\* while interrupts are off: one step for everybody else.
Rotate(p) == ~Contains(queue, p) /\ queue' = Tail(Append(queue, p))

Init == queue = <<>>

Next == Dequeue \/ \E p \in Proc : Enqueue(p) \/ Rotate(p)

Spec == Init /\ [][Next]_queue

============================================================================
