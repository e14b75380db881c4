---------------------------- MODULE BoundedFifo ----------------------------
(***************************************************************************)
(* What an input buffer promises: a FIFO of at most Size items.  A producer *)
(* adds a run of up to MaxRun items at once and what does not fit is lost;  *)
(* a consumer takes the oldest item.                                       *)
(***************************************************************************)
EXTENDS Integers, Sequences, SequencesExt, FiniteSetsExt

CONSTANTS Item, Size, MaxRun

VARIABLES queue,
          out     \* the item taken last

Put(s) ==
    /\ queue' = SubSeq(queue \o s, 1, Min({Size, Len(queue) + Len(s)}))
    /\ UNCHANGED out

Take ==
    /\ queue # <<>>
    /\ out' = Head(queue)
    /\ queue' = Tail(queue)

Init == queue = <<>> /\ out \notin Item

Next == Take \/ \E s \in SeqOf(Item, MaxRun) : Put(s)

Spec == Init /\ [][Next]_<<queue, out>>

============================================================================
