------------------------------ MODULE IsoRing -------------------------------
(***************************************************************************)
(* The image source of libisofs: a thread generates the ISO image into a   *)
(* ring buffer (buffer.c) and the consumer, libburn's writing thread,      *)
(* reads, cancels and frees it through the burn_source calls of ecma119.c. *)
(*                                                                         *)
(* Every access to the ring is made under its mutex, so that a locked      *)
(* section, up to its unlock or its pthread_cond_wait, is one step.  A     *)
(* thread that was signalled tests its condition again: waking returns it  *)
(* to the step it waited in.                                               *)
(***************************************************************************)
EXTENDS Integers

CONSTANTS Cap,        \* size of the ring
          Total,      \* length of the image
          MaxWrite,   \* the most one iso_write adds
          MaxRead     \* the most one bs_read asks for

ASSUME IsoRingAssumption ==
    /\ Cap \in Nat \ {0}
    /\ Total \in Nat
    /\ MaxWrite \in Nat
    /\ MaxRead \in Nat

\* The bytes of the image are told apart by their position; 0 is any byte that
\* is not of the image.
Byte == 0..Total

VARIABLES
    buf, size, rpos, wpos, rend, wend,       \* struct iso_ring_buffer
    refcount,                                \* of the target; 0 once freed
    wthread_is_running,                      \* a thread is there to be joined
    w_pc, w_left,                            \* write_function, and what its iso_write has to add
    r_pc, r_left,                            \* the consumer, and what its bs_read has to get
    call, err,                               \* the call it is in, and the error it closes with
    dest, result,                            \* the bytes it copied last, and what it was told
    sent, taken                              \* bytes put into and got out of the ring so far

ring == <<buf, size, rpos, wpos, rend, wend>>
writer == <<w_pc, w_left>>
consumer == <<r_pc, r_left, call, err, dest, result>>
vars == <<ring, refcount, wthread_is_running, writer, consumer, sent, taken>>

\* The positions stay inside the ring and no count goes below zero.
TypeOK ==
    /\ buf \in [0..(Cap - 1) -> Byte]
    /\ size \in 0..Cap
    /\ rpos \in 0..(Cap - 1) /\ wpos \in 0..(Cap - 1)
    /\ rend \in 0..2 /\ wend \in 0..2
    /\ refcount \in 0..2
    /\ wthread_is_running \in BOOLEAN
    /\ w_pc \in {"none", "between", "write", "wait", "jte", "error",
                 "free", "free_error", "checks", "done"}
    /\ w_left \in Nat
    /\ r_pc \in {"new", "call", "read", "wait", "close", "join", "free", "done"}
    /\ r_left \in Nat
    /\ call \in {"none", "cancel", "free"} /\ err \in BOOLEAN
    /\ result \in {"none", "data", "eof"}
    /\ sent \in 0..Total /\ taken \in 0..sent

Init ==
    /\ buf = [i \in 0..(Cap - 1) |-> 0]
    /\ size = 0 /\ rpos = 0 /\ wpos = 0 /\ rend = 0 /\ wend = 0
    /\ refcount = 1 /\ wthread_is_running = FALSE
    /\ w_pc = "none" /\ w_left = 0
    /\ r_pc = "new" /\ r_left = 0
    /\ call = "none" /\ err = FALSE
    /\ dest = [i \in {} |-> 0] /\ result = "none"
    /\ sent = 0 /\ taken = 0

----------------------------------------------------------------------------
(* buffer.c                                                                 *)

min(a, b) == IF a <= b THEN a ELSE b

\* What one turn of iso_ring_buffer_write adds: what is left and fits, and not
\* beyond the end of the buffer.
WriteLen_Uncut == min(w_left, Cap - size)

WriteLen ==
    LET len == min(w_left, Cap - size)
    IN  IF wpos + len > Cap THEN Cap - wpos ELSE len

ReadLen_Unbounded == IF rpos + r_left > Cap THEN Cap - rpos ELSE r_left

ReadLen ==
    LET len == min(r_left, size)
    IN  IF rpos + len > Cap THEN Cap - rpos ELSE len

\* pthread_cond_signal of the conditions empty and full.
signal_empty == r_pc' = IF r_pc = "wait" THEN "read" ELSE r_pc

signal_full == w_pc' = IF w_pc = "wait" THEN "write" ELSE w_pc

\* Waiting may end without a signal.
spurious_wakeup ==
    \/ /\ r_pc = "wait" /\ r_pc' = "read"
       /\ UNCHANGED <<ring, refcount, wthread_is_running, writer, r_left, call, err, dest,
                      result, sent, taken>>
    \/ /\ w_pc = "wait" /\ w_pc' = "write"
       /\ UNCHANGED <<ring, refcount, wthread_is_running, w_left, consumer, sent, taken>>

put ==
    LET len == WriteLen
    IN  /\ buf' = [i \in 0..(Cap - 1) |->
                      IF i \in wpos..(wpos + len - 1) THEN sent + 1 + (i - wpos) ELSE buf[i]]
        /\ wpos' = (wpos + len) % Cap
        /\ size' = size + len
        /\ w_left' = w_left - len
        /\ sent' = sent + len
        /\ w_pc' = IF len = w_left THEN "between" ELSE "write"
        /\ signal_empty
        /\ UNCHANGED <<rpos, rend, wend, r_left, call, err, dest, result, taken>>

full_AlwaysWaits ==
    /\ size = Cap
    /\ w_pc' = "wait"
    /\ UNCHANGED <<ring, w_left, consumer, sent, taken>>

\* A writer that finds the ring full gives up if the reader is gone.
full ==
    /\ size = Cap
    /\ w_pc' = IF rend # 0 THEN "error" ELSE "wait"
    /\ UNCHANGED <<ring, w_left, consumer, sent, taken>>

iso_ring_buffer_write ==
    /\ w_pc = "write"
    /\ full \/ (size < Cap /\ put)
    /\ UNCHANGED <<refcount, wthread_is_running>>

get ==
    LET len == ReadLen
    IN  /\ dest' = [i \in 1..len |-> buf[rpos + i - 1]]
        /\ result' = "data"
        /\ rpos' = (rpos + len) % Cap
        /\ size' = size - len
        /\ r_left' = r_left - len
        /\ taken' = taken + len
        /\ r_pc' = IF len = r_left THEN "call" ELSE "read"
        /\ signal_full
        /\ UNCHANGED <<buf, wpos, rend, wend, w_left, call, err, sent>>

\* A reader that finds the ring empty is told the end if the writer is gone.
empty ==
    /\ size = 0
    /\ IF wend # 0 THEN r_pc' = "call" /\ result' = "eof"
                   ELSE r_pc' = "wait" /\ UNCHANGED result
    /\ UNCHANGED <<ring, writer, r_left, call, err, dest, sent, taken>>

iso_ring_buffer_read ==
    /\ r_pc = "read"
    /\ empty \/ (size > 0 /\ get)
    /\ UNCHANGED <<refcount, wthread_is_running>>

iso_ring_buffer_writer_close(error) ==
    /\ wend' = IF error THEN 2 ELSE 1
    /\ signal_empty
    /\ UNCHANGED <<buf, size, rpos, wpos, rend>>

iso_ring_buffer_reader_close(error) ==
    /\ IF rend # 0 THEN UNCHANGED <<rend, w_pc>>
                   ELSE rend' = (IF error THEN 2 ELSE 1) /\ signal_full
    /\ UNCHANGED <<buf, size, rpos, wpos, wend>>

iso_ring_buffer_get_buf_status == (IF rend # 0 THEN 4 ELSE 0) + wend + 1

----------------------------------------------------------------------------
(* ecma119.c: the making of the source                                      *)

\* To fill the caller's overwrite buffer the head of the image is written into
\* the ring and read back before there is a thread; the size of the ring is
\* checked to suffice.
overwrite_head(n) ==
    /\ r_pc = "new"
    /\ wpos' = (wpos + n) % Cap
    /\ rpos' = (rpos + n) % Cap
    /\ UNCHANGED <<buf, size, rend, wend, refcount, wthread_is_running, writer, consumer,
                   sent, taken>>

\* The end of ecma119_image_new: the thread is started with a reference of its
\* own, or cannot be, or is not wanted (will_cancel).
ecma119_image_new ==
    /\ r_pc = "new"
    /\ \/ /\ r_pc' = "call"
          /\ \/ refcount' = 2 /\ wthread_is_running' = TRUE /\ w_pc' = "between"
             \/ UNCHANGED <<refcount, wthread_is_running, w_pc>>
       \/ /\ r_pc' = "done" /\ refcount' = 0
          /\ UNCHANGED <<wthread_is_running, w_pc>>
    /\ UNCHANGED <<ring, w_left, r_left, call, err, dest, result, sent, taken>>

ecma119_image_free == refcount' = IF refcount > 1 THEN refcount - 1 ELSE 0

----------------------------------------------------------------------------
(* ecma119.c: the thread                                                    *)

\* The writers of the image add it piece by piece, or one of them fails.
iso_write(n) ==
    /\ w_pc = "between"
    /\ sent + n <= Total
    /\ w_pc' = "write" /\ w_left' = n
    /\ UNCHANGED <<ring, refcount, wthread_is_running, consumer, sent, taken>>

write_fails ==
    /\ w_pc = "between"
    /\ w_pc' = "error"
    /\ UNCHANGED <<ring, refcount, wthread_is_running, w_left, consumer, sent, taken>>

\* Assumed: without an error the writers add the Total bytes they announced.
\* The code closes the ring in any case and only reports a mismatch later.
write_ends ==
    /\ w_pc = "between" /\ sent = Total
    /\ w_pc' = "jte"
    /\ iso_ring_buffer_writer_close(FALSE)
    /\ UNCHANGED <<refcount, wthread_is_running, w_left, r_left, call, err, dest, result,
                   sent, taken>>

\* finish_libjte may fail after the ring was closed without error.
finish_libjte ==
    /\ w_pc = "jte"
    /\ w_pc' \in {"free", "error"}
    /\ UNCHANGED <<ring, refcount, wthread_is_running, w_left, consumer, sent, taken>>

write_error ==
    /\ w_pc = "error"
    /\ w_pc' = "free_error"
    /\ iso_ring_buffer_writer_close(TRUE)
    /\ UNCHANGED <<refcount, wthread_is_running, w_left, r_left, call, err, dest, result,
                   sent, taken>>

\* The thread gives its reference up.  After success it goes on to compare
\* sizes it finds in the target.
write_frees ==
    /\ \/ w_pc = "free" /\ w_pc' = "checks"
       \/ w_pc = "free_error" /\ w_pc' = "done"
    /\ ecma119_image_free
    /\ UNCHANGED <<ring, wthread_is_running, w_left, consumer, sent, taken>>

write_checks ==
    /\ w_pc = "checks" /\ w_pc' = "done"
    /\ UNCHANGED <<ring, refcount, wthread_is_running, w_left, consumer, sent, taken>>

write_function ==
    \/ \E n \in 1..MaxWrite : iso_write(n)
    \/ iso_ring_buffer_write
    \/ write_fails \/ write_ends \/ finish_libjte \/ write_error \/ write_frees \/ write_checks

----------------------------------------------------------------------------
(* ecma119.c: the consumer                                                  *)

\* Nobody reads from a source that was cancelled, or made only to be.
bs_read(n) ==
    /\ r_pc = "call" /\ rend = 0 /\ w_pc # "none"
    /\ r_pc' = "read" /\ r_left' = n
    /\ UNCHANGED <<ring, refcount, wthread_is_running, writer, call, err, dest, result,
                   sent, taken>>

\* Whether the image was consumed is decided on the status before the close.
bs_cancel ==
    /\ r_pc = "call"
    /\ r_pc' = "close" /\ call' = "cancel"
    /\ err' = ~(size = 0 /\ iso_ring_buffer_get_buf_status \in {2, 3})
    /\ UNCHANGED <<ring, refcount, wthread_is_running, writer, r_left, dest, result,
                   sent, taken>>

bs_free_data_NoJoin ==
    /\ r_pc = "call"
    /\ call' = "free" /\ err' = FALSE
    /\ r_pc' = "free"
    /\ UNCHANGED <<ring, refcount, wthread_is_running, writer, r_left, dest, result,
                   sent, taken>>

bs_free_data ==
    /\ r_pc = "call"
    /\ call' = "free" /\ err' = FALSE
    /\ r_pc' = IF iso_ring_buffer_get_buf_status < 4 THEN "close" ELSE "free"
    /\ UNCHANGED <<ring, refcount, wthread_is_running, writer, r_left, dest, result,
                   sent, taken>>

close ==
    /\ r_pc = "close"
    /\ r_pc' = "join"
    /\ iso_ring_buffer_reader_close(err)
    /\ UNCHANGED <<refcount, wthread_is_running, w_left, r_left, call, err, dest, result,
                   sent, taken>>

join ==
    /\ r_pc = "join"
    /\ wthread_is_running => w_pc = "done"
    /\ wthread_is_running' = FALSE
    /\ r_pc' = IF call = "cancel" THEN "call" ELSE "free"
    /\ UNCHANGED <<ring, refcount, writer, r_left, call, err, dest, result, sent, taken>>

free ==
    /\ r_pc = "free" /\ r_pc' = "done"
    /\ ecma119_image_free
    /\ UNCHANGED <<ring, wthread_is_running, writer, r_left, call, err, dest, result,
                   sent, taken>>

\* The steps of a call that was made.
in_call == iso_ring_buffer_read \/ close \/ join \/ free

Next ==
    \/ \E n \in 1..Cap : overwrite_head(n)
    \/ ecma119_image_new
    \/ write_function
    \/ \E n \in 1..MaxRead : bs_read(n)
    \/ bs_cancel \/ bs_free_data \/ in_call
    \/ spurious_wakeup

Spec == Init /\ [][Next]_vars

\* Both threads run; the consumer need not make another call.
FairSpec == Spec /\ WF_vars(write_function) /\ WF_vars(in_call)

----------------------------------------------------------------------------
(* Properties                                                               *)

Stream == INSTANCE ByteStream WITH ended <- wend

\* The consumer gets the bytes of the image in order, none twice and none left
\* out, wherever its copies and the thread's are cut at the end of the buffer;
\* it is told the end only when the ring is empty and the thread has closed it,
\* and a ring closed without error held the whole image.
Implements == Stream!Spec

\* The image and its ring are freed only when the thread will not look at them
\* any more: bs_free_data joins it, unless bs_cancel has.
NoUseAfterFree == refcount = 0 => w_pc \in {"none", "done"} /\ r_pc = "done"

\* Every call of the consumer returns: no signal is lost, a reader is woken by
\* data and by the end, and a writer stuck on a full ring by the close.
CallReturns == r_pc \in {"read", "wait", "close", "join", "free"} ~> r_pc \in {"call", "done"}

=============================================================================
