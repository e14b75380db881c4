--------------------------- MODULE IsoRingProofs ----------------------------
(***************************************************************************)
(* For a ring, an image and requests of any size: the consumer gets the    *)
(* stream ByteStream promises, and nothing is used after it was freed.     *)
(***************************************************************************)
EXTENDS IsoRing, TLAPS

Wrap(k) == IF k >= Cap THEN k - Cap ELSE k

\* The ring holds the bytes put and not yet taken, in order from rpos on.
RingSound ==
    /\ size = sent - taken
    /\ wpos = Wrap(rpos + size)
    /\ \A i \in 0..(size - 1) : buf[Wrap(rpos + i)] = taken + i + 1

\* Where the threads are and what they have left to do.
ThreadsSound ==
    /\ w_pc \in {"write", "wait"} => w_left \in 1..(Total - sent)
    /\ r_pc \in {"read", "wait"} => r_left >= 1
    /\ w_pc \in {"none", "between", "write", "wait"} => wend = 0
    /\ r_pc = "new" => w_pc = "none" /\ size = 0 /\ rend = 0

\* The references are those of the consumer and of the thread, and a consumer
\* that has closed the ring and gone on has joined the thread.
RefSound ==
    /\ refcount = (IF r_pc = "done" THEN 0 ELSE 1)
                + (IF w_pc \in {"none", "checks", "done"} THEN 0 ELSE 1)
    /\ ~wthread_is_running => w_pc \in {"none", "done"}
    /\ r_pc \in {"new", "free", "done"} => ~wthread_is_running
    /\ rend # 0 => r_pc \notin {"read", "wait"}
    /\ rend # 0 /\ r_pc = "call" => ~wthread_is_running

IInv == TypeOK /\ RingSound /\ ThreadsSound /\ RefSound

----------------------------------------------------------------------------
(* Arithmetic of the positions                                              *)

\* A position moved to at most the end of the buffer wraps to the start there.
LEMMA ModAtEnd ==
    ASSUME NEW c \in Nat \ {0}, NEW k \in 0..c
    PROVE  k % c = IF k = c THEN 0 ELSE k
  BY SMT

\* A position taken modulo the capacity lies in the buffer.
LEMMA ModInside ==
    ASSUME NEW c \in Nat \ {0}, NEW k \in Nat
    PROVE  k % c \in 0..(c - 1)
  BY SMT

----------------------------------------------------------------------------
(* The two copies                                                           *)

\* One turn of iso_ring_buffer_write adds something, and neither more than fits
\* nor anything beyond the end of the buffer.
LEMMA WriteLenFits ==
    ASSUME IInv, w_pc = "write", size < Cap
    PROVE  /\ WriteLen \in 1..w_left
           /\ size + WriteLen <= Cap
           /\ wpos + WriteLen <= Cap
  BY IsoRingAssumption DEF IInv, TypeOK, ThreadsSound, WriteLen, min

\* One turn of iso_ring_buffer_read takes something the ring holds, and
\* nothing beyond the end of the buffer.
LEMMA ReadLenFits ==
    ASSUME IInv, r_pc = "read", size > 0
    PROVE  /\ ReadLen \in 1..r_left
           /\ ReadLen <= size
           /\ rpos + ReadLen <= Cap
  BY IsoRingAssumption DEF IInv, TypeOK, ThreadsSound, ReadLen, min

\* What iso_ring_buffer_write adds goes behind what the ring holds.
LEMMA PutRing ==
    ASSUME IInv, w_pc = "write", size < Cap, put
    PROVE  /\ RingSound'
           /\ buf' \in [0..(Cap - 1) -> Byte]
           /\ size' \in 0..Cap /\ wpos' \in 0..(Cap - 1)
           /\ sent' \in 0..Total /\ sent' > sent
<1> DEFINE len == WriteLen
<1>1. /\ len \in 1..w_left
      /\ size + len <= Cap /\ wpos + len <= Cap
      /\ sent + w_left <= Total
  BY WriteLenFits, IsoRingAssumption DEF IInv, ThreadsSound, TypeOK
<1>2. /\ Cap \in Nat \ {0} /\ Total \in Nat
      /\ buf \in [0..(Cap - 1) -> Byte]
      /\ size \in 0..Cap /\ rpos \in 0..(Cap - 1) /\ wpos \in 0..(Cap - 1)
      /\ sent \in 0..Total /\ taken \in 0..sent /\ w_left \in Nat
  BY IsoRingAssumption DEF IInv, TypeOK
<1>3. /\ size = sent - taken
      /\ wpos = Wrap(rpos + size)
      /\ \A i \in 0..(size - 1) : buf[Wrap(rpos + i)] = taken + i + 1
  BY DEF IInv, RingSound
<1>4. /\ buf' = [i \in 0..(Cap - 1) |->
                    IF i \in wpos..(wpos + len - 1) THEN sent + 1 + (i - wpos) ELSE buf[i]]
      /\ size' = size + len
      /\ sent' = sent + len
      /\ rpos' = rpos /\ taken' = taken
  BY DEF put
<1>5. wpos' = IF wpos + len = Cap THEN 0 ELSE wpos + len
  <2>1. wpos + len \in 0..Cap
    BY <1>1, <1>2
  <2>2. (wpos + len) % Cap = IF wpos + len = Cap THEN 0 ELSE wpos + len
    BY <1>2, <2>1, ModAtEnd, Zenon
  <2>3. QED
    BY <2>2 DEF put
<1> HIDE DEF len
<1>6. /\ size' \in 0..Cap /\ wpos' \in 0..(Cap - 1)
      /\ sent' \in 0..Total /\ sent' > sent
  BY <1>1, <1>2, <1>4, <1>5
<1>7. buf' \in [0..(Cap - 1) -> Byte]
  <2>1. \A i \in wpos..(wpos + len - 1) : sent + 1 + (i - wpos) \in Byte
    BY <1>1, <1>2 DEF Byte
  <2>2. QED
    BY <1>2, <1>4, <2>1
<1>8. size' = sent' - taken'
  BY <1>1, <1>2, <1>3, <1>4
<1>9. wpos' = Wrap(rpos' + size')
  BY <1>1, <1>2, <1>3, <1>4, <1>5 DEF Wrap
<1>10. ASSUME NEW i \in 0..(size' - 1)
       PROVE  buf'[Wrap(rpos' + i)] = taken' + i + 1
  <2>1. Wrap(rpos + i) \in 0..(Cap - 1)
    BY <1>1, <1>2, <1>4 DEF Wrap
  <2>2. CASE i < size
    <3>1. Wrap(rpos + i) \notin wpos..(wpos + len - 1)
      BY <1>1, <1>2, <1>3, <2>2 DEF Wrap
    <3>2. buf'[Wrap(rpos + i)] = buf[Wrap(rpos + i)]
      BY <1>4, <2>1, <3>1
    <3>3. QED
      BY <1>2, <1>3, <1>4, <2>2, <3>2
  <2>3. CASE i >= size
    <3>1. Wrap(rpos + i) = wpos + (i - size)
      BY <1>1, <1>2, <1>3, <1>4, <2>3 DEF Wrap
    <3>2. Wrap(rpos + i) \in wpos..(wpos + len - 1)
      BY <1>1, <1>2, <1>4, <2>3, <3>1
    <3>3. buf'[Wrap(rpos + i)] = sent + 1 + (Wrap(rpos + i) - wpos)
      BY <1>4, <2>1, <3>2
    <3>4. sent + 1 + (Wrap(rpos + i) - wpos) = taken + i + 1
      BY <1>1, <1>2, <1>3, <1>4, <3>1
    <3>5. QED
      BY <1>4, <3>3, <3>4
  <2>4. QED
    BY <1>1, <1>2, <1>4, <2>2, <2>3
<1>11. QED
  BY <1>6, <1>7, <1>8, <1>9, <1>10 DEF RingSound

\* What iso_ring_buffer_read takes are the next bytes of the image.
LEMMA GetRing ==
    ASSUME IInv, r_pc = "read", size > 0, get
    PROVE  /\ RingSound'
           /\ size' \in 0..Cap /\ rpos' \in 0..(Cap - 1)
           /\ taken' \in (taken + 1)..sent
           /\ dest' = [i \in 1..(taken' - taken) |-> taken + i]
<1> DEFINE len == ReadLen
<1>1. len \in 1..r_left /\ len <= size /\ rpos + len <= Cap
  BY ReadLenFits
<1>2. /\ Cap \in Nat \ {0} /\ Total \in Nat
      /\ buf \in [0..(Cap - 1) -> Byte]
      /\ size \in 0..Cap /\ rpos \in 0..(Cap - 1) /\ wpos \in 0..(Cap - 1)
      /\ sent \in 0..Total /\ taken \in 0..sent /\ r_left \in Nat
  BY IsoRingAssumption DEF IInv, TypeOK
<1>3. /\ size = sent - taken
      /\ wpos = Wrap(rpos + size)
      /\ \A i \in 0..(size - 1) : buf[Wrap(rpos + i)] = taken + i + 1
  BY DEF IInv, RingSound
<1>4. /\ dest' = [i \in 1..len |-> buf[rpos + i - 1]]
      /\ size' = size - len
      /\ taken' = taken + len
      /\ buf' = buf /\ wpos' = wpos /\ sent' = sent
  BY DEF get
<1>5. rpos' = IF rpos + len = Cap THEN 0 ELSE rpos + len
  <2>1. rpos + len \in 0..Cap
    BY <1>1, <1>2
  <2>2. (rpos + len) % Cap = IF rpos + len = Cap THEN 0 ELSE rpos + len
    BY <1>2, <2>1, ModAtEnd, Zenon
  <2>3. QED
    BY <2>2 DEF get
<1> HIDE DEF len
<1>6. /\ size' \in 0..Cap /\ rpos' \in 0..(Cap - 1)
      /\ taken' \in (taken + 1)..sent
      /\ taken' - taken = len
  BY <1>1, <1>2, <1>3, <1>4, <1>5
<1>7. ASSUME NEW i \in 1..len
      PROVE  buf[rpos + i - 1] = taken + i
  <2>1. i - 1 \in 0..(size - 1) /\ Wrap(rpos + (i - 1)) = rpos + i - 1
    BY <1>1, <1>2 DEF Wrap
  <2>2. buf[Wrap(rpos + (i - 1))] = taken + (i - 1) + 1
    BY <1>3, <2>1
  <2>3. QED
    BY <1>1, <1>2, <2>1, <2>2
<1>8. dest' = [i \in 1..(taken' - taken) |-> taken + i]
  BY <1>4, <1>6, <1>7
<1>9. size' = sent' - taken'
  BY <1>1, <1>2, <1>3, <1>4
<1>10. wpos' = Wrap(rpos' + size')
  BY <1>1, <1>2, <1>3, <1>4, <1>5 DEF Wrap
<1>11. ASSUME NEW i \in 0..(size' - 1)
       PROVE  buf'[Wrap(rpos' + i)] = taken' + i + 1
  <2>1. i + len \in 0..(size - 1) /\ Wrap(rpos' + i) = Wrap(rpos + (i + len))
    BY <1>1, <1>2, <1>4, <1>5 DEF Wrap
  <2>2. buf[Wrap(rpos + (i + len))] = taken + (i + len) + 1
    BY <1>3, <2>1
  <2>3. QED
    BY <1>1, <1>2, <1>4, <2>1, <2>2
<1>12. QED
  BY <1>6, <1>8, <1>9, <1>10, <1>11 DEF RingSound

----------------------------------------------------------------------------
(* The inductive invariant                                                  *)

\* The new, empty ring satisfies the invariant.
LEMMA InitIInv == Init => IInv
  BY IsoRingAssumption, SMTT(30)
  DEF Init, IInv, TypeOK, RingSound, ThreadsSound, RefSound, Wrap, Byte

\* Steps that leave the ring and the counts alone keep its contents in order.
LEMMA SameRing ==
    ASSUME RingSound, UNCHANGED <<buf, size, rpos, wpos, sent, taken>>
    PROVE  RingSound'
  BY DEF RingSound, Wrap

\* iso_ring_buffer_write keeps the invariant.
LEMMA WriteIInv ==
    ASSUME IInv, iso_ring_buffer_write
    PROVE  IInv'
<1>1. CASE size < Cap /\ put
  <2>1. /\ RingSound'
        /\ buf' \in [0..(Cap - 1) -> Byte]
        /\ size' \in 0..Cap /\ wpos' \in 0..(Cap - 1)
        /\ sent' \in 0..Total /\ sent' > sent
    BY <1>1, PutRing DEF iso_ring_buffer_write
  <2>2. /\ WriteLen \in 1..w_left
        /\ w_left \in 1..(Total - sent)
    BY <1>1, WriteLenFits DEF iso_ring_buffer_write, IInv, ThreadsSound
  <2>3. TypeOK'
    <3>1. w_left' \in Nat /\ taken' \in 0..sent'
      BY <1>1, <2>1, <2>2, IsoRingAssumption DEF IInv, TypeOK, put
    <3>2. w_pc' \in {"between", "write"} /\ r_pc' \in {"read", r_pc}
      BY <1>1 DEF put, signal_empty
    <3>3. QED
      BY <1>1, <2>1, <3>1, <3>2 DEF IInv, TypeOK, iso_ring_buffer_write, put
  <2>4. ThreadsSound'
    BY <1>1, <2>1, <2>2, IsoRingAssumption
    DEF IInv, TypeOK, ThreadsSound, iso_ring_buffer_write, put, signal_empty
  <2>5. RefSound'
    BY <1>1 DEF IInv, TypeOK, RefSound, iso_ring_buffer_write, put, signal_empty
  <2>6. QED
    BY <2>1, <2>3, <2>4, <2>5 DEF IInv
<1>2. CASE full
  <2>1. RingSound'
    BY <1>2, SameRing DEF IInv, full, ring
  <2>2. TypeOK' /\ ThreadsSound' /\ RefSound'
    BY <1>2 DEF IInv, TypeOK, ThreadsSound, RefSound, iso_ring_buffer_write, full, ring,
                consumer
  <2>3. QED
    BY <2>1, <2>2 DEF IInv
<1>3. QED
  BY <1>1, <1>2 DEF iso_ring_buffer_write

\* iso_ring_buffer_read keeps the invariant.
LEMMA ReadIInv ==
    ASSUME IInv, iso_ring_buffer_read
    PROVE  IInv'
<1>1. CASE size > 0 /\ get
  <2>1. /\ RingSound'
        /\ size' \in 0..Cap /\ rpos' \in 0..(Cap - 1)
        /\ taken' \in (taken + 1)..sent
    BY <1>1, GetRing DEF iso_ring_buffer_read
  <2>2. ReadLen \in 1..r_left
    BY <1>1, ReadLenFits DEF iso_ring_buffer_read
  <2>3. TypeOK'
    BY <1>1, <2>1, <2>2, IsoRingAssumption
    DEF IInv, TypeOK, iso_ring_buffer_read, get, signal_full
  <2>4. ThreadsSound'
    BY <1>1, <2>1, <2>2, IsoRingAssumption
    DEF IInv, TypeOK, ThreadsSound, iso_ring_buffer_read, get, signal_full
  <2>5. RefSound'
    BY <1>1 DEF IInv, TypeOK, RefSound, iso_ring_buffer_read, get, signal_full
  <2>6. QED
    BY <2>1, <2>3, <2>4, <2>5 DEF IInv
<1>2. CASE empty
  <2>1. RingSound'
    BY <1>2, SameRing DEF IInv, empty, ring
  <2>2. TypeOK' /\ ThreadsSound' /\ RefSound'
    BY <1>2, SMTT(30) DEF IInv, TypeOK, ThreadsSound, RefSound, iso_ring_buffer_read, empty, ring,
                writer
  <2>3. QED
    BY <2>1, <2>2 DEF IInv
<1>3. QED
  BY <1>1, <1>2 DEF iso_ring_buffer_read

\* Every other step of the thread keeps the invariant.
LEMMA ThreadIInv ==
    ASSUME IInv, write_function
    PROVE  IInv'
<1> USE IsoRingAssumption DEF IInv, TypeOK, ThreadsSound, RefSound, ring, writer, consumer
<1>1. CASE \E n \in 1..MaxWrite : iso_write(n)
  <2>1. RingSound'
    BY <1>1, SameRing DEF iso_write
  <2>2. QED
    BY <1>1, <2>1 DEF iso_write
<1>2. CASE iso_ring_buffer_write
  BY <1>2, WriteIInv
<1>3. CASE write_fails
  <2>1. RingSound'
    BY <1>3, SameRing DEF write_fails
  <2>2. QED
    BY <1>3, <2>1 DEF write_fails
<1>4. CASE write_ends
  <2>1. RingSound'
    BY <1>4, SameRing DEF write_ends, iso_ring_buffer_writer_close
  <2>2. QED
    BY <1>4, <2>1 DEF write_ends, iso_ring_buffer_writer_close, signal_empty
<1>5. CASE finish_libjte
  <2>1. RingSound'
    BY <1>5, SameRing DEF finish_libjte
  <2>2. QED
    BY <1>5, <2>1 DEF finish_libjte
<1>6. CASE write_error
  <2>1. RingSound'
    BY <1>6, SameRing DEF write_error, iso_ring_buffer_writer_close
  <2>2. QED
    BY <1>6, <2>1 DEF write_error, iso_ring_buffer_writer_close, signal_empty
<1>7. CASE write_frees
  <2>1. RingSound'
    BY <1>7, SameRing DEF write_frees
  <2>2. QED
    BY <1>7, <2>1 DEF write_frees, ecma119_image_free
<1>8. CASE write_checks
  <2>1. RingSound'
    BY <1>8, SameRing DEF write_checks
  <2>2. QED
    BY <1>8, <2>1 DEF write_checks
<1>9. QED
  BY <1>1, <1>2, <1>3, <1>4, <1>5, <1>6, <1>7, <1>8 DEF write_function

\* Filling the overwrite buffer keeps the invariant: the ring is empty before
\* and after it, wherever its positions come to lie.
LEMMA HeadIInv ==
    ASSUME IInv, NEW n \in 1..Cap, overwrite_head(n)
    PROVE  IInv'
<1>1. size = 0 /\ rpos = wpos /\ sent = taken
  BY IsoRingAssumption DEF IInv, TypeOK, ThreadsSound, RingSound, Wrap, overwrite_head
<1>2. (wpos + n) % Cap \in 0..(Cap - 1)
  BY ModInside, IsoRingAssumption DEF IInv, TypeOK
<1>3. /\ wpos' \in 0..(Cap - 1) /\ rpos' \in 0..(Cap - 1) /\ rpos' = wpos'
      /\ size' = 0 /\ sent' = sent /\ taken' = taken
  BY <1>1, <1>2 DEF overwrite_head
<1>4. RingSound'
  <2>1. \A p \in 0..(Cap - 1) : Wrap(p + 0) = p
    BY IsoRingAssumption DEF Wrap
  <2>2. size' = sent' - taken' /\ (0..(size' - 1)) = {}
    BY <1>1, <1>3 DEF IInv, TypeOK
  <2>3. wpos' = Wrap(rpos' + size')
    BY <1>3, <2>1, Zenon
  <2>4. QED
    BY <2>2, <2>3 DEF RingSound
<1>5. TypeOK' /\ ThreadsSound' /\ RefSound'
  BY <1>1, <1>3, SMTT(30) DEF IInv, TypeOK, ThreadsSound, RefSound, overwrite_head, writer, consumer
<1>6. QED
  BY <1>4, <1>5 DEF IInv

\* Every step of the consumer and of the maker of the source does.
LEMMA ConsumerIInv ==
    ASSUME IInv,
           \/ \E n \in 1..Cap : overwrite_head(n)
           \/ ecma119_image_new
           \/ \E n \in 1..MaxRead : bs_read(n)
           \/ bs_cancel \/ bs_free_data \/ in_call
           \/ spurious_wakeup
    PROVE  IInv'
<1> USE IsoRingAssumption DEF IInv, TypeOK, ThreadsSound, RefSound, ring, writer, consumer
<1>1. CASE \E n \in 1..Cap : overwrite_head(n)
  BY <1>1, HeadIInv
<1>2. CASE ecma119_image_new
  <2>1. RingSound'
    BY <1>2, SameRing DEF ecma119_image_new
  <2>2. r_pc = "new" /\ w_pc = "none" /\ rend = 0 /\ wend = 0 /\ ~wthread_is_running
    BY <1>2 DEF ecma119_image_new
  <2>3. CASE r_pc' = "call" /\ refcount' = 2 /\ wthread_is_running' = TRUE /\ w_pc' = "between"
    BY <1>2, <2>1, <2>2, <2>3 DEF ecma119_image_new
  <2>4. CASE r_pc' = "call" /\ UNCHANGED <<refcount, wthread_is_running, w_pc>>
    BY <1>2, <2>1, <2>2, <2>4 DEF ecma119_image_new
  <2>5. CASE r_pc' = "done" /\ refcount' = 0 /\ UNCHANGED <<wthread_is_running, w_pc>>
    BY <1>2, <2>1, <2>2, <2>5 DEF ecma119_image_new
  <2>6. QED
    BY <1>2, <2>3, <2>4, <2>5, Zenon DEF ecma119_image_new
<1>3. CASE \E n \in 1..MaxRead : bs_read(n)
  <2>1. RingSound'
    BY <1>3, SameRing DEF bs_read
  <2>2. QED
    BY <1>3, <2>1 DEF bs_read
<1>4. CASE bs_cancel
  <2>1. RingSound'
    BY <1>4, SameRing DEF bs_cancel
  <2>2. QED
    BY <1>4, <2>1 DEF bs_cancel
<1>5. CASE bs_free_data
  <2>1. RingSound'
    BY <1>5, SameRing DEF bs_free_data
  <2>2. iso_ring_buffer_get_buf_status < 4 <=> rend = 0
    BY DEF iso_ring_buffer_get_buf_status
  <2>3. CASE rend = 0
    BY <1>5, <2>1, <2>2, <2>3, Zenon DEF bs_free_data
  <2>4. CASE rend # 0
    BY <1>5, <2>1, <2>2, <2>4, Zenon DEF bs_free_data
  <2>5. QED
    BY <2>3, <2>4
<1>6. CASE close
  <2>1. RingSound'
    BY <1>6, SameRing DEF close, iso_ring_buffer_reader_close
  <2>2. QED
    BY <1>6, <2>1 DEF close, iso_ring_buffer_reader_close, signal_full
<1>7. CASE join
  <2>1. RingSound'
    BY <1>7, SameRing DEF join
  <2>2. QED
    BY <1>7, <2>1, Zenon DEF join
<1>8. CASE free
  <2>1. RingSound'
    BY <1>8, SameRing DEF free
  <2>2. QED
    BY <1>8, <2>1 DEF free, ecma119_image_free
<1>9. CASE spurious_wakeup
  <2>1. RingSound'
    BY <1>9, SameRing DEF spurious_wakeup
  <2>2. CASE r_pc = "wait" /\ r_pc' = "read" /\ UNCHANGED w_pc
    BY <1>9, <2>1, <2>2 DEF spurious_wakeup
  <2>3. CASE w_pc = "wait" /\ w_pc' = "write" /\ UNCHANGED r_pc
    BY <1>9, <2>1, <2>3 DEF spurious_wakeup
  <2>4. QED
    BY <1>9, <2>2, <2>3 DEF spurious_wakeup
<1>10. QED
  BY <1>1, <1>2, <1>3, <1>4, <1>5, <1>6, <1>7, <1>8, <1>9, ReadIInv, Zenon DEF in_call

\* No step of either thread leaves the invariant.
LEMMA NextIInv == IInv /\ [Next]_vars => IInv'
<1> SUFFICES ASSUME IInv, [Next]_vars
             PROVE  IInv'
  OBVIOUS
<1>1. CASE Next
  BY <1>1, ThreadIInv, ConsumerIInv DEF Next
<1>2. CASE UNCHANGED vars
  <2>1. RingSound'
    BY <1>2, SameRing DEF IInv, vars, ring
  <2>2. QED
    BY <1>2, <2>1 DEF IInv, vars, ring, writer, consumer, TypeOK, ThreadsSound, RefSound
<1>3. QED
  BY <1>1, <1>2

\* The invariant holds throughout every run of the image source.
LEMMA Invariant == Spec => []IInv
  BY InitIInv, NextIInv, PTL DEF Spec

----------------------------------------------------------------------------
(* Results                                                                  *)

\* The ring's counters and positions keep their ranges whatever the sizes of
\* the ring, of the image, of the writes and of the reads.
THEOREM TypeCorrect == Spec => []TypeOK
  BY Invariant, PTL DEF IInv

\* bs_free_data frees the image and its ring only after the thread is done with
\* them, whether or not bs_cancel ran before.
THEOREM FreedOnce == Spec => []NoUseAfterFree
<1>1. IInv => NoUseAfterFree
  BY DEF IInv, TypeOK, RefSound, NoUseAfterFree
<1>2. QED
  BY <1>1, Invariant, PTL

\* A step of the ring is a step of the stream or leaves it alone.
LEMMA Simulation ==
    ASSUME IInv, [Next]_vars
    PROVE  [Stream!Next]_(Stream!vars)
<1>1. CASE iso_ring_buffer_write
  <2>1. CASE size < Cap /\ put
    <3>1. /\ RingSound' /\ size' \in 0..Cap
          /\ sent' \in 0..Total /\ sent' > sent
      BY <1>1, <2>1, PutRing DEF iso_ring_buffer_write
    <3>2. sent' \in (sent + 1)..Total /\ sent' - taken <= Cap
      BY <2>1, <3>1, IsoRingAssumption DEF IInv, TypeOK, RingSound, put
    <3>3. wend = 0
      BY <1>1 DEF IInv, ThreadsSound, iso_ring_buffer_write
    <3>4. Stream!Send
      BY <2>1, <3>2, <3>3 DEF Stream!Send, put
    <3>5. QED
      BY <3>4 DEF Stream!Next
  <2>2. CASE full
    BY <2>2 DEF full, ring, consumer, Stream!vars
  <2>3. QED
    BY <1>1, <2>1, <2>2 DEF iso_ring_buffer_write
<1>2. CASE iso_ring_buffer_read
  <2>1. CASE size > 0 /\ get
    <3>1. /\ taken' \in (taken + 1)..sent
          /\ dest' = [i \in 1..(taken' - taken) |-> taken + i]
      BY <1>2, <2>1, GetRing DEF iso_ring_buffer_read
    <3>2. Stream!Deliver
      BY <2>1, <3>1, Zenon DEF Stream!Deliver, get
    <3>3. QED
      BY <3>2 DEF Stream!Next
  <2>2. CASE empty /\ wend # 0
    <3>1. taken = sent
      BY <2>2 DEF IInv, TypeOK, RingSound, empty
    <3>2. Stream!Eof
      BY <2>2, <3>1 DEF Stream!Eof, empty, ring
    <3>3. QED
      BY <3>2 DEF Stream!Next
  <2>3. CASE empty /\ wend = 0
    BY <2>3 DEF empty, ring, Stream!vars
  <2>4. QED
    BY <1>2, <2>1, <2>2, <2>3 DEF iso_ring_buffer_read
<1>3. CASE write_ends
  <2>1. wend = 0 /\ sent = Total
    BY <1>3 DEF IInv, ThreadsSound, write_ends
  <2>2. Stream!End
    BY <1>3, <2>1 DEF Stream!End, write_ends, iso_ring_buffer_writer_close
  <2>3. QED
    BY <2>2 DEF Stream!Next
<1>4. CASE write_error
  <2>1. Stream!End
    BY <1>4 DEF Stream!End, write_error, iso_ring_buffer_writer_close
  <2>2. QED
    BY <2>1 DEF Stream!Next
<1>5. CASE \/ \E n \in 1..MaxWrite : iso_write(n)
           \/ write_fails \/ finish_libjte \/ write_frees \/ write_checks
  BY <1>5 DEF iso_write, write_fails, finish_libjte, write_frees, write_checks, ring, consumer,
              Stream!vars
<1>6. CASE \/ \E n \in 1..Cap : overwrite_head(n)
           \/ ecma119_image_new
           \/ \E n \in 1..MaxRead : bs_read(n)
           \/ bs_cancel \/ bs_free_data
  BY <1>6 DEF overwrite_head, ecma119_image_new, bs_read, bs_cancel, bs_free_data, ring,
              consumer, Stream!vars
<1>7. CASE close \/ join \/ free \/ spurious_wakeup \/ UNCHANGED vars
  BY <1>7 DEF close, iso_ring_buffer_reader_close, join, free, spurious_wakeup, vars, ring,
              consumer, Stream!vars
<1>8. QED
  BY <1>1, <1>2, <1>3, <1>4, <1>5, <1>6, <1>7 DEF Next, write_function, in_call

\* The image source implements the stream: for a ring of any size the consumer
\* gets the bytes in order and whole, and the end only at the end.
THEOREM RingImplementsStream == Spec => Implements
<1>1. Init => Stream!Init
  BY DEF Init, Stream!Init
<1>2. IInv /\ [Next]_vars => [Stream!Next]_(Stream!vars)
  BY Simulation
<1>3. QED
  BY <1>1, <1>2, Invariant, PTL DEF Spec, Implements, Stream!Spec

=============================================================================
