----------------------------- MODULE ByteStream -----------------------------
(***************************************************************************)
(* What the source of an image promises to the program that writes it to a *)
(* medium: the bytes 1..Total arrive in order, none twice, none left out,  *)
(* with at most Cap of them under way.  The end is announced only when     *)
(* nothing is under way any more, and an image that ended well is whole.   *)
(***************************************************************************)
EXTENDS Integers

CONSTANTS Cap, Total

VARIABLES sent,    \* bytes produced
          taken,   \* bytes delivered
          dest,    \* the bytes of the last delivery
          ended,   \* 0 while the producer works, 1 after success, 2 after failure
          result   \* what the last delivery was: "data" or "eof"

vars == <<sent, taken, dest, ended, result>>

Init ==
    /\ sent = 0 /\ taken = 0
    /\ dest = [i \in {} |-> 0]
    /\ ended = 0
    /\ result = "none"

Send ==
    /\ ended = 0
    /\ sent' \in (sent + 1)..Total
    /\ sent' - taken <= Cap
    /\ UNCHANGED <<taken, dest, ended, result>>

Deliver ==
    /\ taken' \in (taken + 1)..sent
    /\ dest' = [i \in 1..(taken' - taken) |-> taken + i]
    /\ result' = "data"
    /\ UNCHANGED <<sent, ended>>

Eof ==
    /\ ended # 0 /\ taken = sent
    /\ result' = "eof"
    /\ UNCHANGED <<sent, taken, dest, ended>>

\* A producer that has ended well may still report a failure afterwards.
End ==
    /\ \/ ended = 0 /\ sent = Total /\ ended' = 1
       \/ ended' = 2
    /\ UNCHANGED <<sent, taken, dest, result>>

Next == Send \/ Deliver \/ Eof \/ End

Spec == Init /\ [][Next]_vars

=============================================================================
