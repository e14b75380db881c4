---------------------------- MODULE PageFrames -----------------------------
(***************************************************************************)
(* The page frame allocator (kernel/mm/pfa.c): a bitmap with one bit per   *)
(* 4 KB page, and a count of the free pages kept beside it.  The bitmap is *)
(* the set `used' of the pages whose bit is 1.  The page numbers of the    *)
(* memory map are constants.                                               *)
(***************************************************************************)
EXTENDS Integers, FiniteSets

CONSTANTS
    PFA_MAX_PAGES,   \* bits in the bitmap
    TOTAL_PAGES,     \* the argument of pfa_init
    GapLo, GapHi,    \* 0x98..0xB7
    HighLo, HighHi,  \* 0xB9..0xFF
    ExtLo,           \* 259: first page above the page tables
    BssLo, BssEnd,   \* BSS pages, BssEnd excluded
    BitmapLo, BitmapHi

ASSUME LayoutAssumption ==
    /\ {PFA_MAX_PAGES, TOTAL_PAGES, GapLo, GapHi, HighLo, HighHi, ExtLo,
        BssLo, BssEnd, BitmapLo, BitmapHi} \subseteq Nat
    /\ GapHi < HighLo
    /\ GapHi < ExtLo
    /\ HighHi < ExtLo

VARIABLES used,       \* pfa_bitmap
          free_pages  \* pfa_free_pages

pfaVars == <<used, free_pages>>

Page == 0..(PFA_MAX_PAGES - 1)

\* pfa_total_pages, after the limit in pfa_init.
total_pages == IF TOTAL_PAGES > PFA_MAX_PAGES THEN PFA_MAX_PAGES ELSE TOTAL_PAGES

RamPage == 0..(total_pages - 1)

----------------------------------------------------------------------------
(* pfa_init: every bit is set, three ranges are cleared and counted, then   *)
(* the pages of the BSS and of the bitmap are set again and discounted.     *)

Range1 == (GapLo..GapHi) \cap RamPage
Range2 == (HighLo..HighHi) \cap RamPage
Range3 == ExtLo..(total_pages - 1)

Cleared == Range1 \cup Range2 \cup Range3

Remarked == Cleared \cap ((BssLo..(BssEnd - 1)) \cup (BitmapLo..BitmapHi))

InitCount ==
    Cardinality(Range1) + Cardinality(Range2) + Cardinality(Range3) - Cardinality(Remarked)

pfa_init ==
    /\ used = Page \ (Cleared \ Remarked)
    /\ free_pages = InitCount

----------------------------------------------------------------------------

\* The first clear bit of the bitmap, scanned from bit 0.
FirstClear(p) == p \in Page \ used /\ \A q \in Page : q < p => q \in used

\* pfa_alloc_frame returning the frame of page p; when it returns 0 it has
\* changed nothing.
pfa_alloc_frame(p) ==
    /\ FirstClear(p)
    /\ p < total_pages
    /\ used' = used \cup {p}
    /\ free_pages' = free_pages - 1

\* The bitmap and the count after pfa_free_frame of each page of S in turn.
free_Twice(S) ==
    /\ used' = used \ (S \cap RamPage)
    /\ free_pages' = free_pages + Cardinality(S \cap RamPage)

free_NotCounted(S) ==
    /\ used' = used \ (S \cap RamPage)
    /\ UNCHANGED free_pages

pfa_free_frames(S) ==
    /\ used' = used \ (S \cap RamPage)
    /\ free_pages' = free_pages + Cardinality(S \cap RamPage \cap used)

pfa_free_frame(p) == pfa_free_frames({p})

----------------------------------------------------------------------------
(* The allocator on its own: any sequence of calls, with any argument (all  *)
(* arguments beyond the bitmap behave as the first one).                    *)

Init == pfa_init

Next ==
    \/ \E p \in RamPage : pfa_alloc_frame(p)
    \/ \E p \in 0..PFA_MAX_PAGES : pfa_free_frame(p)

Spec == Init /\ [][Next]_pfaVars

\* Bits and count have their types, and no bit beyond the last page of memory
\* is ever clear.
TypeOK ==
    /\ used \subseteq Page
    /\ free_pages \in Nat
    /\ Page \ RamPage \subseteq used

\* pfa_free_pages is the number of clear bits, whatever is freed: twice, never
\* allocated, or out of range.
FreeCountExact == free_pages = Cardinality(RamPage \ used)

============================================================================
