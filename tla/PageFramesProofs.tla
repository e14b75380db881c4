------------------------- MODULE PageFramesProofs --------------------------
(***************************************************************************)
(* The free-page count of the page frame allocator is exact, for every     *)
(* memory size and layout.                                                 *)
(***************************************************************************)
EXTENDS PageFrames, FiniteSetTheorems, TLAPS

\* The page numbers of memory are a finite set of bitmap indices.
LEMMA PagesFinite ==
    /\ total_pages \in Nat
    /\ RamPage \subseteq Page
    /\ \A S : S \subseteq RamPage => IsFiniteSet(S) /\ Cardinality(S) \in Nat
<1> USE LayoutAssumption
<1>1. total_pages \in Nat /\ total_pages <= PFA_MAX_PAGES
  BY DEF total_pages
<1>2. RamPage \subseteq Page
  BY <1>1 DEF RamPage, Page
<1>3. IsFiniteSet(RamPage)
  BY <1>1, FS_Interval DEF RamPage
<1>4. QED
  BY <1>1, <1>2, <1>3, FS_Subset, FS_CardinalityType

\* The pages of two disjoint ranges are counted by adding their sizes.
LEMMA DisjointUnion ==
    ASSUME NEW S, NEW T, IsFiniteSet(S), IsFiniteSet(T), S \cap T = {}
    PROVE  Cardinality(S \cup T) = Cardinality(S) + Cardinality(T)
<1>1. Cardinality(S \cup T) = Cardinality(S) + Cardinality(T) - Cardinality(S \cap T)
  BY ONLY IsFiniteSet(S), IsFiniteSet(T), FS_Union
<1>2. Cardinality(S \cap T) = 0
  BY FS_EmptySet
<1>3. Cardinality(S) \in Nat /\ Cardinality(T) \in Nat
  BY FS_CardinalityType
<1>4. QED
  BY ONLY <1>1, <1>2, <1>3

\* pfa_init counts each page it clears once, and discounts each page it marks
\* again once.
LEMMA InitCountExact ==
    /\ Cleared \subseteq RamPage
    /\ InitCount = Cardinality(Cleared \ Remarked)
<1> USE LayoutAssumption, PagesFinite
<1>1. /\ Range1 \subseteq RamPage /\ Range2 \subseteq RamPage /\ Range3 \subseteq RamPage
      /\ Range1 \cap Range2 = {} /\ (Range1 \cup Range2) \cap Range3 = {}
  BY DEF Range1, Range2, Range3, RamPage
<1>2. Cleared \subseteq RamPage /\ Remarked \subseteq Cleared
  BY <1>1 DEF Cleared, Remarked
<1>3. Cardinality(Range1 \cup Range2) = Cardinality(Range1) + Cardinality(Range2)
  <2>1. IsFiniteSet(Range1) /\ IsFiniteSet(Range2)
    BY <1>1
  <2>2. QED
    BY ONLY <1>1, <2>1, DisjointUnion
<1>4. Cardinality(Cleared) = Cardinality(Range1 \cup Range2) + Cardinality(Range3)
  <2>1. IsFiniteSet(Range1 \cup Range2) /\ IsFiniteSet(Range3)
    BY <1>1
  <2>2. QED
    BY ONLY <1>1, <2>1, DisjointUnion DEF Cleared
<1>5. Cardinality(Cleared \ Remarked) = Cardinality(Cleared) - Cardinality(Remarked)
  <2>1. IsFiniteSet(Cleared) /\ Cleared \cap Remarked = Remarked
    BY <1>2
  <2>2. Cardinality(Cleared \ Remarked) = Cardinality(Cleared) - Cardinality(Cleared \cap Remarked)
    BY ONLY <2>1, FS_Difference
  <2>3. QED
    BY ONLY <2>1, <2>2
<1>6. /\ Cardinality(Range1) \in Nat /\ Cardinality(Range2) \in Nat
      /\ Cardinality(Range3) \in Nat /\ Cardinality(Remarked) \in Nat
  BY <1>1, <1>2
<1>7. InitCount = Cardinality(Cleared \ Remarked)
  BY ONLY <1>3, <1>4, <1>5, <1>6 DEF InitCount
<1>8. QED
  BY <1>2, <1>7

IInv == TypeOK /\ FreeCountExact

\* pfa_init establishes the invariant.
LEMMA InitIInv == Init => IInv
<1> SUFFICES ASSUME pfa_init PROVE IInv
  BY DEF Init
<1>1. RamPage \ used = Cleared \ Remarked
  BY InitCountExact, PagesFinite DEF pfa_init
<1>2. free_pages = Cardinality(RamPage \ used)
  BY <1>1, InitCountExact DEF pfa_init
<1>3. free_pages \in Nat
  BY <1>2, PagesFinite
<1>4. used \subseteq Page /\ Page \ RamPage \subseteq used
  BY InitCountExact DEF pfa_init
<1>5. QED
  BY <1>2, <1>3, <1>4 DEF IInv, TypeOK, FreeCountExact

\* pfa_alloc_frame turns one clear bit into a set one and counts it.
LEMMA AllocIInv ==
    ASSUME IInv, NEW p \in RamPage, pfa_alloc_frame(p)
    PROVE  IInv'
<1>1. p \notin used /\ used' = used \cup {p} /\ free_pages' = free_pages - 1
  BY DEF pfa_alloc_frame, FirstClear
<1>2. RamPage \ used' = (RamPage \ used) \ {p}
  BY <1>1
<1>3. IsFiniteSet(RamPage \ used) /\ Cardinality(RamPage \ used) \in Nat
  BY PagesFinite
<1>4. Cardinality(RamPage \ used') = Cardinality(RamPage \ used) - 1
  BY <1>1, <1>2, <1>3, FS_RemoveElement, Zenon
<1>5. Cardinality(RamPage \ used') \in Nat
  BY PagesFinite
<1>6. QED
  BY <1>1, <1>4, <1>5, PagesFinite DEF IInv, TypeOK, FreeCountExact

\* pfa_free_frame clears a bit and counts it only if the bit was set and the
\* page exists.
LEMMA FreeIInv ==
    ASSUME IInv, NEW p, pfa_free_frame(p)
    PROVE  IInv'
<1> DEFINE S == {p} \cap RamPage \cap used
<1>1. used' = used \ ({p} \cap RamPage) /\ free_pages' = free_pages + Cardinality(S)
  BY DEF pfa_free_frame, pfa_free_frames
<1>2. RamPage \ used' = (RamPage \ used) \cup S
  BY <1>1
<1>3. /\ IsFiniteSet(RamPage \ used) /\ IsFiniteSet(S)
      /\ Cardinality(RamPage \ used) \in Nat /\ Cardinality(S) \in Nat
      /\ (RamPage \ used) \cap S = {}
  BY PagesFinite
<1>4. Cardinality((RamPage \ used) \cup S) = Cardinality(RamPage \ used) + Cardinality(S)
  BY <1>3, FS_Union, FS_EmptySet
<1> HIDE DEF S
<1>5. FreeCountExact' /\ free_pages' \in Nat
  <2>1. Cardinality(RamPage \ used') = Cardinality(RamPage \ used) + Cardinality(S)
    BY <1>2, <1>4
  <2>2. free_pages = Cardinality(RamPage \ used)
    BY DEF IInv, FreeCountExact
  <2>3. free_pages' = Cardinality(RamPage \ used')
    BY <1>1, <2>1, <2>2
  <2>4. free_pages' \in Nat
    BY <1>1, <1>3, <2>2
  <2>5. QED
    BY <2>3, <2>4 DEF FreeCountExact
<1>6. used' \subseteq Page /\ Page \ RamPage \subseteq used'
  BY <1>1 DEF IInv, TypeOK
<1>7. QED
  BY <1>5, <1>6 DEF IInv, TypeOK

\* Every call keeps the invariant.
LEMMA NextIInv == IInv /\ [Next]_pfaVars => IInv'
<1> SUFFICES ASSUME IInv, [Next]_pfaVars PROVE IInv'
  OBVIOUS
<1>1. CASE UNCHANGED pfaVars
  BY <1>1 DEF pfaVars, IInv, TypeOK, FreeCountExact
<1>2. QED
  BY <1>1, AllocIInv, FreeIInv DEF Next

\* pfa_free_pages equals the number of clear bits after any sequence of
\* pfa_alloc_frame and pfa_free_frame calls, on any memory layout.
THEOREM FreeCountIsExact == Spec => []FreeCountExact
<1>1. IInv => FreeCountExact
  BY DEF IInv
<1>2. QED
  BY <1>1, InitIInv, NextIInv, PTL DEF Spec

\* No bit beyond the end of memory is ever cleared.
THEOREM BitmapTyped == Spec => []TypeOK
<1>1. IInv => TypeOK
  BY DEF IInv
<1>2. QED
  BY <1>1, InitIInv, NextIInv, PTL DEF Spec

============================================================================
