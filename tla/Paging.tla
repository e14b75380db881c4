------------------------------ MODULE Paging -------------------------------
(***************************************************************************)
(* Two-level paging (kernel/mm/paging.c) over the page frame allocator.    *)
(* page_map takes frames for page tables from the allocator and returns    *)
(* them when the last entry of a table is cleared; the callers own the     *)
(* frames they map.  A page is a pair of a directory and a table index.    *)
(* The MMU caches translations in a TLB that only invlpg empties; entries  *)
(* do not interact, so a TLB of one entry shows every stale one.           *)
(*                                                                         *)
(* The code reaches a page table through the identity mapping of the first *)
(* 8 MB (6 MB without PSE): memory ends there in the model.                *)
(***************************************************************************)
EXTENDS PageFrames

CONSTANTS
    DirIndex,      \* indices of the page directory: 0..k
    TableSize,     \* entries of a page table
    Table0,        \* frame of page_table_0
    Table1,        \* frame of page_table_1, used without PSE
    PSE,           \* whether the CPU has 4 MB pages: the cases to consider
    MMIO,          \* device pages callers map: not memory
    CallerDir      \* directory indices callers use for dynamic mappings

NONE == -1
LARGE == -2          \* a directory entry with PDE_4MB: the identity mapping

TableIndex == 0..(TableSize - 1)
VPage == DirIndex \X TableIndex
Frame == Page \cup MMIO

VARIABLES
    pd,       \* page_directory
    mem,      \* the words of each page, read as page table entries
    owned,    \* frames callers got from pfa_alloc_frame and have not given back
    tlb       \* cached translations, pairs <<vpage, frame>>

vars == <<used, free_pages, pd, mem, owned, tlb>>

----------------------------------------------------------------------------

Identity(d, i) == d * TableSize + i

\* Words of memory that no page table occupies read as some data; what matters
\* is whether PAGE_PRESENT happens to be set in them.  Data is all clear or not.
paging_init ==
  \E pse \in PSE :
    /\ pd = [d \in DirIndex |->
               CASE d = 0 -> Table0
                 [] d = 1 -> IF pse THEN LARGE ELSE Table1
                 [] OTHER -> NONE]
    /\ \E data \in {NONE, 0} :
         mem = [f \in Page |-> [i \in TableIndex |->
                 CASE f = Table0          -> Identity(0, i)
                   [] f = Table1 /\ ~pse   -> IF i < TableSize \div 2 THEN Identity(1, i) ELSE NONE
                   [] OTHER               -> data]]

PagingInit == paging_init /\ pfa_init /\ owned = {} /\ tlb = {}

----------------------------------------------------------------------------

\* The frame the code takes to hold the page table of directory entry d.
TableOf(d) == IF d = 0 THEN Table0 ELSE IF pd[d] = LARGE THEN Identity(1, 0) ELSE pd[d]

page_get_mapping(v) == IF pd[v[1]] = NONE THEN NONE ELSE mem[TableOf(v[1])][v[2]]

\* What the MMU does with the same tables.
Translate(v) ==
    CASE pd[v[1]] = NONE  -> NONE
      [] pd[v[1]] = LARGE -> Identity(v[1], v[2])
      [] OTHER            -> mem[pd[v[1]]][v[2]]

tlb_flush_None(v) == tlb

tlb_flush_page(v) == {e \in tlb : e[1] # v}

SetEntry(m, t, i, f) == [m EXCEPT ![t] = [@ EXCEPT ![i] = f]]

page_map(v, f) ==
    LET d == v[1] IN
    /\ \/ /\ pd[d] # NONE
          /\ mem' = SetEntry(mem, TableOf(d), v[2], f)
          /\ UNCHANGED <<used, free_pages, pd>>
       \/ /\ pd[d] = NONE
          /\ \E t \in RamPage :
               /\ pfa_alloc_frame(t)
               /\ pd' = [pd EXCEPT ![d] = t]
               /\ mem' = SetEntry([mem EXCEPT ![t] = [i \in TableIndex |-> NONE]], t, v[2], f)
    /\ tlb' = tlb_flush_page(v)

page_table_is_empty(m, d) == d # 0 /\ \A i \in TableIndex : m[TableOf(d)][i] = NONE

ReleaseTable_KeepPde(m, d, S) ==
    /\ pd' = pd
    /\ IF page_table_is_empty(m, d) THEN pfa_free_frames(S \cup {TableOf(d)}) ELSE pfa_free_frames(S)

ReleaseTable_NoFree(m, d, S) ==
    /\ pd' = IF page_table_is_empty(m, d) THEN [pd EXCEPT ![d] = NONE] ELSE pd
    /\ pfa_free_frames(S)

\* The end of page_unmap and page_unmap_and_free: m is memory with the entry
\* cleared, and S holds the frame page_unmap_and_free gives back.
ReleaseTable(m, d, S) ==
    IF page_table_is_empty(m, d)
      THEN pd' = [pd EXCEPT ![d] = NONE] /\ pfa_free_frames(S \cup {TableOf(d)})
      ELSE pd' = pd /\ pfa_free_frames(S)

page_unmap(v) ==
    LET d == v[1]
        m == SetEntry(mem, TableOf(d), v[2], NONE)
    IN  /\ pd[d] # NONE
        /\ mem' = m
        /\ tlb' = IF page_get_mapping(v) # NONE THEN tlb_flush_page(v) ELSE tlb
        /\ ReleaseTable(m, d, {})

unmap_and_free_KeepEntry(v) ==
    /\ page_get_mapping(v) # NONE
    /\ mem' = mem
    /\ tlb' = tlb_flush_page(v)
    /\ ReleaseTable(mem, v[1], {page_get_mapping(v)})

page_unmap_and_free(v) ==
    LET d == v[1]
        m == SetEntry(mem, TableOf(d), v[2], NONE)
    IN  /\ page_get_mapping(v) # NONE
        /\ mem' = m
        /\ tlb' = tlb_flush_page(v)
        /\ ReleaseTable(m, d, {page_get_mapping(v)})

----------------------------------------------------------------------------
(* Callers keep to the header: they map device pages or frames they own,    *)
(* each frame once, and use page_unmap_and_free on dynamic mappings only.   *)

Dynamic == CallerDir \X TableIndex

Mapped(f) == \E v \in Dynamic : page_get_mapping(v) = f

caller_alloc ==
    \E p \in RamPage :
      /\ pfa_alloc_frame(p)
      /\ owned' = owned \cup {p}
      /\ UNCHANGED <<pd, mem, tlb>>

caller_free ==
    \E p \in owned :
      /\ ~Mapped(p)
      /\ pfa_free_frame(p)
      /\ owned' = owned \ {p}
      /\ UNCHANGED <<pd, mem, tlb>>

caller_map ==
    \E v \in Dynamic, f \in owned \cup MMIO :
      /\ ~Mapped(f)
      /\ page_map(v, f)
      /\ UNCHANGED owned

caller_unmap == \E v \in Dynamic : page_unmap(v) /\ UNCHANGED owned

caller_unmap_and_free ==
    \E v \in Dynamic :
      /\ page_unmap_and_free(v)
      /\ owned' = owned \ {page_get_mapping(v)}

\* The MMU caches a translation it has walked.
tlb_fill ==
    \E v \in VPage :
      /\ Translate(v) # NONE
      /\ tlb' = {<<v, Translate(v)>>}
      /\ UNCHANGED <<used, free_pages, pd, mem, owned>>

PagingNext ==
    \/ caller_alloc \/ caller_free \/ caller_map \/ caller_unmap \/ caller_unmap_and_free
    \/ tlb_fill

PagingSpec == PagingInit /\ [][PagingNext]_vars

----------------------------------------------------------------------------
(* Properties.                                                              *)

DynamicTables == {pd[d] : d \in CallerDir} \ {NONE}

\* A frame that holds a page table is taken in the bitmap, belongs to no
\* caller, is no table of another directory entry, and is mapped nowhere as
\* data: page tables cannot be overwritten through a mapping.
TablesExclusive ==
    /\ DynamicTables \subseteq used \cap RamPage
    /\ DynamicTables \cap (owned \cup {Table0, Table1}) = {}
    /\ \A d, e \in CallerDir : d # e /\ pd[d] # NONE => pd[d] # pd[e]
    /\ \A v \in Dynamic : page_get_mapping(v) \notin DynamicTables

\* Every frame taken since boot is a page table in use or owned by a caller:
\* no path of page_map, page_unmap or page_unmap_and_free leaks one.
NoFrameLeak == used \cap (Cleared \ Remarked) \subseteq owned \cup DynamicTables

\* A frame given back is mapped nowhere.
FreeIsUnmapped == \A v \in Dynamic : page_get_mapping(v) \notin RamPage \ used

\* No stale translation stays in the TLB: every entry cleared or replaced is
\* flushed.
TlbCoherent == \A e \in tlb : Translate(e[1]) = e[2]

============================================================================
