------------------------------- MODULE Fat12 -------------------------------
(***************************************************************************)
(* The FAT12 file system of fat12.c on one disk.  Memory holds the FAT and *)
(* the root directory; the disk holds two copies of the FAT, the directory *)
(* and the data.  Every sector write is a step, which may fail, and the    *)
(* power may go between any two: a copy of the FAT is several sectors, and *)
(* an entry may lie in two of them.  A file is a sequence of clusters, one *)
(* sector each.                                                            *)
(***************************************************************************)
EXTENDS Fat12Table, FiniteSets, Sequences, SequencesExt, FiniteSetsExt

CONSTANTS Name, Value,
          Clusters,     \* number of data clusters
          SectorBytes,  \* bpb_bytes_per_sec
          RootEntries,  \* bpb_root_entries
          MaxLen,       \* longest file written, in clusters
          MaxLate       \* bound: calls after the first failure

ASSUME Fat12Assumption ==
    /\ Clusters \in 1..4000 /\ SectorBytes \in Nat \ {0} /\ RootEntries \in 1..224 /\ MaxLen \in 1..512 /\ MaxLate \in Nat
    /\ Name \cap {"END", "E5", "LABEL"} = {}

VARIABLES fat_table, root_dir,   \* in memory
          mounted,               \* current_fs_type of fs.c is FS_FAT12
          fats, dir, data,       \* on the disk
          op,                    \* the call in progress
          kept,                  \* history: per name, {} or {the contents last promised}
          victims,               \* history: names about which nothing is promised
          late,                  \* history: calls begun after the first failure
          torn                   \* history: the tables (0 in memory, 1 and 2 on the
                                 \* disk) of which only some sectors were written

memory == <<fat_table, root_dir>>
disk == <<fats, dir, data>>
vars == <<memory, mounted, disk, op, kept, victims, late, torn>>

Cluster == 2..Clusters + 1
Slot == 1..RootEntries
Content == {[i \in 1..n |-> v] : n \in 0..MaxLen, v \in Value}

Idle == [pc |-> "idle"]

----------------------------------------------------------------------------
(* Cluster chains.                                                          *)

InChain(c) == c >= 2 /\ c < FAT12_CLUSTER_BAD

\* The clusters a loop over the chain of c visits in its first Clusters + 1 turns.
Chain(t, c) ==
    LET walk[i \in 0..Clusters + 1] ==
            IF i = 0 THEN <<c>>
            ELSE LET w == walk[i - 1]
                 IN  IF InChain(Last(w)) THEN Append(w, fat12_get_next_cluster(t, Last(w))) ELSE w
    IN  SelectSeq(walk[Clusters + 1], InChain)

fat12_free_cluster_chain(t, c) ==
    FoldLeft(LAMBDA u, d : fat12_set_next_cluster(u, d, FAT12_CLUSTER_FREE), t, Chain(t, c))

FreeClusters(t) == {c \in Cluster : fat12_get_next_cluster(t, c) = FAT12_CLUSTER_FREE}

alloc_NoMark(s) ==
    LET cl == Min(FreeClusters(s.fat))
    IN  [s EXCEPT !.chain = Append(@, cl),
                  !.fat = IF s.chain = <<>> THEN @ ELSE fat12_set_next_cluster(@, Last(s.chain), cl)]

\* One turn of the allocation loop: take the first free cluster, mark it as the
\* end, and link the previous one to it.
fat12_alloc_cluster(s) ==
    LET cl == Min(FreeClusters(s.fat))
        marked == fat12_set_next_cluster(s.fat, cl, FAT12_CLUSTER_END_MIN)
    IN  [s EXCEPT !.chain = Append(@, cl),
                  !.fat = IF s.chain = <<>> THEN marked
                          ELSE fat12_set_next_cluster(marked, Last(s.chain), cl)]

AllocChain(t, n) ==
    LET turn[i \in 0..n] ==
            IF i = 0 THEN [fat |-> t, chain |-> <<>>, ok |-> TRUE]
            ELSE LET s == turn[i - 1]
                 IN  IF FreeClusters(s.fat) = {} THEN [s EXCEPT !.ok = FALSE] ELSE fat12_alloc_cluster(s)
    IN  turn[n]

----------------------------------------------------------------------------
(* The directory.  "END" and "E5" are the first bytes 0x00 and 0xE5, "LABEL" *)
(* an entry that the searches skip.                                         *)

\* Where the search for n stops.
Stop(n) == Min({i \in Slot : root_dir[i].name \in {n, "END"}} \cup {RootEntries + 1})

fat12_find_file(n) ==
    IF \E i \in Slot : i = Stop(n) /\ root_dir[i].name = n THEN Stop(n) ELSE 0

free_entry(n) ==
    Min({i \in Slot : i <= Stop(n) /\ root_dir[i].name \in {"E5", "END"}} \cup {RootEntries + 1})

\* What fat12_load_file returns for n, {} if there is no such file.
fat12_load_file(n) ==
    LET e == root_dir[fat12_find_file(n)]
        chain == Chain(fat_table, e.cluster)
    IN  IF fat12_find_file(n) = 0 THEN {}
        ELSE {[i \in 1..Min({e.size, Len(chain)}) |-> data[chain[i]]]}

----------------------------------------------------------------------------
(* History: what callers were promised.                                     *)

NoPromise == [n \in Name |-> {}]

\* A new call, which breaks the promises about the names given.  After a
\* failure the results of calls are no longer followed.
Begin(names) ==
    /\ UNCHANGED torn
    /\ IF victims = {} THEN victims' = names /\ UNCHANGED <<late, kept>>
       ELSE victims' = Name /\ kept' = NoPromise /\ late' = late + 1

\* The call ends without having kept its promise about the names it was given.
Broken(names) == victims' = victims \cup names

\* What a call that succeeds promises.
Promise(f) == IF victims = {} THEN f ELSE NoPromise

Return(ok) ==
    /\ op' = Idle
    /\ IF ok THEN kept' = op.promise /\ UNCHANGED victims
             ELSE UNCHANGED kept /\ Broken(op.names)

----------------------------------------------------------------------------
(* Calls.                                                                   *)

\* Static buffers at boot, and the tables of an empty disk.
ZeroTable == [i \in 0..Offset(Clusters + 1) + 1 |-> 0]
ZeroDir == [i \in Slot |-> [name |-> "END", cluster |-> 0, size |-> 0]]

Init ==
    /\ fat_table = ZeroTable /\ root_dir = ZeroDir
    /\ mounted = FALSE
    /\ fats = [i \in 1..2 |-> ZeroTable] /\ data = [c \in Cluster |-> 0]
    /\ \E first \in {"END", "LABEL"} : dir = [ZeroDir EXCEPT ![1].name = first]
    /\ op = Idle
    /\ kept = NoPromise
    /\ victims = {} /\ late = 0 /\ torn = {}

\* Bound: no call is followed on a FAT that was mounted torn.
Called == op = Idle /\ mounted /\ 0 \notin torn /\ (victims # {} => late < MaxLate)

OldChainFreed(e) ==
    IF InChain(root_dir[e].cluster) THEN fat12_free_cluster_chain(fat_table, root_dir[e].cluster)
    ELSE fat_table

\* Up to the first disk access: the search of the directory, the release of the
\* old chain, the allocation of the new one.  A full directory changes nothing.
fat12_write_file(n, s) ==
    LET old == fat12_find_file(n)
        e == IF old # 0 THEN old ELSE free_entry(n)
        freed == IF old # 0 THEN OldChainFreed(old) ELSE fat_table
        new == AllocChain(freed, Len(s))
    IN  /\ Called
        /\ e \in Slot
        /\ IF new.ok
           THEN /\ fat_table' = new.fat
                /\ op' = [pc |-> IF s = <<>> THEN "dir" ELSE "data", kind |-> "write", at |-> e,
                          entry |-> [name |-> n, cluster |-> IF s = <<>> THEN 0 ELSE new.chain[1], size |-> Len(s)],
                          chain |-> new.chain, rest |-> s, sector |-> 0, names |-> {n}, promise |-> Promise([kept EXCEPT ![n] = {s}]),
                          ok |-> TRUE]
                /\ Begin({})
           ELSE /\ fat_table' = IF new.chain = <<>> THEN new.fat
                                ELSE fat12_free_cluster_chain(new.fat, new.chain[1])
                /\ Begin(IF freed = fat_table THEN {} ELSE {n})
                /\ UNCHANGED op
        /\ UNCHANGED <<root_dir, mounted, disk>>

\* One data sector.
write_data(ok) ==
    /\ op.pc = "data"
    /\ IF ok
       THEN LET i == Len(op.chain) - Len(op.rest) + 1
            IN  /\ data' = [data EXCEPT ![op.chain[i]] = Head(op.rest)]
                /\ op' = [op EXCEPT !.rest = Tail(@), !.pc = IF Len(op.rest) = 1 THEN "dir" ELSE "data"]
                /\ UNCHANGED <<fat_table, victims>>
       ELSE /\ fat_table' = fat12_free_cluster_chain(fat_table, op.chain[1])
            /\ op' = [op EXCEPT !.pc = "fat1", !.ok = FALSE]
            /\ Broken(op.names)
            /\ UNCHANGED data
    /\ UNCHANGED <<root_dir, mounted, fats, dir, kept, late, torn>>

delete_KeepChain(n) ==
    /\ Called
    /\ fat12_find_file(n) # 0
    /\ op' = [pc |-> "dir", kind |-> "delete", at |-> fat12_find_file(n),
              entry |-> [root_dir[fat12_find_file(n)] EXCEPT !.name = "E5"],
              chain |-> <<>>, rest |-> <<>>, sector |-> 0, names |-> {n}, promise |-> Promise([kept EXCEPT ![n] = {}]), ok |-> TRUE]
    /\ Begin({})
    /\ UNCHANGED <<memory, mounted, disk>>

fat12_delete_file(n) ==
    LET e == fat12_find_file(n)
    IN  /\ Called
        /\ e # 0
        /\ fat_table' = OldChainFreed(e)
        /\ op' = [pc |-> "dir", kind |-> "delete", at |-> e, entry |-> [root_dir[e] EXCEPT !.name = "E5"],
                  chain |-> <<>>, rest |-> <<>>, sector |-> 0, names |-> {n}, promise |-> Promise([kept EXCEPT ![n] = {}]), ok |-> TRUE]
        /\ Begin({})
        /\ UNCHANGED <<root_dir, mounted, disk>>

\* Nothing tests whether the new name is taken: from such a call on, neither
\* name is followed.
fat12_rename_file(n, m) ==
    LET e == fat12_find_file(n)
        taken == n # m /\ fat12_find_file(m) # 0
    IN  /\ Called
        /\ e # 0
        /\ op' = [pc |-> "dir", kind |-> "rename", at |-> e, entry |-> [root_dir[e] EXCEPT !.name = m],
                  chain |-> <<>>, rest |-> <<>>, sector |-> 0, names |-> {n, m},
                  promise |-> Promise([kept EXCEPT ![n] = {}, ![m] = kept[n]]), ok |-> TRUE]
        /\ Begin(IF taken THEN {n, m} ELSE {})
        /\ UNCHANGED <<memory, mounted, disk>>

entry_NameOnly(ok) ==
    /\ op.pc = "dir"
    /\ root_dir' = [root_dir EXCEPT ![op.at] = op.entry]
    /\ dir' = IF ok THEN [dir EXCEPT ![op.at].name = op.entry.name] ELSE dir
    /\ IF ok /\ op.kind # "rename"
       THEN op' = [op EXCEPT !.pc = "fat1"] /\ UNCHANGED <<kept, victims>>
       ELSE Return(ok)
    /\ UNCHANGED <<fat_table, mounted, fats, data, late, torn>>

\* The entry in memory, and its sector: read, changed and written back.  A write
\* stores the whole entry, the other calls only the name.
write_entry(ok) ==
    /\ op.pc = "dir"
    /\ root_dir' = [root_dir EXCEPT ![op.at] = op.entry]
    /\ dir' = IF ~ok THEN dir
              ELSE IF op.kind = "write" THEN [dir EXCEPT ![op.at] = op.entry]
              ELSE [dir EXCEPT ![op.at].name = op.entry.name]
    /\ IF ok /\ op.kind # "rename"
       THEN op' = [op EXCEPT !.pc = "fat1"] /\ UNCHANGED <<kept, victims>>
       ELSE Return(ok)
    /\ UNCHANGED <<fat_table, mounted, fats, data, late, torn>>

\* Sector k of a copy is overwritten with that of the table in memory.
LastSector == (Offset(Clusters + 1) + 1) \div SectorBytes

Patched(copy, k) ==
    [o \in DOMAIN copy |-> IF o \div SectorBytes = k THEN fat_table[o] ELSE copy[o]]

flush_First(ok) ==
    /\ op.pc \in {"fat1", "fat2"}
    /\ fats' = IF ok /\ op.pc = "fat1" THEN [fats EXCEPT ![1] = fat_table] ELSE fats
    /\ IF ok /\ op.pc = "fat1"
       THEN op' = [op EXCEPT !.pc = "fat2"] /\ UNCHANGED <<kept, victims>>
       ELSE Return(ok /\ op.ok)
    /\ UNCHANGED <<memory, mounted, dir, data, late, torn>>

\* One sector of one copy of the FAT.
fat12_flush_fat(ok) ==
    LET i == IF op.pc = "fat1" THEN 1 ELSE 2
        last == op.sector = LastSector
    IN  /\ op.pc \in {"fat1", "fat2"}
        /\ IF ok
           THEN /\ fats' = [fats EXCEPT ![i] = Patched(@, op.sector)]
                /\ torn' = IF last /\ 0 \notin torn THEN torn \ {i} ELSE torn \cup {i}
           ELSE UNCHANGED <<fats, torn>>
        /\ IF ok /\ ~(last /\ i = 2)
           THEN /\ op' = [op EXCEPT !.pc = IF last THEN "fat2" ELSE @, !.sector = IF last THEN 0 ELSE @ + 1]
                /\ UNCHANGED <<kept, victims>>
           ELSE Return(ok /\ op.ok)
        /\ UNCHANGED <<memory, mounted, dir, data, late>>

\* Mounting reads the first FAT, then the directory; the second read may fail.
fat12_init_common(ok) ==
    /\ ~mounted
    /\ fat_table' = fats[1]
    /\ torn' = IF 1 \in torn THEN torn \cup {0} ELSE torn \ {0}
    /\ root_dir' = IF ok THEN dir ELSE root_dir
    /\ mounted' = ok
    /\ UNCHANGED <<disk, op, kept, victims, late>>

\* Another drive is selected.
fs_switch_drive ==
    /\ op = Idle /\ mounted
    /\ mounted' = FALSE
    /\ UNCHANGED <<memory, disk, op, kept, victims, late, torn>>

\* The power goes in the middle of a call and the kernel starts again.
power_cut ==
    /\ op # Idle
    /\ op' = Idle
    /\ fat_table' = ZeroTable /\ root_dir' = ZeroDir
    /\ mounted' = FALSE
    /\ torn' = torn \ {0}
    /\ Broken(op.names)
    /\ UNCHANGED <<disk, kept, late>>

Next ==
    \/ \E n \in Name : \/ \E s \in Content : fat12_write_file(n, s)
                       \/ fat12_delete_file(n)
                       \/ \E m \in Name : fat12_rename_file(n, m)
    \/ \E ok \in BOOLEAN : write_data(ok) \/ write_entry(ok) \/ fat12_flush_fat(ok) \/ fat12_init_common(ok)
    \/ fs_switch_drive
    \/ power_cut

Spec == Init /\ [][Next]_vars

\* Names and values are interchangeable.
Symmetry == Permutations(Name) \cup Permutations(Value)

----------------------------------------------------------------------------
(* Properties.                                                              *)

TableOK(t) == \A c \in Cluster : fat12_get_next_cluster(t, c) \in Cluster \cup {FAT12_CLUSTER_FREE, FAT12_CLUSTER_END_MIN}

Tables == [i \in 0..2 |-> IF i = 0 THEN fat_table ELSE fats[i]]

\* Every FAT, in memory or on the disk, holds bytes; if it was written whole they
\* decode to free, end, or a cluster of the disk; directory entries start at 0 or
\* at a cluster.
TypeOK ==
    /\ torn \subseteq 0..2
    /\ \A i \in 0..2 : Tables[i] \in [DOMAIN fat_table -> Byte] /\ (i \notin torn => TableOK(Tables[i]))
    /\ \A i \in Slot : \A e \in {root_dir[i], dir[i]} :
          e.name \in Name \cup {"END", "E5", "LABEL"} /\ e.cluster \in Cluster \cup {0} /\ e.size \in 0..MaxLen
    /\ mounted \in BOOLEAN /\ victims \subseteq Name

Resting == op = Idle /\ mounted

\* What callers were promised is what a search and a load return, now and after
\* any remount; and a first failure or power cut damages no file but the ones
\* the interrupted call was about.
ReadsBack == Resting => \A n \in Name \ victims : fat12_load_file(n) = kept[n]

Live == {i \in Slot : root_dir[i].name \in Name}

\* Between successful calls the clusters in use are exactly those of the chains
\* of the files, each in one chain: none is shared and none is lost.
NoCrossLinks ==
    Resting /\ victims = {} =>
        LET chain(i) == Chain(fat_table, root_dir[i].cluster)
        IN  /\ Cluster \ FreeClusters(fat_table) = UNION {Range(chain(i)) : i \in Live}
            /\ \A i, j \in Live : i # j => Range(chain(i)) \cap Range(chain(j)) = {}

\* Between successful calls both FATs and the directory on the disk are what
\* memory says.
CopiesAgree ==
    Resting /\ victims = {} => fats[1] = fat_table /\ fats[2] = fat_table /\ dir = root_dir

\* Every chain of a FAT ends, so that fat12_load_file returns, whatever failed
\* before and however files were linked to each other's clusters by it, unless a
\* write of that FAT, or of the one it was mounted from, stopped between two
\* sectors: the whole write that follows makes it good again.
ChainsEnd ==
    \A i \in 0..2 \ torn, c \in Cluster : Len(Chain(Tables[i], c)) <= Clusters

============================================================================
