------------------------------- MODULE Fat32 -------------------------------
(***************************************************************************)
(* The FAT32 driver (kernel/fs/fat32.c) below the drive switch of fs.c.    *)
(* The driver has one set of static variables for all partitions: the      *)
(* layout of the volume mounted last and fat_buf, which caches the first    *)
(* part of its FAT.  Clusters beyond the cache are read from the disk      *)
(* through sector_buf, the buffer that also holds directory sectors.       *)
(*                                                                         *)
(* Every access to the disk is a step, which may fail, and the power may go *)
(* between any two.  A FAT write stores one sector of the cached part; a   *)
(* root directory is one sector.  What files contain is left out:          *)
(* properties are about chains and entries.                                *)
(* fat32_rename_file changes sector_buf, writes nothing and answers false:  *)
(* it has no action.                                                       *)
(***************************************************************************)
EXTENDS Integers, Sequences, FiniteSets, SequencesExt, FiniteSetsExt

CONSTANTS Volume,   \* FAT32 partitions in the drive table
          Name,
          Cached,   \* clusters 2..Cached have their FAT entry in fat_buf
          First,    \* clusters 2..First have it in the first sector of the FAT
          Clusters, \* clusters of a volume: 2..Clusters
          Slots,    \* entries of a root directory
          MaxLen,   \* longest file written, in clusters
          MaxFail   \* bound: failures and power cuts in a behaviour

ASSUME Fat32Assumption ==
    /\ First \in Nat /\ First >= 2 /\ Cached \in Nat /\ Cached > First
    /\ Clusters \in Nat /\ Clusters > Cached /\ Clusters < 100
    /\ Slots \in Nat \ {0} /\ MaxLen \in Nat \ {0} /\ MaxFail \in Nat

VARIABLES
    fat, dir,          \* on the disk, per volume: the first FAT and the root directory
    layout,            \* the volume that the bpb_* variables describe, or "none"
    fat_buf,           \* cached part of a FAT
    current_drive, current_fs_type,   \* of fs.c
    op,                \* the call in progress
    buf_of,            \* history: the volume fat_buf was read from, or "none"
    hurt, untidy,      \* history: volumes on which something went wrong
    fails              \* history: failures so far

disk == <<fat, dir>>
mount == <<layout, fat_buf, buf_of>>
drive == <<current_drive, current_fs_type>>
history == <<hurt, untidy, fails>>
vars == <<disk, mount, drive, op, history>>

FREE == 0
END == 100
Root == 2

Near == Root..Cached
Cluster == Root..Clusters
Slot == 1..Slots

\* The clusters of the cache whose entry is in the sector of that of c.
SameSector(c) == IF c <= First THEN Root..First ELSE (First + 1)..Cached

InChain(c) == c >= 2 /\ c < END

Head83(n) == [name |-> n, cluster |-> 0]
Empty == [i \in Slot |-> Head83("00")]
EmptyFat == [c \in Cluster |-> IF c = Root THEN END ELSE FREE]

Idle == [pc |-> "idle"]

\* A volume is empty, or (at most one) holds a file from another system that
\* starts in the cached part of the FAT and ends outside.
Init ==
    /\ \E far \in {S \in SUBSET Volume : Cardinality(S) <= 1}, n \in Name :
         /\ fat = [v \in Volume |-> IF v \in far THEN [EmptyFat EXCEPT ![Cached] = Clusters, ![Clusters] = END]
                                    ELSE EmptyFat]
         /\ dir = [v \in Volume |-> IF v \in far THEN [Empty EXCEPT ![1] = [name |-> n, cluster |-> Cached]]
                                    ELSE Empty]
    /\ layout = "none" /\ buf_of = "none"
    /\ fat_buf = [c \in Near |-> FREE]
    /\ current_drive = "A" /\ current_fs_type = "NONE"
    /\ op = Idle
    /\ hurt = {} /\ untidy = {} /\ fails = 0

----------------------------------------------------------------------------
(* Failures, and what they are known to damage.                             *)

\* This access to the disk succeeds or not.
Tried(ok) == ok \/ fails < MaxFail

Counted(ok) == fails' = IF ok THEN fails ELSE fails + 1

\* Chains and entries of the volume may no longer fit each other.
Hurt(b) == hurt' = IF b THEN hurt \cup {layout} ELSE hurt

\* Clusters may be lost, or the cache differ from the disk.
Untidy(b) == untidy' = IF b THEN untidy \cup {layout} ELSE untidy

----------------------------------------------------------------------------
(* Mounting.                                                                *)

Outcomes == {"no_boot_sector", "no_fat", "ok"}

\* fat32_init_drive: the layout is set before the FAT is read.
fat32_init_drive(v, r) ==
    /\ layout' = IF r = "no_boot_sector" THEN layout ELSE v
    /\ fat_buf' = IF r = "ok" THEN [c \in Near |-> fat[v][c]] ELSE fat_buf
    /\ buf_of' = IF r = "ok" THEN v ELSE buf_of

init_hdd_Kept(v, r) ==
    /\ Tried(r = "ok") /\ Counted(r = "ok")
    /\ fat32_init_drive(v, r)
    /\ current_fs_type' = IF r = "ok" THEN "FAT32" ELSE current_fs_type
    /\ UNCHANGED <<disk, op, hurt, untidy>>

fs_init_hdd(v, r) ==
    /\ Tried(r = "ok") /\ Counted(r = "ok")
    /\ fat32_init_drive(v, r)
    /\ current_fs_type' = IF r = "ok" THEN "FAT32" ELSE "NONE"
    /\ UNCHANGED <<disk, op, hurt, untidy>>

\* FAT12 has its own variables; the disk may be unreadable.  A CD-ROM, which is
\* never mounted here, leaves the state of an unreadable floppy disk.
fs_init_floppy ==
    /\ current_fs_type' \in {"FAT12", "NONE"}
    /\ UNCHANGED <<disk, mount, op, history>>

\* The letters tried; drive_get_info knows those of the drive table.
Letter == Volume \cup {"A", "Z"}

Registered(d) == d \in Volume \cup {"A"}

AlreadyCurrent(d) == d = current_drive /\ current_fs_type # "NONE"

fs_set_current_drive(d) ==
    /\ op = Idle
    /\ Registered(d) /\ ~AlreadyCurrent(d)
    /\ current_drive' = d
    /\ \/ d \in Volume /\ \E r \in Outcomes : fs_init_hdd(d, r)
       \/ d \notin Volume /\ fs_init_floppy

\* The first file system call after a switch that could not mount.
fs_ensure_init ==
    /\ op = Idle
    /\ current_fs_type = "NONE"
    /\ \/ current_drive \in Volume /\ \E r \in Outcomes : fs_init_hdd(current_drive, r)
       \/ current_drive \notin Volume /\ fs_init_floppy
    /\ UNCHANGED current_drive

----------------------------------------------------------------------------
(* Directory searches, on the mounted layout.                               *)

\* Where a search for n stops.
Stop(n) == Min({i \in Slot : dir[layout][i].name \in {n, "00"}} \cup {Slots + 1})

Find(n) == IF \E i \in Slot : i = Stop(n) /\ dir[layout][i].name = n THEN Stop(n) ELSE 0

FreeSlot == Min({i \in Slot : dir[layout][i].name \in {"00", "E5"}} \cup {Slots + 1})

----------------------------------------------------------------------------
(* The FAT.                                                                 *)

\* The sector of fat_buf' with the entry of c goes to the disk.
Flushed(c) == [fat EXCEPT ![layout] = [d \in Cluster |-> IF d \in SameSector(c) THEN fat_buf'[d] ELSE @[d]]]

\* Nothing happens to a cluster beyond the cache, and a failed write is ignored.
fat32_update_fat(c, value, ok) ==
    /\ fat_buf' = IF c \in Near THEN [fat_buf EXCEPT ![c] = value] ELSE fat_buf
    /\ fat' = IF c \in Near /\ ok THEN Flushed(c) ELSE fat

\* The clusters of the chain of c in table t.
ChainOf(t, c) ==
    LET reach[i \in 0..Clusters] ==
            IF i = 0 THEN {c}
            ELSE LET r == reach[i - 1] IN r \cup ({t[d] : d \in r} \cap Cluster)
    IN  reach[Clusters]

\* The FAT of v as the driver sees it.
Seen(v) == [c \in Cluster |-> IF c \in Near THEN fat_buf[c] ELSE fat[v][c]]

FreeClusters == {c \in Near : fat_buf[c] = FREE}

Return == op' = Idle

----------------------------------------------------------------------------
(* Calls.  fs_write_file and fs_delete_file come through fs.c; the editor   *)
(* and the installer call fat32_write_file, and the MKDIR command           *)
(* fat32_create_dir, whatever drive is current.                             *)

\* Bound: no file call works on a volume that is hurt until it is formatted.
Unhurt == layout \notin hurt

Routed == op = Idle /\ current_fs_type = "FAT32" /\ Unhurt
Direct == op = Idle /\ layout # "none" /\ Unhurt

\* History: with the FAT of another volume in fat_buf, both get mixed.
Owned ==
    /\ Hurt(buf_of # layout)
    /\ buf_of' = IF buf_of # layout THEN "none" ELSE buf_of

Creation(kind, n, len) == [pc |-> "alloc", kind |-> kind, name |-> n, left |-> len, first |-> 0, last |-> 0, prev |-> 0]

fat32_write_file(n, len) ==
    /\ Routed \/ Direct
    /\ op' = Creation("file", n, len)
    /\ Owned
    /\ UNCHANGED <<disk, layout, fat_buf, drive, untidy, fails>>

fat32_create_dir(n) ==
    /\ Direct
    /\ Find(n) = 0
    /\ op' = Creation("dir", n, 1)
    /\ Owned
    /\ UNCHANGED <<disk, layout, fat_buf, drive, untidy, fails>>

alloc_NoMark(ok) ==
    /\ op.pc = "alloc" /\ FreeClusters # {}
    /\ Tried(ok) /\ Counted(ok)
    /\ LET c == Min(FreeClusters)
           first == IF op.first = 0 THEN c ELSE op.first
       IN  op' = [op EXCEPT !.first = first, !.last = c, !.pc = IF op.prev # 0 THEN "link" ELSE "data"]
    /\ UNCHANGED <<disk, mount, drive, hurt, untidy>>

\* fat32_alloc_cluster: the cluster is marked in the cache before the write
\* that may fail.
fat32_alloc_cluster(ok) ==
    /\ op.pc = "alloc" /\ FreeClusters # {}
    /\ Tried(ok) /\ Counted(ok)
    /\ LET c == Min(FreeClusters)
           first == IF op.first = 0 THEN c ELSE op.first
       IN  /\ fat32_update_fat(c, END, ok)
           /\ IF ok THEN op' = [op EXCEPT !.first = first, !.last = c, !.pc = IF op.prev # 0 THEN "link" ELSE "data"]
              ELSE Return
    /\ Untidy(~ok)
    /\ UNCHANGED <<dir, layout, buf_of, drive, hurt>>

\* fat32_write_file keeps what it has allocated so far.
no_free_cluster ==
    /\ op.pc = "alloc" /\ FreeClusters = {}
    /\ Return
    /\ Untidy(op.prev # 0)
    /\ UNCHANGED <<disk, mount, drive, hurt, fails>>

\* The previous cluster gets its successor.
link_cluster(ok) ==
    /\ op.pc = "link"
    /\ Tried(ok) /\ Counted(ok)
    /\ fat32_update_fat(op.prev, op.last, ok)
    /\ op' = [op EXCEPT !.pc = "data"]
    /\ Untidy(~ok)
    /\ UNCHANGED <<dir, layout, buf_of, drive, hurt>>

\* The sectors of the new cluster.  On failure fat32_create_dir frees it,
\* fat32_write_file returns.
write_cluster(ok) ==
    /\ op.pc = "data"
    /\ Tried(ok) /\ Counted(ok)
    /\ op' = IF ok THEN [op EXCEPT !.left = @ - 1, !.prev = op.last,
                                   !.pc = IF op.left > 1 THEN "alloc" ELSE IF op.kind = "file" THEN "end" ELSE "entry"]
             ELSE IF op.kind = "dir" THEN [op EXCEPT !.pc = "undo"] ELSE Idle
    /\ Untidy(~ok /\ op.kind = "file")
    /\ UNCHANGED <<disk, mount, drive, hurt>>

\* fat32_write_file marks the last cluster once more.
end_chain(ok) ==
    /\ op.pc = "end"
    /\ Tried(ok) /\ Counted(ok)
    /\ fat32_update_fat(op.prev, END, ok)
    /\ op' = [op EXCEPT !.pc = "entry"]
    /\ Untidy(~ok)
    /\ UNCHANGED <<dir, layout, buf_of, drive, hurt>>

\* The entry goes into the first free slot, whether or not the name exists.
write_entry(ok) ==
    /\ op.pc = "entry"
    /\ Tried(ok) /\ Counted(ok)
    /\ LET done == ok /\ FreeSlot \in Slot
       IN  /\ dir' = IF done THEN [dir EXCEPT ![layout][FreeSlot] = [name |-> op.name, cluster |-> op.first]] ELSE dir
           /\ op' = IF ~done /\ op.kind = "dir" THEN [op EXCEPT !.pc = "undo"] ELSE Idle
           /\ Untidy(~done /\ op.kind = "file")
    /\ UNCHANGED <<fat, mount, drive, hurt>>

undo_Nothing(ok) ==
    /\ op.pc = "undo"
    /\ Tried(ok) /\ Counted(ok)
    /\ Return
    /\ Untidy(~ok)
    /\ UNCHANGED <<disk, mount, drive, hurt>>

\* fat32_create_dir gives the cluster back.
undo(ok) ==
    /\ op.pc = "undo"
    /\ Tried(ok) /\ Counted(ok)
    /\ fat32_update_fat(op.first, FREE, ok)
    /\ Return
    /\ Untidy(~ok)
    /\ UNCHANGED <<dir, layout, buf_of, drive, hurt>>

----------------------------------------------------------------------------
(* Deleting.                                                                *)

\* (inside is history: whether the whole chain is in the cache.)
fat32_delete_file(n) ==
    /\ Routed
    /\ Find(n) # 0
    /\ op' = [pc |-> "free", slot |-> Find(n), at |-> dir[layout][Find(n)].cluster, clobbered |-> FALSE,
              inside |-> ChainOf(Seen(layout), dir[layout][Find(n)].cluster) \subseteq Near]
    /\ UNCHANGED <<disk, mount, drive, history>>

\* Where the chain goes on: in the cache, or on the disk, read into sector_buf.
next_Disk(c, ok) ==
    IF ok THEN [cluster |-> fat[layout][c], clobbered |-> TRUE]
    ELSE [cluster |-> END, clobbered |-> op.clobbered]

fat32_get_next_cluster(c, ok) ==
    IF c \in Near THEN [cluster |-> fat_buf[c], clobbered |-> op.clobbered]
    ELSE IF ok THEN [cluster |-> fat[layout][c], clobbered |-> TRUE]
    ELSE [cluster |-> END, clobbered |-> op.clobbered]

\* One turn of fat32_free_cluster_chain.
fat32_free_cluster_chain(ok) ==
    /\ op.pc = "free"
    /\ Tried(ok) /\ Counted(ok)
    /\ LET next == fat32_get_next_cluster(op.at, ok)
       IN  op' = [op EXCEPT !.at = next.cluster, !.clobbered = next.clobbered,
                            !.pc = IF InChain(next.cluster) THEN "free" ELSE "mark"]
    /\ fat32_update_fat(op.at, FREE, ok)
    /\ Untidy(~ok \/ op.at \notin Near)
    /\ UNCHANGED <<dir, layout, buf_of, drive, hurt>>

\* A sector of the FAT, read as a directory: zero bytes or no name of a file.
Junk == [Slot -> {Head83("00"), Head83("junk")}]

\* The entry is marked in sector_buf, which goes to the directory sector.
mark_deleted(ok) ==
    /\ op.pc = "mark"
    /\ Tried(ok) /\ Counted(ok)
    /\ \E sector_buf \in IF op.clobbered THEN Junk ELSE {dir[layout]} :
         dir' = IF ok THEN [dir EXCEPT ![layout] = [sector_buf EXCEPT ![op.slot].name = "E5"]] ELSE dir
    /\ Return
    /\ Hurt(~ok)
    /\ UNCHANGED <<fat, mount, drive, untidy>>

----------------------------------------------------------------------------
(* Formatting the current drive and mounting it again (cmd_format).         *)

fat32_format ==
    /\ op = Idle /\ current_drive \in Volume
    /\ op' = [pc |-> "fat1", vol |-> current_drive]
    /\ UNCHANGED <<disk, mount, drive, history>>

\* FAT1, its first sector first, then FAT2, then the root directory.
Wiped(pc, v) ==
    CASE pc = "fat1" -> fat' = [fat EXCEPT ![v] = [c \in Cluster |-> IF c \in SameSector(Root) THEN EmptyFat[c] ELSE @[c]]] /\ UNCHANGED dir
      [] pc = "fat1_rest" -> fat' = [fat EXCEPT ![v] = EmptyFat] /\ UNCHANGED dir
      [] pc = "fat2" -> UNCHANGED disk
      [] pc = "root" -> dir' = [dir EXCEPT ![v] = Empty] /\ UNCHANGED fat

After == [fat1 |-> "fat1_rest", fat1_rest |-> "fat2", fat2 |-> "root", root |-> "remount"]

format_write(ok) ==
    /\ op.pc \in DOMAIN After
    /\ Tried(ok) /\ Counted(ok)
    /\ IF ok THEN Wiped(op.pc, op.vol) /\ op' = [op EXCEPT !.pc = After[op.pc]] /\ UNCHANGED hurt
       ELSE Return /\ UNCHANGED disk /\ hurt' = IF op.pc = "fat1" THEN hurt ELSE hurt \cup {op.vol}
    /\ UNCHANGED <<mount, drive, untidy>>

\* A volume that was formatted and mounted again is as good as new.
remount ==
    /\ op.pc = "remount"
    /\ \E r \in Outcomes :
         /\ Tried(r = "ok") /\ Counted(r = "ok")
         /\ fat32_init_drive(op.vol, r)
         /\ hurt' = IF r = "ok" THEN hurt \ {op.vol} ELSE hurt
         /\ untidy' = IF r = "ok" THEN untidy \ {op.vol} ELSE untidy \cup {op.vol}
    /\ Return
    /\ UNCHANGED <<disk, drive>>

----------------------------------------------------------------------------

\* The power goes during a call, and the kernel starts again.
power_cut ==
    /\ op # Idle /\ fails < MaxFail
    /\ op' = Idle
    /\ layout' = "none" /\ buf_of' = "none" /\ fat_buf' = [c \in Near |-> FREE]
    /\ current_drive' = "A" /\ current_fs_type' = "NONE"
    /\ LET v == IF op.pc \in DOMAIN After \cup {"remount"} THEN op.vol ELSE layout
       IN  /\ untidy' = untidy \cup {v}
           /\ hurt' = IF \/ op.pc \in {"fat1_rest", "fat2", "root"}
                         \/ op.pc \in {"free", "mark"} /\ fat[v][dir[v][op.slot].cluster] = FREE
                      THEN hurt \cup {v} ELSE hurt
    /\ fails' = fails + 1
    /\ UNCHANGED disk

Next ==
    \/ \E d \in Letter : fs_set_current_drive(d)
    \/ fs_ensure_init
    \/ \E n \in Name : \/ \E len \in 1..MaxLen : fat32_write_file(n, len)
                       \/ fat32_create_dir(n)
                       \/ fat32_delete_file(n)
    \/ no_free_cluster
    \/ \E ok \in BOOLEAN : \/ fat32_alloc_cluster(ok) \/ link_cluster(ok) \/ write_cluster(ok)
                           \/ end_chain(ok) \/ write_entry(ok) \/ undo(ok)
                           \/ fat32_free_cluster_chain(ok) \/ mark_deleted(ok)
                           \/ format_write(ok)
    \/ fat32_format
    \/ remount
    \/ power_cut

Spec == Init /\ [][Next]_vars

\* Names and volumes are interchangeable.
Symmetry == Permutations(Name) \cup Permutations(Volume)

----------------------------------------------------------------------------
(* Properties.                                                              *)

\* A call that fs.c routes to the FAT32 driver finds the layout and the FAT of
\* the current drive in the driver's variables, whichever mounts, switches and
\* formats failed before.
MountedIsCurrent ==
    current_fs_type = "FAT32" => layout = current_drive /\ buf_of = current_drive

Live(v) == {i \in Slot : dir[v][i].name \in Name}

\* The FAT of v, on the disk and in the cache.
Tables(v) ==
    {fat[v]} \cup (IF buf_of = v THEN {Seen(v)} ELSE {})

\* No cluster belongs to two files, and no cluster of a file is free to be given
\* to another, in the cache and on the disk: whatever reads and FAT writes
\* fail, whenever the power goes and whichever drives are selected.  The
\* exceptions are counted in hurt: the entry of a file stays when its chain has
\* been freed, a format stops half way, or a direct caller works with the FAT
\* of another volume.
NoSharedClusters ==
    op = Idle => \A v \in Volume \ hurt : \A t \in Tables(v) :
        /\ \A i \in Live(v) : \A c \in ChainOf(t, dir[v][i].cluster) : t[c] # FREE
        /\ \A i, j \in Live(v) : i # j =>
              ChainOf(t, dir[v][i].cluster) \cap ChainOf(t, dir[v][j].cluster) = {}

\* On a volume where no access failed and no file write was refused, the cache
\* is the disk's and every cluster in use belongs to the root or to an entry: a
\* directory that could not be created leaves nothing behind.
NothingLost ==
    op = Idle => \A v \in Volume \ (hurt \cup untidy) : \A t \in Tables(v) :
        /\ t = fat[v]
        /\ {c \in Cluster : t[c] # FREE} = {Root} \cup UNION {ChainOf(t, dir[v][i].cluster) : i \in Live(v)}

\* Deleting a file whose chain is in the cache changes no other entry, although
\* the directory sector stays in sector_buf while the chain is freed.
DeleteKeepsOthers ==
    [][op.pc = "mark" /\ op.inside =>
         \A v \in Volume, i \in Slot :
            v # layout \/ i # op.slot => dir'[v][i] = dir[v][i]]_vars

============================================================================
