# Formal models of PlexsDOS

PlexsDOS is a small 32-bit x86 kernel: a preemptive round-robin scheduler, a
page frame allocator with two-level paging, drivers for PS/2 keyboard and
mouse, floppy, ATA and AHCI disks, the file systems FAT12 and FAT32, a shell,
and an optional display manager with a window manager. It runs on one CPU. The
repository also carries the sources of xorriso, which writes its CD images with
two threads and a ring buffer between them.
What makes it hard to test is that interrupts arrive between any two
instructions, that devices answer late or not at all, and that the power can go
between two sector writes.

This directory holds TLA+ models of its core, TLC configurations that check
them on small instances, and TLAPS proofs for instances of every size.
`PROJECT.json` lists components, runs, the lines each definition models, the
hazards found in the code and the properties that cover them.

Contents: [Inventory](#inventory), [Modules](#modules-and-how-they-correspond-to-the-code),
[Runs](#runs), [Fairness](#fairness), [Proofs](#proofs),
[Departures](#where-the-code-departs-from-its-documents),
[Further hazards](#further-hazards), [Plan](#plan), [Not modelled](#not-modelled).

    tlc -config Sched.cfg Scheduler            # one run; see the table of runs
    tlapm SchedulerProofs.tla                  # proofs of one module

## Inventory

State, operations, interactions and hard behaviours of each part. "M" marks the
parts modelled here, "-" parts left out for now.

| Part | State | Operations | What is hard | Properties wanted |
|---|---|---|---|---|
| M scheduler (`kernel/sched/scheduler.c`, `kernel/arch/interrupt.asm`) | PCB pool, ready list, `current`, ticks, saved contexts | create, yield, block, unblock, exit, timer tick, return from interrupt, start | interrupts between `hal_irq_restore` and `sched_switch_to`; a list updated with interrupts on; contexts saved only by the interrupt path | queue sound, held process private, one RUNNING process, contexts restorable, round robin, dispatch |
| M page frames (`kernel/mm/pfa.c`) | bitmap, free count | init, alloc, free | count kept by hand; double frees | count exact |
| M paging (`kernel/mm/paging.c`) | directory, tables, TLB | init, map, unmap, unmap and free, walk | tables allocated and released on the way; stale TLB entries | tables exclusive, no leak, freed frames unmapped, TLB coherent |
| M keyboard (`kernel/drivers/keyboard.c`) | ring, modifiers, E0 prefix | IRQ1 handler, getchar, init | handler against reader, `hlt`, full ring, shared codes | FIFO, modifiers, readers return |
| M mouse (`kernel/drivers/mouse.c`) | packet state, event queue | IRQ12 handler, get event, init | packets parked in the queue; lost bytes | FIFO, event is packet |
| M 8042 controller set-up (both drivers) | configuration byte, ports | two initialisations | shared output buffer and configuration | what is reported ready is ready |
| M floppy (`kernel/drivers/fdc.c`) | IRQ flag, result bytes, motors | init, seek, read, write, detect, motor tick | timeouts, late interrupts, stale results, retries | success is real, calls return, motors |
| M FAT12 (`kernel/fs/fat12.c`) | FAT and directory in memory and on disk | mount, write, delete, rename, load | order of sector writes, failures, full disk, power cuts | promised files read back, no cross links, copies agree, chains end |
| M FAT32 (`kernel/fs/fat32.c`) | cached part of the FAT, one shared sector buffer, one set of variables for all partitions | mount, write, delete, mkdir, format | cache against disk; the buffer is reused inside loops; failures between two writes | no cluster with two owners, no lost clusters, a deletion changes one entry |
| M file system switch (`kernel/fs/fs.c`, `kernel/drivers/drive.c`) | current drive and type, drive table | init, switch, dispatch | failed switch or format | the driver works on the current drive |
| M libisofs image source (`xorriso-1.5.8/libisofs/buffer.c`, `ecma119.c`) | ring buffer, reference count | the image thread; read, cancel, free | two threads, condition variables, cancellation, who frees last | the consumer gets the image in order, calls return, nothing used after free |
| - ATA, AHCI (`kernel/drivers/disk.c`, `ahci.c`) | command slot, DMA buffer | read, write, identify | completion after the timeout | success is real |
| - window manager (`kernel/gui/wm.c`) | window slots, z-order, focus | create, destroy, show, hide, focus, events | callbacks that call back | z-order and focus consistent |
| - 1-Bus, sessions (`kernel/shim/onebus.c`, `syslog.c`) | message ring, filters; sessions, seats | send, receive, filter; open, activate, close | callbacks in the middle of a send; pool exhaustion | FIFO, one active session per seat |
| shell, editor, loader, installer, CONFIG.SYS, screen, PCI, boot, panic, libc, host tools, vendored sources | - | - | - | see [Not modelled](#not-modelled) |

Interactions: interrupts (`interrupt.asm`) enter the drivers' handlers and, on
their return path, the scheduler. Paging takes its tables from the page frame
allocator. Keyboard and mouse share the 8042. `fs.c` mounts FAT12 over the
floppy driver or the disk and FAT32 over the disk. System calls enter with
interrupts off and reach the keyboard and the scheduler.

## Modules and how they correspond to the code

**Scheduler.** One CPU executes one thread: kernel_main or the idle loop while
`current` is the idle PCB, else the process `current`. `isr_timer` and
`isr_other` may happen between any two steps with interrupts on and contain the
whole path through `ISR_RETURN`: tick, `sched_need_resched`,
`sched_do_switch_asm`. `sched_yield`, `sched_block` and `sched_exit` restore
interrupts before they call `sched_switch_to`, so each is five steps: the part
with interrupts off, after which the process it took from the queue waits in
`held`, its local variable, and the four assignments of `sched_switch_to`
(`switch_current`, `switch_state`, `switch_ticks`, `switch_restore`).
`sched_start` too restores interrupts before its `sched_restore_context`. A
stack is abstracted to whether the context in it can still be restored
(`resume`): an interrupt taken after `current` changed and before the stack did
saves a `torn` one. `SwitchIsShort` keeps a slice, 300 ms in the code, from
running out between its renewal and the restore, a line of serial output at most.
`sched_exit_asm` is the path of SYS_EXIT, atomic since it runs with interrupts
off. Each behaviour makes the calls of one of `Workloads`: the properties that
hold only without sched_yield, sched_block or sched_exit, which have no caller
yet, say so. **An assumption:** `sched_create_process` and `sched_unblock` are
one step each when a process calls them, as if called with interrupts off. The
code does not turn them off. The one caller in the repository is
`kernel_main.c:499`, with interrupts on and no other thread yet; ReadyList has
the steps of that call. Called by processes with interrupts on, two threads
could take the same PCB (between `scheduler.c:265` and 275), and `QueueSound`
and all that follows from it would be lost. The bound `MaxPid` caps the processes created in a behaviour.

**ReadyList** implements **ReadyQueue.** Scheduler treats the ready list as a
sequence. ReadyList justifies it: head, tail, count and next pointers, with
`enqueue_ready` one assignment at a time where interrupts are on (the creation
of the first process in kernel_main), refines a FIFO of distinct processes.

**PageFrames** is the allocator with its boot layout as constants; **Paging**
EXTENDS it and adds directory, tables and TLB. Callers keep to `paging.h`: they
map device pages or frames they own, each once. A page table is a page of
memory whose words are read as entries, so that a walk through the wrong frame
reads data. `pfa_alloc_frame` returning 0, and `page_map` failing for it,
change nothing and are not steps.

**Keyboard.** A press puts the bytes of scan code set 1 on the wire. The
handler decodes them and fills the ring. `kbd_buffer_get` is split as the -O2
build splits it: load and test the count, store the count, read the character.
Keys stand for classes of the tables. A reader with interrupts on is the
installer (or the kernel's shell in debug builds): there the timer does not run,
since `pic_init` masks IRQ0 and `pit_init` is called only on the way to the user
shell, so `other_interrupt` (mouse, floppy) may come or not. **Mouse** takes a packet byte by byte as
the handler does, with the half packet parked in the slot behind the queue.
Both rings are mapped to **BoundedFifo**.

**Ps2Init** composes `keyboard_init` and `mouse_init` with the 8042 and both
devices, one exchange per step. Any device may refuse any command and a key may
be pressed at any time. The device id that a mouse sends after its self test,
which `mouse_init` does not read, may be in the buffer when the next answer is
expected, and then ends the initialisation. **Ps2** composes it with Mouse: the mouse driver starts
in whatever state the initialisation left the controller and the mouse in, with
the bytes that were not read still in the output buffer.

**Fdc.** The driver is a program counter over its waits; the controller is
idle, in reset, executing, hung or in its result phase. A wait ends with the
flag `fdc_irq_fired` or with a timeout. `Late` says whether the controller may
answer after a timeout, `SeekEnd` what ST0 shows after a seek. Variables the
code may read uninitialised are chosen arbitrarily. After a reset the
controller has no interrupt status to be sensed.

**Fat12Table** is the packing of 12-bit entries into bytes. **Fat12** holds the
FAT and the directory in memory and on the disk. A call first computes in
memory, then writes sector by sector; each access may fail and the power may go
between any two. A copy of the FAT is written in sectors of `SectorBytes` bytes,
so an entry may straddle two of them; a copy of which only some sectors were
written is `torn` (history), and so is a FAT mounted from one. A cluster is one
value.
`kept` and `victims` are history: what successful calls promised, and the names
about which nothing is promised after a failure. `MaxLate` bounds the calls
after the first failure; what is called on a torn FAT is not explored.

**Fat32** holds two partitions behind the driver's one set of variables, and the
drive switch of `fs.c` above it. Clusters up to `Cached` have their FAT entry in
`fat_buf`; one beyond it is read through `sector_buf`, which also holds
the directory sector. A FAT write stores the sector with the changed entry:
clusters up to `First` are in one, the rest of the cache in another. A switch to
a CD-ROM leaves the state of a switch to an unreadable floppy disk and is not an
action of its own. Each disk access is a step that may fail, and the power
may go between any two; `MaxFail` bounds both. `hurt` and `untidy` are history:
volumes on which a call stopped where the code leaves an entry without its
chain, and volumes that lost clusters. `buf_of` says whose FAT is cached.

**IsoRing** is the ring buffer and the two threads around it: the image thread
of `ecma119.c`, whose writers are a sequence of writes of any sizes that add up
to the image or fail (assumed: the code closes the ring without error also when
they do not add up, and reports it at `ecma119.c:2736`), and libburn's consumer, which reads, cancels and frees the
source. A section under the mutex is one step. A wake-up may come without a
signal. **ByteStream** is what the consumer is promised: the bytes in order, none
twice and none left out, and the end only when the producer has ended and
nothing is under way.

## Runs

| Run | Module, configuration | Result | Shows |
|---|---|---|---|
| `sched` | Scheduler, Sched | holds | Three workloads, interrupted anywhere: the queue is sound, a held process is private to its holder, no process overtakes another. Without yield and block only `current` is RUNNING; with creation and SYS_EXIT alone every context the scheduler may restore is whole and every queued process is dispatched. |
| `sched_lone` | Scheduler, SchedLone | violated | The only process is lost after its second slice (finding 1). |
| `ready_list` | ReadyList | holds | The linked list implements the FIFO. |
| `paging` | Paging | holds | Tables are exclusive, no frame leaks, freed frames are unmapped, the TLB is coherent, the free count is exact. |
| `keyboard` | Keyboard | holds | The ring is a FIFO for system calls, Ctrl and Alt follow their keys, a key that a thread missed before its `hlt` is delivered with the next byte. |
| `kbd_syscall` | Keyboard, KbdSyscall | violated | A system call that waits for a key never returns (finding 2). |
| `ps2` | Ps2 | holds | A keyboard reported ready stays so, unless a scan code was read as the configuration byte; only lost and left-over bytes shift the packet boundaries, by their number modulo three; the event queue is a FIFO except for the oldest event of a full queue; without a slipped byte every event is the packet sent. |
| `fdc` | Fdc | holds | With two drives and answers in time or never: success is real, no motor runs that `motor_state` calls off, every call returns. |
| `fdc_late` | Fdc, FdcLate | violated | A late interrupt makes `fdc_read_sectors` return true before its transfer is done (finding 3). |
| `fat12` | Fat12 | holds | Promised files read back after remounts; a first failure or power cut damages no other file; no cluster is shared or lost; copies agree; chains end in every FAT that was written whole. |
| `fat32` | Fat32 | holds | A routed call works on the current drive; no cluster has two owners outside the volumes in `hurt`; clusters are lost only on the volumes in `hurt` and `untidy`; a deletion inside the cache changes one entry. |
| `iso_ring` | IsoRing | holds | The ring buffer implements the stream; every call returns; nothing is used after it was freed. |

Bounds, and why they suffice:

- Scheduler: 3 PCBs and 4 processes, so that a slot is reused, one thread can
  hold a process while a second is in its window and a third queues; a slice of
  2 ticks, so that a tick with and without expiry occurs. `sched_lone` is the
  kernel as it boots: one user process, no further calls.
- ReadyList: 3 PCBs: first, middle and last element differ.
- Paging: 7 pages of which 3 can be allocated, tables of 4 entries, 2 dynamic
  directory entries, both PSE cases: two tables and a data frame exhaust memory.
- Keyboard: a ring of 3 (an arrow key gives 3 characters, so it wraps inside a
  sequence and overflows inside one); Up, left and right Ctrl, which share a
  code, and left Alt.
  Ps2: an event queue of 2.
- Fdc: two drives, as kernel_main registers them; 2 cylinders, so that a seek may end on the wrong one. Late answers
  are left to `fdc_late`, where the same statement fails for reads.
- Fat12: 3 clusters, 2 directory entries, files of 0 to 2 clusters, 2 names,
  2 values: the disk and the directory both fill up, and a name is overwritten
  by a shorter, an equal and a longer file. Names and values are symmetric, no
  liveness is checked. One call may follow the first failure. Sectors of 5
  bytes, so that the entry of cluster 3 straddles the first two.
- Fat32: two volumes, so that a switch can fail and leave one for the other; 4
  clusters, the first the root directory's and the last beyond the cache, the
  cache in two sectors; 2 entries, so that directory and disk fill up; at most
  one volume starts with a file that leaves the cache; no file call is made on a
  volume in `hurt`, of which nothing is promised, until it is formatted; one
  failure or power cut at any access. Names and
  volumes are symmetric.
- IsoRing: a ring of 4, an image of 10 (the ring wraps twice), writes of up to 6
  and reads of up to 5, both longer than the ring. `IsoRingProofs` removes the
  bounds for all but liveness.

Deadlock is not checked where the system may stop: Scheduler (`cli; hlt` and
wild execution), ReadyList, Keyboard (a system call halted for ever), Ps2 (no
mouse was found) and IsoRing (both threads end).

## Fairness

- Scheduler: weak fairness of `isr_timer` and `switch_restore`. The PIT ticks at
  100 Hz as long as interrupts are enabled (kernel_main has called `pit_init`
  before it creates the first process), every step with interrupts off is part
  of one action, and a switch that has begun ends. `QueuedIsDispatched` needs nothing of the processes: an endless loop
  is preempted.
- Keyboard: weak fairness of the keyboard's interrupt (it is delivered when
  enabled) and of the reader's own steps. Nothing is assumed of the user, the
  timer or other devices.
- Fdc: weak fairness of the driver's steps (its waits count down) and of the
  controller where it is going to answer. None of `fdc_motor_tick`, which no
  code calls.
- IsoRing: weak fairness of the image thread and of a consumer inside a call:
  the system schedules both threads and a mutex is held for one step. Nothing
  makes the consumer begin a call.

## Proofs

**SchedulerProofs**, for every `PROC_MAX` and `TIME_SLICE` above zero, every
`MaxPid` and set of calls (`ConstantsAssumption`): `TypeCorrect`,
`QueueIsSound`, `HeldIsSound`. The inductive invariant is
`IInv == TypeOK /\ QueueSound /\ HeldSound /\ WindowSound`. The steps are those
of the model: interrupts anywhere in the calls that switch, creation and
unblocking by processes with interrupts off. `QueueSound` is not
inductive alone: a thread resumed in its window makes the process it holds
current without taking it from the queue, so that process must not have been
queued again (`HeldSound`). `HeldSound` in turn needs that only processes, not
the idle loop, are in a window, and that the current process is READY or
RUNNING in ordinary code and inside a switch (`WindowSound`). Two lemmas say what `enqueue_ready` and
`dequeue_ready` do to a sequence without duplicates; one lemma per action shows
that it keeps `IInv`.

**SchedulerOrderProofs** adds, from the same assumption and invariant,
`RoundRobin`, `OneRunning` and `QueuedRestorable`. Round robin is an action
property: every step leaves the queue, links a process that was not in it, takes
the head, or does the last two in turn, and `OrderLemma` shows that each keeps
the order of a queue without duplicates. `OneRunning` needs `ExitSound`: when no
thread yields or blocks, the thread in a window is in sched_exit with its PCB
FREE, and no other READY or RUNNING process was stopped in one.
`QueuedRestorable` needs `FrameSound`: when none calls sched_exit either, the
only switch with interrupts on is the end of sched_start, whose process has ticks
left and the frame of its creation.

**PageFramesProofs**, for every memory layout in which the cleared ranges are
disjoint (`LayoutAssumption`): `FreeCountIsExact` and `BitmapTyped`, with
`IInv == TypeOK /\ FreeCountExact`. `pfa_init` counts the ranges by adding
sizes, so its lemma is about cardinalities of disjoint unions; alloc and free
add or remove one page, or none when the page is already free or out of range.

**Fat12TableProofs**, for tables of every size: `SetKeepsBytes`, `GetAfterSet`,
`SetKeepsOthers`. Storing an entry yields bytes, is read back, and changes no
other entry. The argument splits on the parity of both cluster numbers: only
neighbours 2k and 2k + 1 share a byte, and each keeps the other's nibble.

**IsoRingProofs**, for every ring size above zero, image length and sizes of
reads and writes (`IsoRingAssumption`): `TypeCorrect`, `FreedOnce` and
`RingImplementsStream`, the refinement of ByteStream. The inductive invariant is
`IInv == TypeOK /\ RingSound /\ ThreadsSound /\ RefSound`. `RingSound` says that
the `size` bytes from `rpos` on, modulo the ring, are the bytes sent and not yet
taken; it fixes `wpos`. It is kept because one turn of a write or read copies no
further than the end of the ring (`WriteLenFits`, `ReadLenFits`, `PutRing`,
`GetRing`). `ThreadsSound` bounds what a write has left by what the image has
left. `RefSound` counts the references of both threads and says that whoever
frees the source has joined the image thread. `Simulation` maps every step to a
step of ByteStream or a stutter.

Only model-checked: the liveness properties (`QueuedIsDispatched`,
`NextByteWakes`, `CallReturns` of Fdc and of IsoRing), which are out of reach of
the prover; the refinements `AbstractSpec`, `FifoSpec` and
`QueueIsFifo`; and the properties of Paging, Keyboard, Ps2, Fdc, Fat12 and Fat32
that are not named above.

## Where the code departs from its documents

Findings, each with a run that exhibits it:

1. `scheduler.c:153`: when the preempted process is the only one, it is requeued
   as READY, dequeued, and returned to without becoming RUNNING again. The next
   reschedule does not requeue it and goes to the idle loop for good.
   `scheduler.c:134` says that it continues.
2. `keyboard.c:540`: SYS_READ_CHAR runs with interrupts off, so its `hlt` waits
   for ever. `keyboard.h:19` says that it waits for a key.
3. `fdc.c:119`: the interrupt flag is not cleared before a command, and no
   result bytes are read outside the result phase: a late interrupt of an
   abandoned command makes `fdc_read_sectors` return true (`fdc.c:680`);
   `fdc_detect_disk` (`fdc.c:487`) has the same flaw.

Met while modelling, without a run of their own:

- `sched_start` returns when the first process ran and exited before it
  (`kernel_main.c:519` calls that unreachable).
- `sched_yield` saves no context (`scheduler.h:119`); `sched_unblock` links a
  PCB with interrupts on (`scheduler.c:248`). Neither has a caller yet.
- `sched_switch_to` runs with interrupts on under sched_yield, sched_block and
  sched_exit: an interrupt between `scheduler.c:117` and 119 that finds the next
  process without ticks stores the leaving thread's stack pointer as its
  context (`scheduler.c:143`) and requeues it.
- A key that comes between the test of the buffer (`keyboard.c:534`) and the
  `hlt` (540) of the installer waits for the next byte of the keyboard: no timer
  runs there. The comment at `idt.c:164` counts IRQ0 as enabled; the mask 0xB9
  does not enable it.
- With PSE, `page_get_mapping` takes the 4 MB page for a table (`paging.h:120`).
- A kernel thread in `kbd_buffer_get` can lose an increment of `kbd_count`
  (`keyboard.c:266`); releasing one Shift key clears the other (`keyboard.c:364`).
- The mouse handler does not resynchronise (`mouse.c:201`); byte 1 of a packet
  overwrites the oldest event of a full queue (`mouse.c:224`); the sample rate
  goes to the keyboard (`mouse.c:325`), so that a mouse that acknowledges takes
  ENABLE for the rate and never reports, against `mouse.c:264`.
- Starting one floppy motor stops the other (`fdc.c:303`), whose `motor_state`
  stays ON, so that it is not started again when next needed; a set Seek End bit
  counts as an error (`fdc.c:455`); nothing calls `fdc_motor_tick`, against `fdc.c:339`.
- A FAT12 copy is nine single-sector writes (`fs.c:50`): one that is cut short
  may leave an entry made of bytes of two FATs, such as 341, and with it a chain
  that does not end.
- An overwrite that does not fit has already freed the old chain in memory
  (`fat12.c:580`); a rename onto an existing name makes two entries
  (`fat12.c:775`).
- FAT32: a failed write of a file loses the clusters it took (`fat32.c:574`);
  deletion frees the chain before it marks the entry (`fat32.c:723`), and one
  that reads beyond the cached FAT overwrites the directory sector it is about
  to write back (`fat32.c:727`); a file written under an existing name gets a
  second entry (`fat32.c:632`); `fat32_rename_file` always answers false.

## Further hazards

`PROJECT.json` lists the hazards that properties cover. These are known too, and
no property covers them:

- `sched/scheduler.c:484` (ordering): The timer interrupts the boot thread after the first process is created and before sched_start dequeues it.
- `sched/scheduler.c:390` (partial failure): A process interrupted in the window of sched_exit is a zombie and is never resumed: the process it took off the queue is lost with it.
- `fs/fat12.c:519` (resource bound): cluster_chain has 512 entries and no test bounds the clusters of a file.
- `fs/fs.c:97` (stale state): fat12_init_ex takes the layout from the boot sector at 0x7C00, whichever drive is selected.
- `drivers/fdc.c:718` (partial failure): After a transfer without a disk the controller stays in its execution phase; nothing resets it, and every later call fails until fdc_init runs again.
- `drivers/fdc.c:863` (numeric edge): fdc_read_lba casts the cylinder to uint8_t before fdc_read_sectors tests its range: from LBA 9216 on it wraps to a low cylinder.
- `drivers/fdc.c:693` (resource bound): A request for more than 16 sectors is cut to 16 and still returns true.
- `drivers/keyboard.c:364` (protocol sequence): Two Shift keys are held and one is released.
- `drivers/mouse.c:325` (protocol sequence): A two-byte mouse command is sent half to the mouse and half to the keyboard.
- `drivers/keyboard.c:98` (timeout retry): A read after an expired wait returns whatever byte was last in the buffer, as if it were the answer.
- `mm/paging.c:244` (resource bound): A frame for a new page table is cleared through the identity mapping, which ends at 8 MB; once about 1500 frames are taken the next one lies beyond and fast_memset faults.
- `mm/paging.c:258` (protocol sequence): page_map, page_unmap and page_get_mapping do not test PDE_4MB and take a 4 MB page for a page table.
- `mm/pfa.c:186` (numeric edge): Frame address 0 is the failure value of pfa_alloc_frame; if page 0 is ever freed, a successful allocation of it reads as failure.
- `hal/hal_io.c:623` (liveness): The scan of the extended partition ends only when enough partitions are found or a link is missing: a chain that returns to itself through empty entries never ends.
- `drivers/ahci.c:414` (timeout retry): A command that times out stays in slot 0 with the caller's buffer; it may complete, and write the buffer, during a later command.
- `drivers/disk.c:318` (numeric edge): The counter is tested after the loop, which leaves it at 0 when the last turn saw the completion: that transfer counts as timed out and its interrupt flag stays set.
- `drivers/disk.c:263` (resource bound): A DMA request for more than 128 sectors is cut to 128 and reported as complete.
- `gui/wm.c:465` (protocol sequence): Hiding the focused window clears g_focused_id and not its FOCUSED flag; the next focus change leaves two windows flagged.
- `gui/wm.c:409` (stale state): The close callback runs before the window leaves the tables; one that destroys a window changes the indices and counts the caller goes on with.
- `gui/wm.c:427` (protocol sequence): Destroying the focused window focuses the next in the stacking order, hidden or minimised.
- `shim/onebus.c:193` (resource bound): Filters are taken from a pool that neither removal nor initialisation refills: after eight additions filters are silently refused.
- `shim/onebus.c:122` (stale state): A filter callback that removes filters or sends a message changes the list and the queue that onebus_send is walking.
- `shim/syslog.c:127` (protocol sequence): Activating a session leaves the previous one active and changes every seat, not its own.
- `sched/scheduler.c:248` (atomicity): sched_unblock and, in a process, sched_create_process link a PCB without hal_irq_save: called with interrupts on, a timer interrupt works on the half-updated list and a READY process is lost, and two creations can take the same PCB (`scheduler.c:265`).

## Plan

What could come next, in this order:

1. AtaDisk: PIO and DMA, completion against timeout, in the manner of Fdc.
2. The fifo of `libburn/file.c`, a ring between two threads without a mutex.
3. WindowManager with re-entrant callbacks; OneBus with sessions.
4. Proofs: `TablesExclusive` and `TlbCoherent` of Paging; the keyboard's and
   mouse's rings as refinements of BoundedFifo; ReadyList, once its walk is
   stated without recursion; `SuccessIsReal` of Fdc without late answers.

## Not modelled

The models cover about one percent of the lines of the repository. Nearly all
others are third-party sources (xorriso, the LightDM reference and its port), and
much of the kernel itself is text output, command parsing and register
programming, where a model would repeat the code.

- Register contents, stack layout, TSS, segment and descriptor tables:
  straight-line set-up; their effect on interrupts is in the guards.
- Screen, VGA, serial output, panic: output without state others read.
- Shell, CONFIG.SYS, loader, editor, `keyboard_read_line`: text processing in one
  thread.
- ATA: polled transfers; the file system modules take a sector access as one step
  that succeeds or fails. AHCI: its PRDT lies at offset 80 of the command table
  and not at 128 as the AHCI specification has it (`ahci.c:389`), so what a
  transfer does would have to be left open.
- FAT32: file contents, listing and loading; `fat32_init`, which mounts from the
  boot sector in memory before the drive table exists.
- Installer: sector writes in sequence, then `fat32_write_file`; an installation
  cut short is not modelled.
- PCI, CPU detection, ISO 9660 reading, partition scan: enumeration and parsing.
- 1-Bus and sessions (`kernel/shim`): built, but nothing calls them.
- Display manager (`kernel/dm`), a LightDM port built only with PLEXSDM, with its
  window table and user shims. Its signals are emitted under the name "signal"
  (`plxdm_compat.h:810`) and connected under others, so its handlers do not run.
- libisofs beyond the image source: layout and contents of images, `bs_set_size`,
  the statistics of the ring. libburn, libisoburn, xorriso: drives, SCSI, the
  command language.
- Boot sectors, libc, sample programs, host tools, the LightDM reference.
- `kernel/arch/syscall.c`, `kernel/debug`, `kernel/editor` and `kernel/gui` are
  filtered out of the default build by the Makefile.
