# Veil OS in TLA+

Veil OS is a graphical operating system for AArch64, written in Rust without an
underlying kernel or library: `src/src` in this repository's layout. This
directory holds TLA+ models of its kernel, the TLC configurations that check them,
and theorems about them that TLAPS proves. Paths are relative to `src/src/` unless
they start with `src/`.

* [The system](#the-system): what there is and where it is hard
* [The modules](#the-modules): what is modelled, and how state and actions
  correspond to code
* [The runs](#the-runs): bounds, fairness, results
* [Where code and documentation disagree](#where-code-and-documentation-disagree)
* [The proofs](#the-proofs): what is proved, from what, and how
* [What is not covered](#what-is-not-covered) and [the plan](#the-plan)

To check a module: `tlc -config MCBlk.cfg MCBlk`. To prove one: `tlapm BlkProofs.tla`.

## The system

One core runs everything but a boot-time benchmark: kernel tasks (the desktop and
its main loop, `net-services`, audio players) and user programs, preempted by the
timer tick. Concurrency comes from that tick, from device interrupts, from devices
that read and write memory beside the core, and from the other end of the network.

| component | state | operations | hard because of |
|---|---|---|---|
| scheduler (`scheduler.rs`, `exceptions.rs`) | task table, current task, `PREEMPT`, `NEED_RESCHED`, pids | spawn, yield, tick, exit, reap | a tick between any two instructions; a task dies on its own stack and is freed by another; spawn fails half way |
| frames and page tables (`frames.rs`, `paging.rs`) | bitmap, next-fit cursor, tables | alloc, free, map, free_address_space | ownership moves between spawn, a task and reap; a full memory |
| virtio queues (`virtio.rs`) | descriptors, two rings, wrapping `u16` indices | push_avail, pop_used | the device's half runs beside the core; indices wrap |
| input (`input.rs`, `gic.rs`, `desktop.rs`) | devices, SPSC ring of events, edge latch | init, interrupt, pop, sleep | edges that are lost when acknowledged late; interrupts between the accesses of `pop`; sleep against wake-up |
| block driver (`blk.rs`) | one request header, status, three descriptors | request | one slot shared by tasks; the polling loop may be preempted |
| FAT16 (`fs.rs`) | FAT, root directory, data | mount, read, write, delete | every sector write may be the last; full disk, full directory |
| VeilFS and accounts (`vfs.rs`, `users.rs`, `pkg.rs`) | tree of nodes, working directory, current user, disk image | useradd, userdel, su, install, mount, persist, load | persist goes to the disk with IRQs unmasked and its result is ignored; removal under the working directory; power loss |
| network (`net.rs`, `netdev.rs`) | ARP table, sockets, connections, datagram queue | segment input, timers, socket calls, name lookup | loss, duplication, reordering, retransmission, slots reused, late answers |
| multiprocessor (`smp.rs`) | job counters, partial sums | parallel_compute, worker loop | lock-free counters, `wfe` against `sev`, cores that come up late |
| sound (`snd.rs`) | playing and stop flags, transmit queue | play, stop | two audio tasks on one device, a Stop that comes too early |
| heap (`heap.rs`) | address-sorted free list | alloc, dealloc | coalescing, split remainders |
| system calls (`syscall.rs`) | descriptors, console buffer | read, write, open, exit | user pointers, preemption inside a call |
| window manager, applications, shell | windows, documents, grants | event handlers, commands | mostly one task; the audio and chat parts are not |
| browser, JavaScript, WebAssembly, compilers, decoders, TLS | data being transformed | parse, evaluate, decode | data, not control |
| host services (`src/scripts/relay.py`, `session_manager.py`) | sessions, clients | connect, relay, expire | threads on shared tables |

How they interact: spawn and reap take and give frames and page tables, switching
loads the page tables and stack of the next task; `fs.rs` masks IRQs
(`fs::critical`) around every operation and so owns `blk.rs` for its time, `vfs.rs`
does not; the input and network handlers run on whichever task was interrupted, and
hand over through rings or tables the main loop polls; the main loop reaps, polls
input and network, and sleeps in `wfi`.

What makes each component correct, in short: every frame has one owner and the core
runs on live ones; a ready task runs, a dead one is freed; a report of a device
reaches the main loop once and in order; a disk request is the caller's own and is
over when it returns; a volume is sound after every sequence of writes and failures
as fsck would judge it, and an operation touches its own file only; a parallel job
is summed exactly; a byte stream arrives whole, in order and before its end, and a byte
is forgotten only when the peer has it; an account has a home, and an image that was
written to its end gives it back; memory is handed out once and never denied while it is there.
`PROJECT.json` lists the hazards line by line with the properties that cover them.

## The modules

```
Frames <- Scheduler <- MCScheduler          TaskLife   (abstract: life of a task)
                    <- SchedulerProofs
Virtqueue <- Input  <- MCInput              EventFifo  (abstract: a bounded queue)
                    <- InputProofs
          <- Blk    <- MCBlk                AtomicDisk (abstract: a synchronous disk)
                    <- BlkProofs
Fat16               <- MCFat16              FileStore  (abstract: a map of files)
                    <- Fat16Proofs
Smp                 <- MCSmp
                    <- SmpProofs
Tcp                 <- MCTcp
                    <- TcpProofs
Resolver            <- MCResolver
Vfs       <- Users  <- MCUsers
                    <- UsersProofs
Heap                <- MCHeap
                    <- HeapProofs
```

An action is a stretch of code that nothing can come between. Each comment and each
entry of the map in `PROJECT.json` says which lines that is.

### Frames, TaskLife, Scheduler

`Frames` has the next-fit search of `alloc_contiguous`, twice: what it finds
(`IsNextFit`: the free run at the least cyclic distance from the cursor) and the loop
as written (`ScanLoop`), with a run that grows, is cut at a used frame and at the end
of memory, and at most two passes. `Scheduler` uses the first; the run checks that
the second gives the same for every bitmap and cursor it meets.

`Scheduler` has the task table (`slots`: pid, state, stack frames, address space
frames), `current`, `cpu` (the stack and tables in use, which the code holds in `sp`
and `TTBR0`), the flags, and where the kernel task is in `spawn` or `reap` (`op`),
since those run unmasked and a tick may preempt them at every allocation. Code that
runs with IRQs masked is one action: `Yield`, `TimerIrq` (sets `NEED_RESCHED`),
`IrqTail` (the switch on the way out of the interrupt), `Exit` and `ExitSwitch`
(the zombie mark and the last switch), `Publish`, `Reap`. `SpawnUser`/`SpawnKernel`,
`MapFrame`, `SpaceBuilt`, `AllocStack`, `SpawnFails`, `Panic` (`child_table` panics
without a frame), `FreeSpace` and `FreeStack` are the steps in between. An address
space is `PlanLen` frames, at `PlanPages` pages and otherwise tables, since a failure
to get one ends differently from a failure to get the other. `lost` holds frames that
a failed spawn leaves behind.

`TaskLife` is what a user of the scheduler may rely on: a pid is created once, runs
alone, dies once, is reaped once, and never after or before.

### Virtqueue, EventFifo, Input

`Virtqueue` is the split queue with both sides: driver (`PushAvail`, `PopUsed`) and
device (`TakeAvail`, `PushUsed`), the indices modulo `IdxMod` (2^16 in the code) and
the slots modulo `QLen`.

`Input` has, for each device, its queue, the event in each buffer, its interrupt line
(`InterruptStatus`), the edge the interrupt controller has latched (`gic::set_edge`) and
how far `init_device` is; the ring with `HEAD` and `TAIL`; the main loop cut at every
access of `pop` and between the poll and `wfi`. `Report` is the device: it fills a
buffer and raises the line; only a rising line is latched. `EnterIrq` acknowledges,
`Drain` takes one buffer, pushes the event or drops it when the ring is full, and
reposts; `LeaveIrq` ends when the used ring is empty. `Touched` says in which stages of
bring-up somebody uses a device.

`EventFifo` is a bounded queue whose `Put` appends, whose `Refuse` loses the newest and
whose `Take` removes the oldest. The refinement mapping reads the ring from tail to
head (`Unread`).

### AtomicDisk, Blk

`Blk` cuts `request` where a tick can switch tasks: between header, descriptors, post, each turn of
the polling loop, and status. The stores of the header are one action and so are those of the
descriptors: when callers mask IRQs, nobody reads them before the notify (when they do not, a device
could read half of them, which the violation does without). The assertion on the number of turns
(`blk.rs:86`) is left out: the device fetches (reading header and descriptors from memory *then*)
and completes in its own time. A caller in `fs.rs` keeps other tasks off the core (`Switch` is not
enabled), one in `vfs.rs` does not; `Callers` chooses. `AtomicDisk` performs the transfer in one
instant between call and return.

### FileStore, Fat16

`Fat16` has `mount`, `read_file` (`Visible`), `write_file` and `delete`, one action per
sector it means to write: free the old chain one entry at a time, find the clusters, link them one
entry at a time, write the data, write the directory entry. `DiskFull`, `RootFull` and
`Refused` are the error returns, which leave on the disk what was done; `PowerLoss` may
come at any point. Directory slots keep the end mark and the deleted mark apart, as
`scan_root` and `find_free_slot` do. `Follow` follows a chain for as long as the reader
does. A cluster holds one value; a file is a sequence of at most `MaxLength` of them.

A device may refuse a write. For the data and the directory entry the operation returns an error
(`Refused`). `write_fat` throws the result away (`fs.rs:135`), so that the operation goes on and
returns `Ok`: a cluster that could not be freed stays in use (`FreeRefused`), one that could not be
linked stays free under a file that leads to it (`LinkRefused`, `Unlinked`), and a later file may take it.
The copies of the FAT are counted as one, which is the first: `read_fat` reads no other and `write_fat`
writes it first, so what is refused or cut off after it changes nothing that the driver ever sees.

`torn` is history: the files that an operation is replacing, or that a failure has damaged, a full disk
included. Nothing is assumed of what the callers do next: an operation on a torn file frees whatever
its entry leads to, and `Begin` counts every file that shares one of those clusters as torn too.

`FileStore` is a map from names to contents: an operation changes its file to what was
asked, in one instant, or fails; a failure or a power loss may leave *that* file in any
state (`Unknown`) and no other. The exceptions are the two above, by name: a write with a link that
was refused succeeds with a file that is `Unknown`, and an operation on a file that is `Unknown` may make
others so.

### Smp

`Smp` is the one job that the boot self-test runs: `parallel_compute` on the primary and
`secondary_main` on the workers, one atomic operation per action. `wfe` and `sev` are
modelled with the event register between them: `sev` sets it on every core, also on one
that has looked at `GEN` and not yet gone to sleep. A worker comes up before, during or
after the job, or never (`ComeUp` has no fairness). The result of a chunk is the chunk,
so a sum is how often each chunk is in it. Orderings weaker than sequential consistency
are not modelled: `PARTIAL` is read after an `Acquire` load of `DONE` that sees the
`Release` additions, and the workers read `NCHUNKS` after an `Acquire` of `GEN`.

### Tcp, Resolver

`Tcp` is two hosts that run the code of `net.rs` against each other. Everything that
touches the state runs masked (`critical`, the receive interrupt, the tick), so an action is
a socket call (`Connect`, `Accept`, `Read`, `Write`, `Close`), a way through `tcp_input`
(`RecvSyn`, `Refuse`, `RecvRst`, `RecvRepeatedSyn`, `RecvInSynSent`, `RecvSegment`) or through
`on_tick` (`TimeWaitEnds`, `GiveUp`, `Retransmit`). `tcp_output` is not an action: each of those
that calls it sends `Output(h, c)` and leaves `AfterOutput(c)`. The steps of `tcp_input` on an
open connection are functions composed in the order of the code: `TakeWindow`, `TakeAck`,
`TakeData`, `TakeFin`, then output, a pure acknowledgement if nothing went out, and `Reaped`.
The network keeps segments as a set: any of them may be next, which is reordering; `dup` leaves
one there, `Lose` removes one.

A sequence number is the connection it counts in and the distance from the initial one: two
connections do not share numbers (`isn` is a 1 MHz clock) and nothing wraps. Byte *k* of a
stream is *k*, so a payload is an interval and `got` can be compared with what was written.
Each host has one slot; ports, checksums and addresses are left out.

What the model showed about the code, none of which contradicts its comments:

* `tcp_close` before the handshake is answered (`SynSent`) sends the FIN at once and counts
  the SYN as a byte in flight, so that a byte written before is dropped unsent. `rushed`
  holds such connections; `AckedIsTaken` and `EofIsEnd` exempt them by name.
* A reset leaves the slot `Closed` and occupied: `tcp_close` frees it, and if the
  application has already closed, nothing does until a tick or segment that never comes.
  `DeadOnlyByReset` says that this is the only way.
* The acknowledgement that ends the handshake is not repeated; the server's SYN is.
* `FinWait2` has no timer, so `CloseCompletes` ends at the acknowledged FIN.

`Resolver` is `dns_resolve` with `udp_request` and the datagram queue `udp_rx`: a question,
its copies after `retry_ms`, answers that come late, and the identifier that `dns_parse`
compares.

### Vfs, Users

`Vfs` has the operations of the tree as operators on a value: an arena of nodes that only
grows, children as indices, `RemoveNode` that leaves the node in the arena, `MkdirP` that goes
down into whatever has the name (a file too, whose new children are then not stored),
`Serialize` and `Deserialize`. Both recursions of the code are turned into steps: `Serialize` goes by
the calls of `ser_node`, of which the last with an entry left is the one that goes on, and
`Deserialize` gives each entry of the image to the last node that still waits for one, as `de_node` does.

`Users` is everything in the system that changes this tree after the boot self-tests:
`users.rs`, `pkg.rs` and `mount` of `netfs.rs` (the shell's file commands use FAT16). An action
is one command on the one desktop task. `HistoryAppend`, `PkgInstall`, `PkgRemove` and `Mount` do not persist.

`persist` writes over the image in the region, sector by sector, and every caller ignores its result.
`Persist` ends with the new image on disk; with the old one, if the new is larger than the region; or with
what a write that was cut off or refused leaves there, some sectors new and some old, the call going on as
if nothing were wrong (`CutShort`) or the power gone (`CutShort` and `Off`). `Mixed` is the set of these
images: an arbitrary one in the theorems, sectors of the new image in front of sectors of the old one in
the run. `load` looks at a magic number, which is the same in every image, a length, and whether the bytes
parse; there is no checksum. So `Boot` loads whatever parses (`Parses`), a list of accounts that is new with
homes that are old too, and seeds a fresh tree only if nothing does. `disk_ok` and `tree_ok` are
history: the image was written to its end, the tree does not come from one that was not.

What such a tree may be: names twice in a directory, a file where a home should be, accounts without homes. What it
cannot be is anything but a tree, since `de_node` makes one of every input that parses, and it is stored
and loaded again without a loss. `TreeSound` and `Reloads` say so of all trees in the run; the names of a directory
and the accounts are properties of trees and images that are whole, and name `tree_ok` and
`disk_ok` where they need them.

### Heap

`Heap` is `heap.rs` in units of `MIN_BLOCK`. A *link* is where the code's `prev` points: the
head or the `next` of a node. `Before` is the walk of `insert`, `Insert` the new node with
both coalescings, `Carve` what `alloc` does to the first block that fits: unlink, give back the
front, give back the back.

## The runs

| run | what it asks | states |
|---|---|---|
| `scheduler` | frames owned once; core on live frames; a dying task has a successor; life cycle refined; next fit as written; no starvation; zombies reaped | 75,260 |
| `input` | queue, edge, order and ring; every event delivered unless refused | 115,991 |
| `input_at_boot` | the same delivery when a device is used before it is registered: **violated** | |
| `blk` | the driver is a synchronous disk; no transfer strays; calls return | 109,504 |
| `blk_vfs` | the same with callers that do not mask IRQs: **violated** | |
| `fat16` | directory and chains sound; refines a map of files; operations end; whatever callers do after a failure | 510,830 |
| `fat16_full` | no two files share a cluster (`FilesApart`), no transfer refused: **violated** | |
| `smp` | exact sum; no lost wake-up; the join ends | 52,644 |
| `tcp` | streams whole and in order; acknowledged means taken; end of stream last; timers; closes end | 227,849 |
| `dns` | a lookup fails only by timeout while the server answers: **violated** | |
| `vfs` | the tree is one, loaded from whatever parses; the image gives it back; accounts survive; how the working directory is lost | 211,374 |
| `heap` | the list sorted and coalesced, every unit in one block; no false out-of-memory | 9,003 |

### Bounds, and why they are enough

* `scheduler`: four slots, five pids, twelve frames, two-frame stacks, address spaces of
  four frames (root, page, table, page). One user task, one kernel task and a second user
  task need more frames than there are, at every point of spawn; four slots have the
  kernel task, a current task, a ready one and a zombie or free one, so that round robin
  can pass over a slot; five pids reuse a slot.
* `input`: two devices, two buffers each, indices modulo 4, a ring of two, five events.
  The ring overflows, each queue wraps in slots and in indices, both devices have
  interrupts pending at once.
* `blk`: two tasks, two sectors, two values, three calls, one queue slot, indices modulo 2.
  Three calls wrap the indices; a fourth would repeat. The violation is with a larger
  queue, so it does not depend on the wrap.
* `fat16`: three names for two slots, three clusters, two contents: an empty file (one cluster) and
  one of two clusters; one power loss or refused write. The disk and the directory fill up, chains are
  reused in a different order, a full disk can come before, after or instead of the fault, and operations on files
  that it has damaged follow. `fat16_full` has no fault at all.
* `smp`: the primary, two workers and three chunks. The same holds with three workers,
  the number the code allows (3,094,261 states).
  The system stops after the join, so deadlock is not checked in this run.

* `tcp`: segments, windows and buffers of one byte, two bytes in either direction or one each way,
  two bytes in `sendq`, one retransmission, one connection, one fault: a loss, a duplicate, or a
  timer that expires while segments are under way. The window closes and is probed, a FIN waits
  behind data, and both ends close at once. With an MSS and a receive capacity of one, a segment is
  taken whole or not at all, so that an acknowledgement in the middle of a segment does not occur
  here; the theorems `StreamsAreIntact` and `AckedBytesAreTaken` hold for every MSS and capacity and
  so cover it. Hosts with nothing to do may stop, so deadlock is not checked.
* `dns`: two questions, two copies; the violation needs one late answer.
* `vfs`: two accounts (one is `USER.TXT`'s), one package, mount points below a home, which `mkdir_p`
  makes again after a purge, and below a file relative to the working directory; an arena of about
  ten nodes and a region of twelve. Homes are purged while they hold a mount point, while they are
  the working directory, and re-created; the image outgrows the region. The last account is refused.
  Sectors are of four nodes, written in their order, with zeroes behind the image. No write is cut
  off over what another one that was cut off has left (`MixAgain`) until a whole image is there; the
  theorems are for any mixtures.
* `heap`: ten units from an odd address, sizes 1 to 3, alignments 1, 2 and 4: front and back
  remainders, both coalescings, and a full heap.

`MaxPid`, `MaxEvents`, `MaxCalls`, `MaxFaults`, `MaxOpen`, `MaxBytes` and `MaxNodes` bound
counters, `MixAgain` the mixtures; the systems stay alive at the bound (timer, scheduler) or stop there deliberately.

### Fairness

* Scheduler: the timer keeps firing and what runs masked gets to its end (weak fairness of
  `TimerIrq`, `IrqTail`, `ExitSwitch`). What the kernel task is in the middle of resumes
  where it was when it gets the CPU, and the desktop loop calls `reap` again and again: strong
  fairness of `KernelStep` and `Reap`, as the task is preempted in between. No task is
  assumed to yield or exit.
* Input: the core runs, latched interrupts are taken, the tick comes; nobody has to type.
* Blk: the device answers every request; the scheduler gives each task the core again and
  again (`ReadyRuns` of the scheduler) and it moves on then.
* Fat16: an operation runs with IRQs masked and the driver answers (`CallsReturn` of the
  driver).
* Smp: each core that is up executes. Cores need not come up.
* Tcp: the wire delivers what it does not lose and timers run: while a segment is under way
  or a timer is on, something arrives or expires (`WF_vars(Progress)`). No application is
  assumed to read, write or close.

## Where code and documentation disagree

Four runs end in a violation, each with a trace that TLC prints.

* **Registration after enabling** (`input_at_boot`). `init_device` enables the interrupt
  (`input.rs:143`) before it stores the device where the handler looks for it (`:146-149`).
  An event in between spends the edge, nobody acknowledges the device, and it never
  raises another: keyboard or tablet are dead until reboot. `NoLostEdge` and `Delivered`
  hold when devices are first used after registration, which is what `input` assumes.
* **`vfs.rs` outside the critical sections** (`blk_vfs`). `blk.rs:3-4` says that callers
  serialise through the critical sections of `fs.rs`. `Vfs::persist` and `Vfs::load` do
  not; a tick in the polling loop lets `net-services` rewrite the header of the posted
  request.
* **Free first, then look** (`fat16_full`). `write_file` frees the old chain before it
  knows that the new content fits (`fs.rs:210-234`). On a full disk the entry keeps leading to free
  clusters; the next file takes them, and two files share one (`FilesApart`). No device fails in this run.
* **Answers from before** (`dns`). `net.rs:1125` says that `dns_resolve` returns `None` on "no-DNS /
  timeout / NXDOMAIN". Its port is fixed and nothing empties `udp_rx`: a late answer to an earlier
  copy or question is taken out by the next call, refused for its identifier, and the call
  returns `None` at once. Each later call can be one answer behind.

The comments on `load` (`vfs.rs:292`: "or None if no valid image is stored") and on its call
(`vfs.rs:343-344`) speak of valid images. `load` cannot tell: an image of which some sectors are new and some old has the
magic and, as a rule, parses. `Users` does not assume more than the code checks.

A spawn that fails for lack of frames loses those it had mapped (`spawn` returns with `?`).
The model has it as `lost`, and `FramesPartitioned` allows exactly that leak.

## The proofs

All constants are arbitrary within the named assumptions (`SchedulerAssumption`,
`NFramesAssumption`, `QueueAssumption`, `InputAssumption`, `BlkAssumption`,
`Fat16Assumption`, `SmpAssumption`, `HeapAssumption`, `UsersAssumption`), which TLC evaluates in
the runs. `UsersAssumption` says of a mount point only that it is a path from the root or from the working
directory.

**SchedulerProofs.** `TypeInv` is `TypeOK` and that a pid in hand is below `nextPid`.
`CpuInv` is what the switches rely on: the kernel task is never free or a zombie
(`KernelAlive`, so a dying task always has somewhere to go), exactly one task is running
unless one is dying (`OneRunning`), and the core's stack and tables are those of the current
task. It gives
`AlwaysSomewhereToSwitch` and `CoreFramesLive`. `FramesInv` is the partition together with
what `spawn` and `reap` have in hand at each `op` (`OpFrames`) and that free slots hold nothing
(`EmptySlots`); it needs `CpuInv` because `reap` may free
only what no core uses, and gives `FramesOwnedOnce`. `PidInv` (no pid twice in the table)
gives the refinement `ImplementsTaskLife`, one step of `TaskLife` or none for each action.
`ScanIsExact` is about the loop of `alloc_contiguous`, which the model otherwise replaces by what it
returns. `Seen` is what a pass knows after some frames: its run of free frames ends where it stands
and cannot be prolonged downwards, and no fit ends at or before it; `Stands` says which of the two passes
it is in, and that the first found nothing. With the base that was found these make `ScanInv`,
which holds after every turn (`ScanIsNextFit`, an induction over the turns).

**InputProofs.** `IInv` is the type invariant, which bounds `head` by `tail + RING`, and that
between its accesses `pop` has an event to read and has read the oldest (`PopInv`). That two
positions less than `RING` apart are different slots is `ModDistinct`; from it a push does
not touch the window, and `RingImplementsFifo` follows. `EdgeInv` says that a raised line or
an unread buffer has an edge latched or its handler running, and that only known devices have
edges; `NoEdgeIsLost` is therefore for devices that are first used when known (`Touched` is
`{"known"}`), the assumption whose failure `input_at_boot` shows. `QueueInv` describes both rings of
a queue entry by entry: what is posted and what is used are runs of distinct buffers that make up
all of them. Indices wrap at `IdxMod`, which the queue length divides, so that runs of at most
`QLen` entries lie in different slots (`SlotsDistinct`). `OrderInv` puts the events of a device in
line over the used ring, the handler, the ring of events and the loop, each part later than the
next; it rests on `QueueInv`, for a buffer must not be written while it waits.

**BlkProofs.** With callers in `fs.rs` only: at most one task is in `request`, and it is the one on
the core (`Exclusive`); header and descriptors hold that task's request from the stage that writes
them (`Scratch`); the queue and the device hold at most that request, in one of three stages
(`Flight`); and the buffer holds what the caller gave until the transfer is made (`Data`).
`NoTransferStrays` follows; under the mapping of `Phase` and `Answers` the completion by the device
is the abstract transfer (`DriverIsSynchronous`). Both would be false with `vfs.rs`.

**Fat16Proofs.** `TypeInv` adds to `TypeOK` that a write that has found its clusters has a
content (`Working`) and that a deletion has a slot to mark (`Marks`). With `DirectorySound`
itself, `Scan` says that `scan_root` sees every file; `OpInv`, that the slot an operation
remembers is still that of its file, or that there still is none. Together they are inductive:
`DirectoryStaysSound`, through power losses and refused writes.

The other two theorems are for all callers as well: what a failure has damaged is in `torn`, and
nothing keeps callers from writing other files before they repair it. The invariant `FatInv` says
that there is a `Layout`: a set of clusters for each settled file, that is, one that is not torn,
and the rest, the loose ones. A settled file's clusters are linked in increasing order, which is
that of `chain.push`, as many as its size asks for, and hold its content (`Stored`, `Owns`); no two
files share one and none is loose (`Apart`); and everything the operation reads or writes next is
loose and leads to loose clusters only (`Closed`). So whatever an operation does, it does to loose
clusters. Torn entries may lead anywhere: into a file that took a cluster of theirs, too. Therefore
an operation on a torn file first adds to the loose clusters those of the files it would damage,
which are torn from there on (`BeginLayout`). `Rising` says that every link goes upwards, since the
search for free clusters goes from 2 up; so what failures leave has no cycle, however old and new
links join. `Accounted` adds that before the first failure nothing is lost: what is in use is a
file's, the new chain's, or the rest of the old one. `Phase` says how far the new chain is linked
and written: a cluster that is done is linked to the next one or, its write refused, still free
(`Joined`).

From there `Fsck` and what `read_file` returns are statements about chains, which `Follow` computes
step by step: `FollowDef` (the recursive function is one), `WalkChain` (it goes through the clusters
of a chain in their order), `WalkEnds` (no walk goes on for longer than there are clusters) and
`ReadBack` (reading gives the content held), by induction over the steps. That gives
`VolumeStaysSound`; and `ImplementsFileStore`, for `WriteEntry` and `MarkDeleted` are
then the steps of `FileStore`, the first with `Unknown` as content if a link was refused, and
nothing but `Begin` on a torn file changes what another file reads as.
`Fat16Assumption` says that every cluster number is below 0xfff8 (`ChainEnd`), where the loops of
`fs.rs` stop: an entry from there on means the end of a chain.

**SmpProofs.** Every chunk below `CHUNK` is owned by one core, which works on it or has added it
to its `PARTIAL` (`Owned`); `DONE` is the number of chunks that are taken and in no core's hands
(`Counted`, a cardinality that `Count` and nothing else raises by one). When it reaches the
number of chunks, that set is all of them, so no core is busy and none will be; from there the
sum is the owners' chunks that were added so far (`Summed`). `JoinIsExact` follows for any number
of cores and chunks. `NoWakeupIsLost` is inductive with `Inv`.

**HeapProofs.** `HeapSound` is inductive as it stands. Between two links of the list there is a gap
(`ListOk`), so the walk of `insert` ends behind the last block below the new one and in front of the
first above it (`BeforeStops`, `InsertBetween`); `InsertList` is the four cases of touching one,
both or none of them, and `UnlinkSound` the removal of a block: each changes the free units by
exactly the block's, and the count with them. `CarveSound` composes them for `alloc`. That gives
`HeapIsSound`. Because neighbours have coalesced, a run of free units lies in one block
(`RunInBlock`), and since rounding up never passes an aligned address (`ModUp`), that block fits:
`NoFalseOomHolds`.

**TcpProofs.** `TInv` adds to `TypeOK` the shape of connections and segments: whose tags they carry
(`ConnShape`, `SegShape`), `una` at most `nxt`, a FIN sent only after the application closed, a
reset without payload or number. It is inductive, which gives `TypeCorrect`. `Covered` is what
`tcp_output` needs to leave the timer right: something in flight means that it runs, and a FIN that
was sent means that all of `sendq` is in flight (`OutputTimed`); with it `TimerIsArmed` is inductive.
`OnlyResetsStrand` goes through the steps: every other way into `Closed` ends in `Reaped`, or finds
the application still holding the connection.

What the streams carry is proved in four layers, each inductive with those before it. The steps are
sorted by what they do to one connection (`Kinds`: repeat, stop or send; a segment that is received
(`Gets`); an opening), so that an invariant has a lemma per kind and not per action.

* `Sender` ties the sender's numbers to its stream. As a rule `una` is one past `drained` and
  `drained + q` is what was written (`Proper`). The exceptions are a connection not answered yet
  (`Fresh`), a server connection that took a FIN before it was open, which nobody hears (`Mute`),
  and the client closed before it was open (`Early`), whose numbers are off by one.
* `Streams` says that every segment in the network carries the bytes that its number says
  (`DataRight`) and that a FIN marks the end (`FinRight`). `FinMark` is what stays true of an end:
  no data, now or later, lies beyond it, and its sender takes no more.
* `Receivers` says that `got` is `1, 2, ...` up to `rcv`, and after the FIN is all that was
  written. That is `StreamsAreIntact` and `EndComesLast`.
* `AckInv` says that an acknowledgement in the network covers what the peer has taken, or comes
  after its FIN, when everything was taken; and that `drained` stays below both. That is
  `AckedBytesAreTaken`.

**UsersProofs.** The walks of `Vfs` are recursive functions of the number of turns, and each has a
lemma (`ResolveSteps`, `MkdirSteps`, `LeavesSteps`, ...) that gives its first value and its step;
what holds after every turn follows by induction over the turns. `Inv` says that the tree in memory
(if `tree_ok`) and the one on the disk (if `disk_ok`, and there is one) are arenas (`Arena`): an
entry comes after its directory and names it as its parent, names within a directory are distinct,
and a file lies in `/etc` or at least three levels down. It is stronger than `TreeSound` also for
the nodes that were removed and stay in the arena, and for the working directory, which is the root
or something whose parent is `/home` (`AtHome`). Of a mixture of images it asks nothing but that it
is one (`ImageParses` says what parses): a call in a tree that was loaded from one may do anything
to it, and what such a call stores counts as not whole (`BlindInv`). `TreeStaysSound` follows: the
tree is sound unless it was loaded from an image that was not written to its end.

`WhatIsStoredReloads` is a statement about two walks. After any number of turns the calls of `ser_node` and
the nodes of `de_node` are in step (`Copied`): the k-th node is a copy of the k-th call's, its parent the
call's, and what it has got and what the call has left make up the entries. Every node is written
at most once, for it has one place, so the number of turns that `Serialize` takes is enough (`AllWritten`, which
counts nodes); then every node has all its entries (`CopyWhole`) and shows the same (`ImageTree`), by induction
from the last node to the root.

For the accounts, `Full` adds to `Inv` that the list in `/etc/users` has nobody twice and that each
of its names has a home (`Housed`), in memory if `tree_ok` and on the disk if `disk_ok`
(`AllHoused`). The steps are sorted by what they do (`StepIs`): a boot, a power failure, a call that
does not persist (`Quiet`) and one that does (`Stored`). A call is `Altered`: it leaves the list,
adds a name with its home, or takes one off. Most calls leave the files of `/etc` alone (`EtcKept`).
A purge takes off the named home and what was in it, and spares every other home (`PurgeSpares`), so
the working directory is lost only with the account it was the home of (`Lost`); that is
`OnlyPurgeStrands`. What lies in the tree (`InTree`) is the largest set whose members are listed in
a directory of the set (`BelowExists`, `InTreeIs`). The image holds what the tree holds (`CopySeen`)
and no more nodes than lie in it (`ImageSize`), so a tree that fits the region is stored; that gives
`AccountsAreKept`.

Proved properties are checked by TLC as well. Only checked by TLC: everything under
fairness (`ReadyRuns`, `ZombieReaped`, `Delivered`, `CallsReturn`, `OperationsEnd`,
`Joins`), which the provers do not reach; `CloseCompletes` of `Tcp`; what `TreeSound` and `Reloads` say of
trees that come from a mixture of images, since the lemmas about walks rest on `Arena`; and the violations.
The library's induction theorems take an operator as a parameter and cannot be used; where a proof
needs induction over the numbers it uses `NatInduct`, which says the same of a set and follows
from the order of the numbers being well-founded.

## What is not covered

* Registers, trap frames, page table bits, and the boot sequence but for the windows that `Input`
  models.
* `Fat16`: refused transfers of FAT and root sectors for reading (the code takes the FAT's for
  zeroes, `fs.rs:124` and `:133`, and ends a scan of the root early, `fs.rs:148`), with them a
  `write_fat` that writes back a sector it could not read; the copies of the FAT beyond the first,
  which nobody reads; the granularity of a FAT sector, of which `write_fat` changes one entry;
  sectors persist in the order in which they are written, so a device cache that reorders them is
  outside; the count of clusters against the volume's end.
* `Blk`: the single stores of the header and of the descriptors; the bound on the turns of the
  polling loop and the panic behind it (`blk.rs:86`).
* `Smp`: PSCI, the stacks of the cores, the spinlock (unused) and a second job, which no code
  starts; a worker that is late for one job would enter the next with reset counters.
* `Virtqueue`: negotiation and the probe.
* `Tcp`: ARP, ICMP, DHCP, checksums, several slots and the reuse of ephemeral ports; wrapping
  sequence numbers, with them the poisoned `seg_seq` of `net.rs:776`.
* `Users`: user names `.` and `..`, which `useradd` accepts; refused reads of the region, after
  which a boot seeds a fresh tree; in the run, images cut inside a node, which mix the bytes of two
  (in the theorems, `Mixed` has whatever images such a mixture may be); the self-tests of a full
  boot, which make and remove files of their own.

The map covers a small share of the lines of the repository. More than nine tenths of them are
parsers, decoders, interpreters, layout, drawing, cryptography, generated tables and font
data (`browser.rs`, `js/`, `wm.rs`, `fonts_generated.rs`, `h264/`, `mp3/`, `cc.rs`, `wasm/`, `shell.rs`):
functions of a string or a picture, with no state that outlives the call other than the picture,
and no concurrency. Model checking has nothing to say about them that a test with the same
input would not, and a model of them would be a copy. What is left is the kernel, its
drivers, file systems and network, and there the share is what the table of components says.
`PROJECT.json` gives the reason for each part.

## The plan

The order was by how much depends on a part and how little a test reaches it. Done: scheduler
with frames; virtio queue with input and with the block driver; FAT16 over an abstract disk; fork
and join; TCP and the resolver; VeilFS with the accounts; the heap. What a further
step would take up:

1. `Snd` with the two audio tasks of the window manager: one player at a time, a Stop is
   obeyed.
2. `netdev.rs` on `Virtqueue`, with the receive interrupt enabled before the driver is stored.
3. Several slots in `Tcp`, with ephemeral ports.
4. `.` and `..` in the paths of `Vfs`, and with them the accounts that `useradd` takes of these names.
