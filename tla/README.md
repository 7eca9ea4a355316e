# A TLA+ verification of eclair-os

eclair-os is a small multitasking operating system for the i686 PC: a kernel
(`src/kernel`), a C library (`src/libc`), a window system (`src/bin/wm`,
`src/lib`), a few programs (`src/bin`), a boot loader (`src/boot`) and host tools
that build its file system (`src/tools`). This directory holds TLA+ models of the
parts in which order and interleaving decide whether the system is correct, the
TLC configurations that check them and proofs that TLAPS checks.

Modules are translated from the C source, and each mapped definition names the
lines it stands for (`PROJECT.json`, "map"). File and line references below are
to `src/`.

## 1. Inventory

One processor runs everything. System calls and processor exceptions enter the
kernel through interrupt gates, i.e. with interrupts off; `task_unlockcli` turns
them on when the counter `nlockcli` returns to 0. **Where that counter is 0, the
timer may switch to any other task**; everywhere else kernel code is atomic. All
hard behaviour of the kernel comes from that rule.

| Part | State | Operations | Interacts with | What is hard | What makes it correct |
|---|---|---|---|---|---|
| Multitasking core, `kernel/task.c` | `taskmap`, `lists[]`, `task_active`, `nlockcli`, `task_nlockpost`, per task: state, slice, wake time, signal, `stale`, awaited process, resource | schedule, block, unblock, timer interrupt, sleep, wait for a process, acquire and release a node, signal, raise, new, terminate, clean up, sbrk, mmap | everything else calls it | interleaving of tasks at every unlock, signals at any place, ids that are reused | lists and states agree, one running task, the interrupt lock is balanced, a node has one holder, sleeps and waits end and not early |
| Loader, `kernel/elf.c` | a dummy node, the static `res` of the load in progress, header and argument buffers | `elf_load_task` in the parent, `load_entry` in the child | task core, file system, paging | the hand-over between two tasks through one static variable | one load at a time, every load is reported |
| System calls, `kernel/syscall.c` | none | argument checks and dispatch | all of the kernel | unchecked arguments | a bad argument is refused |
| Interrupt entry, `kernel/idt.c`, `idta.asm`, `mm/gdt.c` | descriptor tables | dispatch, exceptions to `SIGSEGV` | task core | an exception inside a handler | control returns to where it was |
| Paging, `kernel/mm/paging.c` | frame bitmap, page directories and tables | map, unmap, allocate a frame | heap, task memory | frames freed twice or shared | a frame belongs to at most one page |
| Kernel heap, `kernel/mm/heap.c` | a list of blocks in mapped pages | kmalloc, aligned kmalloc, kfree | every kernel part | split and merge, giving pages back, no lock of its own | blocks are disjoint, what the kernel touches is mapped, free space merges |
| Input queues, `driver/device.c`, `driver/ps2.c` | rings of 32 keys and mouse events, scan code state | put from the interrupt, get and flush from tasks | terminal, window manager | interrupt between two steps of a reader; the full ring | a FIFO that drops only when full |
| Channels, `vfs/chnlfs.c` | per channel: owner, source, destination, write lock, one message | open, read, write, ioctl (set destination, wait, lock) | task core (wakes a sleeper), window manager | a message that comes between the look and the sleep | a message reaches its destination once, a waiter wakes |
| Virtual file system, `vfs/fs.c`, `devfs.c`, `ramfs.c` | node tree, reference counts, open files of a task | resolve, open, read, write, close, ioctl, create | all file systems, users | counts over failures and over fork-like loads | the count is the number of opens; a node lives while open |
| ecfs, `fs/ecfs.c`; ATA, `driver/ata.c`; `fs/mbr.c` | block chains on disk, table of open entries; the state of the ATA channel | open, read, write, close; sectors by polling | VFS | a transfer interrupted by a switch, chains that end early | a file's bytes are those of its chain |
| ext2, tarfs | on-disk structures | look up, read | VFS | indirect blocks | read returns the file's bytes |
| Sound, `driver/ac97.c` | ring of buffer descriptors, number of bytes written | write from a task, interrupt per buffer | VFS, task core | writer and interrupt share counters | samples are played once and in order |
| Time, `driver/pit.c`, `rtc.c` | `timens` | tick, set up, read the date | task core | 64-bit time on a 32-bit processor | time only advances |
| Display and bus drivers, `driver/fbcon.c`, `vgacon.c`, `uart.c`, `pci.c` | cells, place of the next character, escape sequence that has begun, colours; device lists | draw, scroll, escape sequences, enumerate | terminal | sequences that other text cuts in two | the screen shows the end of the text |
| Terminal, `kernel/tty.c` | the terminal devices | read a line or a key, write, kernel messages | input queues, consoles | blocking reads; messages in the middle of what programs write | a line is delivered once; what a program writes stays whole |
| Users, `kernel/users.c` | users and groups read from `/etc` | look up, check | VFS, system calls | users that change with files open | permissions follow the mask |
| Start-up, `kernel/main.c`, `init.c`, `boot.c`, `multiboot.c` | boot information, frames in use | take over the loader's structure, mount the root, load init, idle loop with clean-up | all | frames given away before they are known to be in use | nothing that was loaded is overwritten; init runs |
| Boot loader, `boot/*.asm` | config entries, table of resolutions, the menu's registers, memory map, where things were loaded | parse the configuration, menus, countdown, load kernel and ramdisk from ecfs or ext2, leave a structure for the kernel | the disk formats, the kernel's start | menus longer than the screen, chains of metadata, memory shared by everything that is loaded | what was picked is what runs, unharmed |
| C library, `libc/*` | malloc's block list; per stream two buffers, error and end flags | malloc, free, streams, printf | system calls | buffers ahead of and behind the kernel's position, calls that fail in the middle; split and merge | a stream behaves like the file; formats denote their arguments |
| Window manager, `bin/wm`, `lib/wm.c` | windows, z-order, focus, the message in the channel | serve one message, input, draw | channels | clients that vanish in the middle of a request | each request gets its reply |
| Widgets, `lib/crepe` | boxes, contexts | layout, draw | window manager | – | – |
| Programs, `bin/*.c` | the shell's variables, last status, if block | init, sh, login, tools | system calls | words and blocks across statements and lines | a script runs what it says |
| Host tools, `tools/*` | a disk image, nodes with cached blocks | make, mount and change an ecfs image | the disk format | blocks freed and used again, caches of an open file | images are consistent, and read as they were written |

`PROJECT.json` lists the same parts under "components" with their status, and
under "hazards" the places where they can go wrong.

## 2. Plan

In order of importance; all of these are written.

1. **Task**: scheduler, blocking, timer, signals, waiting, node acquisition,
   loader hand-over, termination. Everything else runs on it. **TaskProofs**.
2. **Input** and **Channel**: the rings as an implementation of a bounded FIFO
   (`EventQueue`), the channel's blocking read and the window manager's
   request/reply protocol over it as an implementation of `Rpc`.
   **InputProofs**, **ChannelProofs**.
3. **Memory**: the heap's block list and the frame bitmap with `task_sbrk`,
   `task_mmap` and `task_free`. **MemoryProofs**.
4. **Files**: descriptors, shared nodes, permissions and ramfs, as an
   implementation of `FileStore`. **FilesProofs**.
5. **Ecfs**: the volume as mkecfs makes it, mntecfs changes it and the kernel
   and the loader read it, as an implementation of the same `FileStore`.
6. **Wm**: the resources, windows, focus and redrawing behind the protocol.
   **WmProofs**.
7. **Stdio**, **Printf**, **Console** and **Terminal**, which composes them:
   from printf to the screen; streams as an implementation of `Stream`.
   **StdioProofs**.
8. **BootMenu**, **Ext2**, **Shell**, **Startup** and **Boot**, which composes
   them: from the first sector of the disk to the end of init's script.

Not written: allocations that are interrupted, code of signal handlers, several
readers of one ring, malloc, the sound driver's ring; proofs about Ecfs and Boot
(section 13 says why).

Abstract specifications: a bounded queue that drops when full (`EventQueue`),
requests and responses (`Rpc`), files as sequences (`FileStore`, which two
modules implement), a stream without buffers (`Stream`). Each of them is a PROPERTY of a run of the detailed module.
The scripts of module Shell have an abstract meaning as well (`Follow`), which
what has run is compared with.

## 3. Module Task

### State and code

| Variable | Code |
|---|---|
| `list`, `state`, `active`, `nticks` | `lists[]`, `task->state` (`FREE`: `taskmap[id]` is NULL), `task_active`, `task->nticks` |
| `nlockcli`, `nlockpost`, `postponed` | the counters of `task_lockcli` and `task_lockpost`, `task_postponed` |
| `ctx` | the kernel frame in which a task was switched out: `block` in `task_block`, `irq` in `task_irq`, `entry` before its first instruction |
| `pc` | the place a task has reached in its system call |
| `waketime`, `arg` | `task->waketime` and the local variable of `task_nano_sleep_until`, as ticks from now |
| `pwait`, `wstatus`, `taskres`, `load`, `loadres` | the fields and arrays of the same names; `loadres` is `elf.c`'s static `res` |
| `sig`, `sigh`, `stale`, `sigdone` | the signal fields of `task_t`; `sigh` is the set of signals with a handler |
| `res`, `held` | `task->res`, `node->held` |
| `freed`, `watch` | history for the properties FreedOnce and NoReuseWhileAwaited; no action reads them |

One action is one stretch of code between two places where `nlockcli` is 0, so
that `TimerIrq`, which is enabled exactly then, can fall between any two of them.
The timer interrupt itself is cut into the iterations of its loops
(`WakeSleeping`, `WakePaused`, `WakeSignaled`, `WakePwait`, then `SliceEnd`);
while it runs nothing else can. `Schedule` is `task_schedule`, and a task that
is switched to continues with the action of the frame it was left in
(`Resume`, `IrqReturn`, `LoadOk`, `LoadFail`), which gives back the lock that
the task that left the processor had taken.

A program (`Program(t)`) makes any of the calls named in the constant `Calls`,
with any arguments, at any time, in any order; only the instance restricts it.
The kernel task K is the boot task, which loads init and then loops over
`task_cleanup`.

### Abstractions

- Time: only the number of ticks left matters. `Past` stands for a wake time
  that has gone by and for the code's 0, `Never` for `UINT64_MAX` and for the
  10^5 seconds of a missing timeout.
- A node is a model value; what an operation does with it is left out, it only
  lasts for a while (`pc = "op"`).
- A handler is entered or the task terminates; the handler's own calls are left
  out (see the hazard at task.c:205).
- Exit codes are 8 bits wide in `taskres`.
- `Room`: programs start a process only while an id is free, because
  `elf_load_task` dereferences the NULL that `task_new` returns otherwise.
- `Target`: programs do not signal the kernel task, or a task that has
  terminated, unless the instance says so. Both are possible in the code and
  both break it (section 14).

### Runs

| Run | Instance | Shows |
|---|---|---|
| TaskCalls | 3 tasks from boot; loads that succeed or fail, sleep, wait with timeout, node calls, raise and kill | ListsMatchStates, ActiveRuns, LockHandedOver, MutualExclusion: whatever the moment of a signal (waiting, granted but not running, operating), lists agree, the lock is balanced, two tasks never operate on one node. SleepsLongEnough: a sleep is not cut short except by a signal, although ticks fall between the computation of the wake time and the sleep. WaitHasStatus: a wait that was not interrupted returns a real status |
| TaskPwait | 4 tasks from boot; load, exit, wait, exceptions and handlers | NoReuseWhileAwaited: the id of an awaited process is not given away before its listed waiters are told, though `task_cleanup` may already have freed it |
| TaskLive | 4 tasks from boot, fair; three scenes (module MCTaskLive) | ReadyRuns; LoadEnds, also of loads that fail; WaitEnds: sleeps, and waits with a timeout, of 0 and 1 ticks; FaultEnds; GrantEnds: of two that wait for the node that a third one has, the first is served first, whatever comes back to the queue |
| TaskHeldLeak | 3 tasks from `Booted` | violation of HeldHasHolder |

`Booted` (module MCTask), from which TaskHeldLeak starts, is the state the system reaches when init has started
programs until every id is in use and everybody is in user mode. The only signals of that run go to a
waiter that the timer has just granted its node and that has a handler (`GrantedIsSignaled`), so that the
trace is that of the finding and not that of a task that is killed.

The *scenes* of TaskLive keep it small: in "nodes" three programs only use a node, in
"waits" two sleep and wait for each other's programs, in "faults" two raise exceptions, with and without a
handler, while others want a node. A scene only keeps programs from making a call;
the kernel's actions and the fairness are those of Task.

*Bounds.* Task ids are `0..NTASKS-1`; id 0 is always the kernel task. Three
user tasks are a holder and two that wait for its node, or a process and two
that wait for it; two are enough for a loader and its child. A time slice is
one tick (5 in the code), which only makes switches more frequent: a task that
needs longer is preempted in the middle, as with 5. `MaxSleep` is the longest
finite sleep, two ticks in TaskCalls, so that a wake-up can come early, on time or
late, with "for ever" besides. One signal number has a handler or not. TaskCalls
looks at the operations on nodes and at waits for processes one at a time
(`OneKind`): no state is explored beyond one in which a task has or wants a node
while another waits for a process. In TaskPwait one task at a time has a handler, while the last id
is free and no other waits, and only that task raises exceptions (`OneHandler`; TaskLive has more of
them, and without a handler too). TaskProofs needs no such bounds.

*Fairness.* `WF(Irq)`: the timer ticks and its handler ends. `WF(Switched)`: a
task that was switched to continues. `SF` of the kernel steps of each task and
of the kernel task's clean-up: a step that is enabled again and again, whenever
its task is scheduled, is taken in the end, because between two ticks the
processor executes instructions. It is strong because each step is disabled
while its task is switched out or the timer handler runs. Nothing is assumed of
programs, except that an operation on a node ends. GrantEnds has the extra
hypothesis that the timer finds the node free again and again; without it a
holder that releases and reacquires within its slice keeps the others out. FaultEnds
has the hypothesis that signals stop arriving.

Deadlock is checked in all runs: the timer always can tick.

## 4. Modules Input and EventQueue

### State and code

| Variable | Code |
|---|---|
| `ring`, `start`, `end` | `keys`, `kstart`, `kend` of a keyboard or `ev`, `evstart`, `evend` of a mouse (`device.h`, `device.c`) |
| `rel`, `other`, `mbytes` | the prefixes and the mouse bytes the driver has seen so far (`ps2.c`) |
| `stroke`, `wire` | the device itself: what the user does and the bytes it still has to send; external |
| `pc`, `key`, `got` | the place of a reader, the item or slot it holds, what it returned |
| `shift`, `linebuf`, `nread`, `nlinebuf`, `plinebuf` | the variables of `fbcon_read` |
| `text`, `out` | history: the line as edited, and what reads have returned of it |

`IrqKeyboard` and `IrqMouse` are the interrupt handlers, one byte at a time;
they are atomic, and may fall between any two actions of a reader, which are the
accesses it makes to the ring. `EventQueue` is the abstract queue: a sequence, a
stroke that is entered unless there is no room, reads that take its head, and a
flush that lasts a while. The refinement maps the ring to that sequence, and
what a mouse read will return to the slot its pointer points to, until the
copy is made.

### Run

**Input** checks two things. ImplementsQueue: everything a program reads is
what the user did, in order and once; the interesting case is `device_mouse_getev`,
which advances `evstart` before the event is copied, and is right only because
the ring is called full with one slot left. LineDelivered: a line read from the
console in pieces, of any sizes, is the line as it was edited. TypeOK says what
the variables range over; like those of Channel, Memory, Ecfs and Files it is
not a property of the run.

*Bounds.* A ring of 3 slots holds 2 items, so that it is full, empty and
wrapped around often. `LINEBUFSZ` 4 and `MaxLine` 2 leave room for the newline;
reads of 1 and 2 bytes return a line in one to three pieces. `Others` and
`UpCodes` keep the number of keys small: the queue is told apart by two keys,
with and without the prefix e0, pressed and released; the line editor needs a
character, return, shift (with its release) and backspace.

*Assumed.* A device has one reader: the ioctl node or the console (`Users`). The machine
has no other devices than keyboard and mouse (`DevicesAssumption`).

*Does not hold, and is not checked.* With both readers, each can find the same key and
advance `kstart` twice (device.c:252). Lines of `LINEBUFSZ - 1` characters and
more lose their newline and are counted longer than the buffer (fbcon.c:403).

## 5. Modules Channel and Rpc

### State and code

| Variable | Code |
|---|---|
| `source`, `dest`, `lockw`, `buf` | `info[id]` of `chnlfs.c`; `buf = None` is `size` 0. The owner is the window manager, which opens the channel first |
| `held` | the channel's node is held between a write and its wake-up; all other calls are one action each, because they hold the node throughout |
| `state` | whether a task runs, sleeps, or sleeps with its wake time set to 0 (`"due"`) |
| `pc` | the place in `send_message` (`lib/wm.c`) or `server_update` (`bin/wm/server.c`) |
| `pid`, `message` | the server's variables; `message` is `buffer` |
| `req`, `rspbuf` | a client's request, and the last response that a read put into its buffer: a read that brings nothing leaves the older one there (`wm.c:30`) |
| `served` | history: whose request was processed |

Handlers of the server are left out: a response says what the request was.
WAITREAD is three actions, `WaitRead` (look and release), `Sleep`, and the
look after the wake-up (`ServerWaited`; clients do not look at the result).
`Rpc` is the promise to clients. A request goes through the stages asked, served, addressed, answered;
`Stage` reads them off the channel. Once a request is answered, what its sender reads is the
answer to it (`Answer`). A client that looks while its response is addressed and not yet
written reads nothing and, as `send_message` does not look at the length, goes by the response
to an earlier request (`Miss`). The code does this (section 14); `Rpc` says that nothing else goes wrong,
and that this goes wrong at no other moment.

### Runs

| Run | Instance | Shows |
|---|---|---|
| Channel | three clients, two kinds of request | ImplementsRpc: one buffer for everybody, a sender asked for in one call and a message read in another, and still no response goes to the wrong client, and none is overlooked that has been written. RequestServed: the server's timeout makes up for lost wake-ups |

*Bounds.* Two clients are a sender and one whose message could be taken for the
sender's; the third makes a queue of waiting writers.

*Fairness.* The timer (`WF(Timer)`); `SF` of the steps of the server and of a client
that waits for a response, since waiters for the node are granted it in their order (GrantEnds of
Task). Nothing is assumed of a client that finds the channel busy and tries again,
and so it is not promised that it gets in.

*Not modelled:* signals during WAITREAD, clients that exit with a request
pending, requests that look like an empty channel (`NoneAssumption`), reads with a buffer smaller than the message.

## 6. Module Memory

### State and code

| Variable | Code |
|---|---|
| `used` | the bitmap of `paging.c` |
| `kmap` | the page table entries of the heap's pages; the kernel's tables exist from the start (`page_init_top`) |
| `blocks` | the list of `heap_block_t`, by address; the first one is `head`, in use and empty for ever |
| `umap`, `utab` | the user entries of a task's page tables and of its directory |
| `brkp`, `mappings` | the fields of `task_t`; `brkp` is 0 before the program is loaded |

Every call is one action. `Kmalloc` is `kmalloc` and `kmalloca`, which differ in
the alignment only; finding, appending, splitting and mapping are its parts, as
are merging and unmapping of `Kfree`. Frames are handed out lowest first, as in
`page_frame_alloc`; the pages of one call get theirs before the tables do, which
only changes their numbers.

### Run

**Memory** (module MCMemory, with symmetry of tasks) has a heap of four pages and two tasks of at most five, in ten
frames of which three are reserved. HeapSound is about
the heap alone: no sequence of splits, aligned allocations and merges lets a
block reach into the next one, leaves a header or an object without a page, or
keeps the heap from being one free block when everything is freed (its parts
BlocksDisjoint, HeapMapped and Coalesced). FramesCounted
joins both: every frame is reserved, or mapped in one place, or free.

*Bounds.* Pages of 8 units and headers of 3 let an object of 12 span pages, whose
inner page `kfree` gives back, an object of 3 fill a gap, and a split leave
nothing but a header. A task grows by one page
and one table at a time; both tasks and the heap need all seven frames together,
so that frames go from one to the other.

*Assumed*: frames are numbered from 0, which is reserved, and some are left for
the heap; stack, program and its growth lie in this order and a program fits
(`FramesAssumption`, `UserAssumption`); alignments divide a page, as in the calls of
kmalloca (ac97.c:97, uhci.c:94), and two headers are shorter than a page (`SizesAssumption`). By named guards: memory does not run out (`Room`); no header lies on
two pages (`OnOnePage`); programs do not give back all pages of a page table
(`Shrink`); the frame buffer is mapped only over memory that a program has and
does not give back.

*Does not hold, and is not checked.* All were found in experiments without these
guards, or with a stronger property:

- Without memory `page_frame_alloc` returns 0, which its callers map.
- `kfree` of blocks whose inner pages were given back before frees "frame 0"
  again for each of them (heap.c:240), after which frame 0 is handed out, and is taken for
  "not mapped" (page_get_frame); FramesCounted excepts it.
- The header that heap_find_aligned puts behind a last block that is free can fall on a page
  that is not mapped: merging adds up sizes and so loses what splitting left over, the free block then ends before
  the pages that `kfree` gave back inside it, and nothing maps a page
  before the header is written (heap.c:75). TLC finds it with headers of 3, pages of 12 and objects of
  1 and 3. HeapMapped asks for the place behind a last block in use only.
- A header that lies on two pages loses its second half when the block before
  is freed (heap.c:238).
- `task_free` looks at the tables below the final break only: a table that
  was needed before a large negative `sbrk` is lost (task.c:477).
- `task_mmap` records pages that are not present without mapping them; `sbrk`
  over them later allocates frames which `task_free` then does not free
  (task.c:817, 464).
- `sbrk` down over the frame buffer frees the device's frames (task.c:748).

## 7. Modules Ecfs and FileStore

### State and code

| Variable | Code |
|---|---|
| `disk` | the blocks of the volume as words; data is told apart by units |
| `dbrb`, `dtlrm`, `head` | the reservation bitmap, the top-level map and the head block's count on the disk; `head = Lost` when the block was overwritten |
| `brb`, `tlrm`, `nalloc` | their copies in the memory of mntecfs |
| `nodes` | mntecfs's nodes: size, extension blocks it remembers, the cached block and array block, how the file is open |
| `writes` | counts writes and truncations (the bound) |

A call of mntecfs holds `fs_lock` and is one action: `MkNod`, `MkDir`, `Open`,
`Truncate`, `Read`, `Write`, `Release`, and `Mount` and `Unmount` of the volume. What they
share is written as functions of a state record, one per function of
`mntecfs.c`: allocation and freeing with both maps, seeking to a block through
the caches, setting a block in the entry or an extension. The readers
(`KernelData`, `BootData` and their directories) are operators: they keep no state
that matters from one call to the next.

`FileStore` is a map from names to sequences that a write, truncation or creation changes
at one name, and that nothing else changes.

### Run

**Ecfs**: a directory with a file and a file in the root, sixteen blocks, all of
whose words hold junk at the start. ImplementsStore: data written through caches,
moved on by extension blocks, is what later reads and mounts see, and no write shows in
another file. Accounted: allocation, on the disk, is right after every call.
ReadersAgree: three programs with three ways to count blocks find the same
directories and bytes.

*Bounds.* Blocks of 32 bytes, 8 words, of which six are header and one is the
link: a file's second block already needs an extension. Three units in blocks of two make files
that end in the middle of a block; three writes or truncations allow a file
to grow, be truncated and reuse its blocks for the other. *Assumed*, by name:
`Room` (the volume is never full), `SmallVolume`, `Trackable`; files open for
reading or writing only, truncated only before use, without holes. HeadBlk is
1, a volume of 1024-byte blocks.

## 8. Module Files

### State and code

| Variable | Code |
|---|---|
| `nodes` | the nodes of a ramfs directory: name, owner, group, mask, `refcnt`, `oflags`, `len` and blocks |
| `held` | the nodes held while `ramfs_write` allocates |
| `files`, `uid` | `task->files` with flags, position and, as history, who opened it (`as`); `task->uid` |
| `pc`, `call` | how far an open, create or write of a task has got, with its arguments |

Opening is `OpenFind` (look the name up), then `OpenCreate` and `OpenOwn` for a
missing one or `OpenCheck` for a present one, then `OpenOpen`: between two of them
another task may do the same. Writing is `WriteData` and `WriteSize`. Reading,
seeking, closing and `SetUser` are one action each; `SetUser` happens with whatever
is open. `Exit` is enabled between any two steps, of calls in progress too, because
`task_irq` ends a task wherever it was interrupted: it closes what the descriptors say, and leaves the
node the task had acquired held for ever.

### Run

**Files**: two tasks with one descriptor each share a name; their users are root (whose uid,
0, a new file has until its owner is set) and one other.
ImplementsStore: what tasks read is what was written last where it was written. DescriptorsServed:
the count of a node is the number of descriptors, and every descriptor has
what it was opened for, although flags are looked at in one step and used in another.
PositionsInFile, BlocksMatch: truncation and the freeing of blocks behind the end fall in no
one's way. OwnersPermit: nobody can write to a file that was never his nor
permitted to him, root included. Who has changed users since keeps what he had opened. The one exception is
named in the property and is what the code does: root who opened the file between
its creation and the setting of its owner (`OpenedAs`, section 14).

*Bounds.* Two blocks of two units; calls transfer three, so that a write crosses a block and, the
second time, the end of the largest file. Flags are reading, creating, and
truncating, the three ways programs open. *Assumed*: SingleCreator, QuietExit and Cut = FALSE
(section 14), and that a program opens a file to read or to write it
(`FilesAssumption`).

## 9. Module Wm

### State and code

| Variable | Code |
|---|---|
| `res` | the resources: images with a class and a count, windows with place, size, image, layer and events (`server.c`) |
| `desk` | `window.c` and `screen.c`: the stack, where its middle and upper sections start, focus and focus before, what is to be drawn, cursor |
| `painted` | per window, the windows that were drawn no later than it was last, if it is on the screen |
| `input` | button and control key as `input.c` knows them |
| `phase` | whether the server waits for a message or has handled one |

A request and its answer are one action of the client, because module Channel
shows that a client waits for its answer. Then come the events of
keyboard and mouse (`Key`, `Mouse`; a key or a packet makes at most three of them) and
`Update`, which draws.

### Run

**Wm**: three resources, which one client makes, changes, shows and destroys in any
order. StackSorted: four variables changed by eight functions describe one
stack in three sections, and the focus is the top of the middle one. ImagesKept: ids are reused and images outlive or
do not outlive windows, and no window shows what is not an image. OnTop: with
nothing to draw, the focused window is on the screen, painted last of those below the upper section.

*Bounds.* One dimension; two places and a screen of two columns let windows overlap or not;
rings of two events fill up. The calls of several clients are those
of one, since the server does not look at the sender. *Assumed*: StackBound.

## 10. Modules BootMenu, Ext2 and Boot

### State and code

| Variable | Code |
|---|---|
| `pc`, `mach` | how far the machine has got; the machine: disk, BIOS, memory |
| `cfg`, `res`, `pref` | the configuration's data and entries, the table of resolutions and the preferred one |
| `left`, `list`, `option`, `vmode` | the countdown, the registers and the screen of `menu_list`, what was picked |
| `seen` | history: what stood under the marker when Enter was pressed |
| `ldr`, `mem` | what the loader remembers; memory, frames in use, page tables and mapped pages |
| `saved`, `root` | `boot_saved_info_t` with the parsed command line; `fs_root` |
| `file`, `held`, `got` | ext2: the file that is open and its cached block, `held` of the volume, the last read |

The loader and the kernel's start are sequential: one action is one step of `main`
or `kernel_main`, and what is nondeterministic is the user, the machine and
(in Startup) how programs end. Memory is an array of units, so that
what is loaded, copied, zeroed or made a page table really overwrites what was
there. Readers of ext2 are operators for the loader, which reads whole files,
and actions for the kernel, whose open file keeps a block between reads.

### Run

**Boot** (module MCBoot): nineteen machines. Two have an ecfs volume and menus of more
entries and resolutions than fit on the screen; two have an ext2 volume with
different block sizes, directories and inodes in several groups, and files with indirect
blocks; one is started by GRUB; seven stop in the loader (unmarked
partition, misplaced line, empty first stage, full configuration block, no VBE, a mode
that fails, a partition that cannot be mounted) and seven in the kernel or its
first programs (a missing mount point, /dev, init or shell, and user databases that are wrong).

- MarkerOnChoice: the marker, moved without redrawing, is on the selected item.
- BootsAsShown: the item under the marker decides on the kernel that lies
  in memory at the end, on options, resolution and root.
- MemoryKept: the nodes the kernel makes are the files that were packed, and page
  tables are taken from frames nobody uses, nor is about to.
- VolumeReads: both readers of ext2 agree with the volume.
- ScriptRuns: see section 11.

*Bounds.* Configuration blocks hold 8 lines, screens 3 items, pages 8 units, tables 4
pages; so that a menu scrolls, a ramdisk has its blocks in five pages and its
pointers in seven blocks, and tables are taken before, between and after the
frames that are mapped. *Assumed of machines*: a configuration without error
has an entry; one disk has the system's id; the longest region of the memory map can be
used and what is loaded fits; low memory suffices for the tables needed
while mapping; the ramdisk's last page is mapped (`Covered`) and its pointers do
not fill their blocks exactly; command lines have whole words; no sparse indirect blocks.

No fairness is assumed: a machine that does not stop at an error has a next step in
every state (deadlock is checked).

## 11. Modules Startup and Shell

### State and code

| Variable | Code |
|---|---|
| `mounts` | the paths that devfs and ramfs are mounted on |
| `db` | `users[]` and `groups[]` |
| `sh` | the shell: lines left, variables, `lastret`, `if_block`, `if_skip`, `cwdbuf`, `uinfo`; `ran` is history |

`Mount`, `UserInit`, `InitLoad`, `Script`, `ScriptEnds` follow `kernel_main` and `main` of
init. `Script` takes one statement: `Statement` is `parse_line`, over tokens (a
run of ordinary characters, a blank, a quote, a variable...), and `Exec` is
`cmd_exec`. A program that is started ends with any code of `Codes`.

ScriptRuns, in run Boot, compares `ran` with the same script as a structure of
assignments, commands and ifs. The scripts are units of files of the
ramdisk, so the property also rests on their being loaded, mapped and found, on the
mount that hides what one of them tests for, and on the user database.

*Bounds.* Six words to a statement and seven characters to a word, which the
scripts just reach. *Assumed of scripts*: no if inside an if, where the code goes wrong (section 14; `Exec` has it,
the scripts of the run do not), and (head of module Shell) absolute paths, whole escapes, a command after `if`, `!` and before `&`.

## 12. Modules Printf, Stdio, Stream, Console and Terminal

What a program prints, from `printf` to the screen. `Printf` (printf.c, and the
formats of kprintf in tty.c) and `Console` (fbcon.c, vgacon.c) are pure
functions: from a format and arguments to characters, and from a console and a
character to the console after it. `Stdio` is a state machine of one stream, and
`Stream` what it implements. `Terminal` composes them with programs, the
node of /dev/tty and a kernel that prints.

### State and code

| Variable | Code |
|---|---|
| `fp` | the `FILE`: `open`, `text`, `errno`, `eof`, `wbuf`; `unread` is the read buffer from `rpos` to `rcnt` |
| `data`, `pos`, `access` | the file, its position in the kernel and what the descriptor was opened for |
| `call`, `ch` | the call in progress (fputs, fwrite, fgets, fread) and what `fgetc` returned last |
| `topic`, `job`, `printed` | what a run is about; the format with its arguments, and what came of it |
| `devs`, `con` | `ttydev[]`, and the console that is its first |
| `out`, `todo`, `req`, `held`, `line` | per program its stdout, what the call has still to put there and its system call; the holder of the node; what has been typed |
| `said`, `turns`, `log` | history for the properties: what was printed, the reads and writes of the node in order, what each device was sent |

One action of `Stdio` is one `fputc` or `fgetc` with the system call that it may
make. In `Terminal` a write sends one character to one device at a time, because
`tty_write` runs with interrupts on: a message of the kernel, or another
program that gets the node, may come between any two. `Acquire`
and `Return` are `task_acquire` and `task_release`; `Interrupted` is the signal
that ends the wait.

### Runs

Run **Terminal** has three topics, one per behaviour, because what
a format means and what a file holds does not depend on who else
prints:

- *format*: every conversion with its flags and all integers of 4 bits
  (6 for long long), alone and followed by text and a second one, strings in fields. FormatsDenote compares with what
  the pieces of the format stand for, stated on the result (its digits denote the
  number, its sign is right, nothing precedes it) and not on the algorithm.
- *file*: one file of up to 4 characters, buffers of 3, five mode strings, seeks, files closed and
  opened again, errors of any system call. ImplementsStream: what
  a program sees is what it would see without buffers.
- *tty*: two programs, of which each prints or reads a line once, on the frame
  buffer with a serial line behind it and on the VGA console, with a screen of 4 by 2, two keys, and one
  message of the kernel with colours of its own. TurnsWhole: what was written at once comes out whole on
  every device. OutputInOrder: nothing that a program printed is lost or
  repeated before an error. ScreenShowsText: the screen is the end of all that was sent to it,
  in the right colours, compared with an endless sheet that knows neither scrolling nor wrapping.

*Bounds.* What is printed is longer than a buffer and than a row, and scrolls more than once. The
programs are alike, so that their symmetry is used. Programs print a bounded
number of times and then stop, so deadlock is not checked. Nothing is said of liveness.

*Assumed.* A program seeks between writing and reading (`Turned`, as the C standard
demands); the kernel prints no message while a character is being drawn, and none after the console has
hung (section 14). The rows of pixels of the screen are a multiple of the font's height.
*Left out:* the cursor, `ftell` and `SEEK_CUR`, which know the kernel's position only,
floating point, and the smallest `long long`, whose negation overflows.

## 13. What is proved

The proofs are about the modules as they are checked, for every value of the
constants that their named assumptions allow. A hypothesis beside these is named.

| Module | Theorem | States | Hypothesis |
|---|---|---|---|
| TaskProofs | TypeCorrect, ListsCorrect, BlockSwitches, LockCorrect, AcquireExcludes | TypeOK, ListsMatchStates, ActiveRuns, LockHandedOver, MutualExclusion | `"killktask" \notin Calls` |
| | SleepsAreLong, WaitsHaveStatus, AwaitedIdsStay | SleepsLongEnough, WaitHasStatus, NoReuseWhileAwaited | the same |
| InputProofs | QueueImplemented | ImplementsQueue | `OneReader`: a ring is not read by the console and by a program at once |
| | LinesAreDelivered | LineDelivered | `OneReader`; `LineFits`: a line leaves room for its newline and its 0 |
| ChannelProofs | RpcImplemented | ImplementsRpc | |
| MemoryProofs | FramesAlwaysCounted | FramesCounted | `Shrink = FALSE` |
| | HeapAlwaysSound | HeapSound | none, but like FramesAlwaysCounted under the guards of section 6: no header lies on two pages |
| FilesProofs | DescriptorsAreServed, PositionsAreInFile, BlocksAlwaysMatch, OwnersAlwaysPermit | the properties of run Files | `Cut = FALSE`: no signal ends a task between fs_open or fs_close and the change of the descriptor |
| | StoreImplemented | ImplementsStore | `Cut = FALSE`; `CountsBounded`: there is a largest count, as in a machine word |
| WmProofs | StackAlwaysSorted, ImagesAlwaysKept, FocusAlwaysOnTop | StackSorted, ImagesKept, OnTop | |
| StdioProofs | StreamImplemented | ImplementsStream | |

`DataFacts` holds what several of them need: smallest and largest
elements, division, positions in sequences, cardinalities.

The hypotheses are where the code stops working, not where the proof does: a signal to
process 0 empties the ready list; two readers of one ring take each other's items; a line that
fills the buffer loses its end; programs that give back all pages of a table leak it;
a task ended inside fs_open or fs_close leaves the count of the file wrong
(sections 3, 4, 6 and 14). Each is met by the instance of its run.

### The arguments

**Task.** One inductive invariant, `Inv`: `SchedInv` (lists, states, running task,
lock), `DataType` (types of the rest), `KtaskInv` (the kernel task blocks only
in the load of init, during which another task is ready), `LoaderInv` (the
spinning loader and the entry of its child) and `MutualExclusion`. Lists and lock cannot be
separated: that `task_unlockcli` of a resumed task finds exactly one lock to give back needs
that a task that is switched out has a frame, which needs that `task_block`
switched, which needs a ready task, which is the kernel task. One lemma per
operation on lists (`Unlinked`, `Moved`, `Schedule`) states what it does to
`Match`; then one lemma per action. On top of it stands `WInv`: `SleepInv` (a
sleeper that is ready has slept or was signaled), `StatusInv`, `WatchInv` (a waiter that is not listed yet is not
recorded as listed) and `OrphanInv` (that somebody waits for an id that has been freed is so
only until the next timer interrupt, with nothing in between).

**Input.** `Inv` (`TypeInv`, `WireInv`, `RingInv`, `ReaderInv`) relates what a reader has
between its two steps to the slots it looked at; `LineInv` says that line buffer and
delivered pieces together are the edited line. Each step maps to a step of `EventQueue` or to a stutter.

**Channel.** `ClientInv`, `RequestInv`, `ResponseInv` and `ServerInv` say, for each place a client or the server
can be at, what is in the channel and who its source and destination are; `WakeInv` that
who sleeps is not already answered. Then each action moves at most one request to its next stage
(`Advanced`), and the others none (`Stayed`).

**Memory.** `Sound`: no frame is at two places, every place's frame is used, every used
frame is reserved or at a place. It is stated for any assignment of frames to places,
so that each operation is one of a few changes to the assignment (`Ranked` and `AllocFacts` for what the
allocator returns, `Granted` and `Released` for pages mapped and given back). `FrameInv` adds what it needs: types, that heap
pages are not foreign frames, and which tables a task's pages are in (`TaskMaps`).

HeapSound needs `HeapInv`. `Laid`: blocks are apart, and of two free ones in a row the second is empty
and not the last. They do exist, since `heap_merge_front` stops at an empty block, and without this
clause nothing would say that the heap comes together when everything is freed.
`Backed`: the page of every header is mapped, all pages of a block in use, and, if the
last block is in use, those up to the end of a header behind it: that is why
kmalloc maps for two headers (heap.c:205). `HandedBlocks`
is about the split, `AppendedBlocks` about the three cases of
heap_find_aligned (`Extended` is what both kinds of allocation hand over to the
split), `FirstFacts`, `MergedFacts` and `NextFacts` about where merging begins and
stops. That a merged block does not reach the next one is a
fact about a sum (`BytesFit`). The sum is a recursive function; that it exists, and what it is bounded
by, is proved from the least index at which it would fail (`SumsExist`, `BytesFit`).

**Files.** `Counted` is the heart of it: a reference count is the cardinality of a set of
descriptors, which changes by one element at a time (`OneMore`). `OpenInv` says what a
descriptor was granted, `CallInv` what a call in progress holds while other tasks run, `MatchInv` that
blocks match lengths. `StoreInv` has what the refinement needs beside it: names are distinct, the file
that a task is creating is empty, and what a task that writes has put there so far is its own.

**Wm.** `Good`, a conjunction of `Table`, `DeskSet`, `SortedDesk` and `Kept`, over the table, the
stack and the images; one lemma per operation on the stack (`Insertion`, `Removal`, `Raise`) and per
part. The loops that move windows work under `StackBound` only, which the module assumes for
that reason. OnTop alone is not inductive, because it speaks only when nothing has to be drawn;
`Painted` says at all times that either everything has to be drawn and is
marked so, or the focused window is painted over those below it.

**Stdio.** `AheadInv`: what is in the read buffer is what lies before the kernel's position in the file,
so that the program's position is the kernel's less what is unread and plus what is unwritten;
`TurnedInv`: never are both buffers in use; `CallInv` for calls in progress.
With them each `fputc`, `fgetc`, `fflush`, `fseek`, failure included, is a step of `Stream`.

### Only model-checked

- *Liveness* (ReadyRuns, LoadEnds, FaultEnds, WaitEnds, GrantEnds, RequestServed) is outside the prover's reach.
- *Ecfs* (Accounted, ReadersAgree, ImplementsStore): chains and indirect blocks are folds over sequences.
  What a fold computes takes induction over data, and the library's induction theorems cannot be
  instantiated here; the argument by the least counterexample that the heap's sums got would have to be made for each
  of these folds and for every chain that VolumeReads and BootsAsShown follow. It has not been made.
- *Boot and BootMenu*: `Shell` compares with a script's recursive meaning (`Follow`), which keeps
  the modules that reach it from having theorems. MarkerOnChoice and MemoryKept have no such part in them: nothing known stands in the way
  of a proof, but none has been written.
- *Terminal* (FormatsDenote, TurnsWhole, OutputInOrder, ScreenShowsText): the meaning of a
  format is recursive, and characters, lines and screens are folds.
- *HeldHasHolder* is refuted (section 14).

## 14. What does not hold

The run of the kind "violation" and its finding:

- **HeldHasHolder**: `task_irq` grants a node by setting `held` and making the
  waiter ready; a signal before it runs makes it return -EAGAIN without
  `task_release`, and the node stays held for ever (task.c:973 and the same
  lines of open, write, close and ioctl). A task that got a free node and is signaled before it
  looks at `stale` loses it in the same way.

Stated in the modules, refuted by TLC when they are checked, and not kept as runs:

- **OneLoader** (Task): `elf_load_task` ignores `stale` after `task_acquire(dummy)`,
  so a signaled waiter loads concurrently with the holder (elf.c:125).
- **FreedOnce** (Task): between `task_free` and `task_block(TASK_TERMINATED)` a fatal
  signal runs `task_terminate` again (task.c:498).
- **ExitIsFinal** (Task) with `"killdead"`: `task_signal` does not look at the state
  of its target, so it moves a terminated task to the signaled list and the
  timer makes it ready again (task.c:691).
- **AwaitsSameProcess** (Task) with two waiters: between the check in `task_pwait` and
  the caller's entry in the list the process can end and its id be reused
  (task.c:774).
- ActiveRuns with `"killktask"`: with the kernel task blocked the ready list
  can be empty and `task_block` returns to the blocked caller (task.c:343).
- FaultEnds with `"signone"` (no run sends signal 0, nor a second signal while the handler waits): `sys_kill` accepts signal 0, which overwrites a
  pending SIGSEGV; the exception handler then spins for ever (task.c:105).
- **ReadableMessage** (Channel): the server sets the destination of a response before it
  writes it. A client that is about to wait finds itself the destination, reads
  nothing and thereby resets it; it goes by the response to an earlier request, which is still in
  `rspbuf` (wm.c:30), or, if it has none, fails. The response then goes to the owner, and the
  server answers itself from then on (chnlfs.c:114, server.c:39). ImplementsRpc has this as the step `Miss`.
- **MessageTaken** (Channel): a response written between the release of the node in
  WAITREAD and the sleep wakes nobody; the client sleeps for ever and the
  channel stays taken (chnlfs.c:119).
- **HeadIntact** (Ecfs): an extension block is zeroed before its number is
  stored, at the block the entry named until then, which is block 0 or junk;
  with blocks larger than 1024 bytes block 0 holds the head block (mntecfs.c:374).

Guards that keep a model to where the code works; without them TLC refutes
the properties of the module:

- **SingleCreator** (Files): two tasks that open a missing file both create it (task.c:894).
- **QuietExit** (Files): a task that ends closes its files without acquiring them, and frees
  the block that another task is writing (ramfs.c:94).
- **Cut** (Files): with interrupts on, a fatal signal can end a task (task.c:188) between
  `fs_open` and `files[fd].file = node` (task.c:950), which leaves the count one too
  high, or between `fs_close` and `files[fd].file = NULL` (task.c:1041), after which
  `task_free` closes the file again: the count is too low, and the next open may truncate
  it under another descriptor. With Cut = TRUE TLC refutes DescriptorsServed, PositionsInFile and
  BlocksMatch within a few steps. Not in the module: an end between the two sizes that
  ramfs_write sets (ramfs.c:83). An end anywhere else is, and leaves the node held.
- **StackBound** (Wm): the loop to the bottom section runs past the stack, and the one to
  the top section loses a window that is not the last of the middle (window.c:167).
- The guards of module Memory (section 6).

Met while reading and modelled as the code has them, or outside the bounds:

*Ecfs.* `getblk` reads block 0 as an array where an extension is missing.
`free_blk` divides by the block's bytes where bits are meant, right up to
`SmallVolume` only. `fs_release` tests flags with the wrong precedence, so a file open for both
never stores its size, and reads and writes are never refused. Truncation keeps the cached
array block. A full volume gives blocks behind its end, and a failed
`node_setblk` loses the block it was given. `fs_create` resolves without the lock. mkecfs
limits the top-level map by blocksize/4. The kernel looks for links one
word after the block (kernel ecfs.c:105), shares one block buffer between files,
and takes the link for data at its position in the loader.

*Files.* A new file belongs to user 0 until task.c:913, with nothing acquired: root can open it in
between as its owner, and keeps it open when it is another's (`OpenedAs`). A creator that is ended in between leaves
the file to root. Compatibility compares with flags of the first opener, so that a
file opened only for reading, or with truncation, cannot be opened again in another way;
a second opener's truncation is ignored. `gid` is set to the user's id.

*Wm.* A window that loses the focus before it was presented has no image, and
`window_update` gives up there from then on (window.c:111). `FORGET` cleans nothing
(wm.h:78). A failed drawing command is overwritten by the next one's success (wm.h:374).
Vertical motion is the horizontal one (wm.h:137). A destroyed window without focus stays
visible. Fills and copies with a negative place get wider instead of being cut (screen.c:90, 118).
A full event ring looks empty. The cursor reaches the column behind the screen.

*Loader.* A configuration that fills its last block stops the loader (its
end is overwritten by the counter of entries). Fields that no line sets hold what memory
held. Timeout 0 waits for a key without saying so; with no entry, Down divides by
zero. The search for the highest resolution clears its index (vbe.asm:338), and starts
behind the table when the monitor's is not there (vbe.asm:355). A resolution without a
usable mode can be picked, and then no mode is set. The last entry of the memory map is lost
(memory.asm:297), with none the count wraps (pm32.asm:186). The ramdisk's region is chosen
by its length, whatever its type. Sector numbers have 16 bits with linear addresses
(disk.asm:108) and 256 heads count as 0. boot.c:177 maps one page too few when base
and size both pass the end of a page. The entry that is looked at in GRUB's memory map lags
behind by one (multiboot.c:107). Options are matched by their beginnings, so that "u" is
`uart-tty`. `page_frame_alloc` does not know how much memory there is.

*ext2.* A read at the end of a file or at a hole leaves the volume held, so that
nobody opens anything on it again (ext2.c:337, 347); the loader reads block 0 for a hole.
Children have no permissions; closing does not free the block's buffer.

*Start-up and shell.* `user_init` tests the arrays instead of the nodes it
looked up (users.c:181), so a missing database is dereferenced. `sys_getuser` looks for the group by the
user's id (syscall.c:481). In a script, `exit` does nothing; an if inside an if that is
taken leaves `if_skip` set, and inside one that is skipped its `fi` ends the outer one
(sh.c:296); "then" in front of a command swallows it; all of `\n`, `\r`, `\t` and `\e` become an escape
character (sh.c:178). A lone `if`, `!` or `&` passes NULL to `strchr`. `fixpath` takes "." for
".." (ec.c:39), and `ec_stat` does not complete relative paths (ec.c:129).

*libc.* `fgetc` takes any error of a read for the end of the file and remembers it, so
that a signal ends the file for the program. `fclose` ignores a failed flush. After an error
`fflush` returns before it empties the buffer, so that every later `fputc` adds to a buffer that nobody
empties. In a format, `size_t` falls through to double, `" "` in front of `"+"` is accepted
and the reverse is not. `split_block` of malloc stores the whole size in the
block that is split off, not what is left, so that it may reach into its successor (memory.c).

*Consoles.* `vgacon_read` ends a line with 0 instead of a newline, so that `fgets` never
returns on the VGA console (vgacon.c:249). Taking back a line that is longer than the screen takes the place of
the next character below 0. An escape sequence that another's text cuts in two and completes
with an `m` makes the loop over its integers endless (fbcon.c:261); the model's console is `hung` from then on.

## 15. Not modelled

See the components list for what each part leaves out. Not planned, because
nothing in them is a question for a model checker: register set-up of drivers,
pixels and fonts, layout of widgets, the GDT, floating point in formats, the build scripts. The sound
driver's ring of buffers depends on what the hardware does with it, which this
repository does not say.
