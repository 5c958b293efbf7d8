# A verification of AI OS Desktop in TLA+

AI OS Desktop is a bare-metal system for one AArch64 core: a kernel in C, a
sandboxed GUI shell, a FAT32 file system on a VirtIO disk, an event recorder
(the *watcher*, or sovereign memory) with a ledger file, a small contract
language (the Autarky VM, in Rust), and scripts on the host that type commands
into its serial port. This directory holds TLA+ models of its parts, the TLC
configurations that check them on small instances, and TLAPS proofs of the
results that matter for every value of the constants.

The interrupt controller is never initialised (`gic_init` has no caller) and
interrupts stay masked, so the kernel and the shell take turns. The concurrency
of this system is with its devices: keys arrive at any moment on two devices,
disk accesses fail, power is lost between two of them, files and memory fill up.

## Inventory

| Part | State | Operations | What makes it correct |
|---|---|---|---|
| Watcher, `kernel/watcher.c` | ring of 64 events, head, tail, count, `sync_cursor`; LEDGER.LOG | log an event, commit a receipt, synchronise, dump | the dump shows the latest events; each receipt is appended once, in order; none is forgotten by the cursor |
| IPC mailbox, `kernel/syscall.c` | array of 256 messages, head, tail | kernel send, receive | a bounded queue: in order, nothing twice, dropped only when full |
| System calls, `kernel/syscall.c` | — | drain the devices, flush the screen, send (seven kinds of requests to the kernel), receive | every request has exactly one answer, and there is room for it |
| GUI shell, `modules/shell_gui/main.c` | command line, cursor, the screen | edit the line, run a command, wait for an answer, print, wrap, scroll, erase | waiting ends; the line stays in its buffer; no key is lost without cause; the screen shows what was printed and the line that Enter will run |
| FAT32, `modules/fs/fat32.c` | the disk; one shared `disk_buffer`; the geometry | mount, list, read, write, append | no cluster in two files; no byte of a file lost or foreign, whatever fails; every operation returns |
| VirtIO GPU, block, input, `kernel/virtio.c` | three queues with 16-bit indices, one descriptor counter for two devices, the shift flag | probe, send a command, poll, read and write a sector, decode a key | no descriptor in use twice; every request carried out once and answered; every event delivered once, as the character that was meant |
| DMA heap, `kernel/virtio.c` | one address | allocate | allocations are aligned, disjoint and inside the heap |
| VirtIO net, `kernel/virtio_net.c` | receive queue, last index | initialise, poll, find a volume in a packet | every buffer goes back to the device once; the volume is the one of the message |
| Autarky VM, `autarky_vm/src` | environments, closures, the host's stack | parse, erase types, evaluate, commit a receipt, answer | a program is run as it was written, in the scopes of its text; a receipt for every match and for nothing else |
| Page tables, `kernel/mmu.c` | L1, L2 and L3 tables | initialise, map the framebuffer | the shell reaches its own memory and the screen's, and nothing of the kernel's |
| Start-up, exceptions, GIC, UART | — | bring the machine up, halt on a fault | order of initialisation |
| Module loader, `kernel/loader.c` | one constant record | stubs | — |
| Host scripts | — | type a contract, wait, type its execution | what they type arrives as they typed it |

How they interact: the shell calls the kernel with `svc` (drain, flush, send,
receive). A send to the kernel runs the whole request inside the system call
(file system, watcher, VM or network) and ends with an answer in the mailbox;
the shell polls the mailbox for it. A drain moves what the two input devices
hold into the same mailbox. The kernel logs an event with the watcher for every
file access and every program, the VM commits a receipt for every result, and a
synchronisation writes the receipts through the file system, which uses the
block driver, which allocates from the DMA heap as the screen does.

What is hard here: one mailbox for keys and answers; two typists and one command
line; position arithmetic of rings that are full; a cursor that follows a ring
which overwrites itself; three sectors that must change together without a
journal; results of writes that nobody looks at; requests to two devices with
ids from one counter; buffers that keep the bytes of what was before in them; a single buffer for FAT,
directory and data; a heap without end.

## Modules

| Module | Models | Checked by | Proved in |
|---|---|---|---|
| `LedgerVault` | abstract: what the watcher promises about receipts | `watcher` | |
| `Watcher` | `kernel/watcher.c` | `watcher` (`MCWatcher`) | `Watcher_proofs` |
| `BoundedMailbox` | abstract: a bounded queue of messages | `ipc_ring`, `rx_queue`; used by `GuiShell` | |
| `IpcRing` | the mailbox of `kernel/syscall.c` | `ipc_ring` (`MCIpcRing`) | `Console_proofs` |
| `GuiShell` | `modules/shell_gui/main.c` with the drain and the dispatch of `kernel/syscall.c` | `gui_shell` (`MCGuiShell`) | `GuiShell_proofs` |
| `RxQueue` | the receive queues of `kernel/virtio.c` and `kernel/virtio_net.c` | `rx_queue` (`MCRxQueue`) | `RxQueue_proofs` |
| `Keyboard` | the decoding of key events in `kernel/virtio.c` | `keyboard` (`MCKeyboard`) | `Console_proofs` |
| `AtomicDevices` | abstract: a request to the disk or the screen is called, carried out once, and returns | `command_queue` | |
| `CommandQueue` | the queues of screen and disk in `kernel/virtio.c` | `command_queue` (`MCCommandQueue`) | `CommandQueue_proofs` |
| `DmaHeap` | `bump_allocate` of `kernel/virtio.c` and its callers | `dma_heap` (`MCDmaHeap`) | `DmaHeap_proofs` |
| `Fat32` | `modules/fs/fat32.c` | `fat32`, `fat32_append` (`MCFat32`) | `Fat32_proofs` |
| `PageTables` | `kernel/mmu.c` | `screen` | `Console_proofs` |
| `Terminal` | the terminal of `modules/shell_gui/main.c` | `screen` | `Console_proofs` |
| `Screen` | start-up, `gpu_init` and the shell's drawing: composes `PageTables` and `Terminal` | `screen` (`MCScreen`) | `Console_proofs` |
| `Volumes` | the way of a volume from a packet to the text of a receipt | `volumes` (`MCVolumes`) | `Watcher_proofs` |
| `AutarkyVm` | the evaluator and the entry point of `autarky_vm/src` | `autarky_vm` (`MCAutarkyVm`) | `AutarkyVm_proofs` |
| `AutarkyParser` | `autarky_vm/src/parser.rs` and `ir.rs` | `autarky_vm` | `AutarkyVm_proofs` |
| `AutarkyRules` | abstract: how the value or the fault of a term follows from those of its parts | | `AutarkyVm_proofs` |
| `AutarkyGrammar` | abstract: which texts are written for a term | | `AutarkyVm_proofs` |

How the abstractions fit together: `BoundedMailbox` stands for the mailbox array in
`GuiShell`, and for the ring of input buffers in `Keyboard`'s bounded queue of events.
`AtomicDevices` is what `CommandQueue` is shown to be, and what `Fat32` takes a
disk access for.

A definition keeps the name of the function, variable or constant it stands for
where TLA+ allows it. A definition marked *mutant* in a module is a plausible
bug of the definition that follows it; the property it is meant for is violated
when it takes that definition's place.

### Watcher

`events`, `head`, `tail`, `count` and `sync_cursor` are the fields of
`watcher_state_t`. Since the kernel runs with interrupts masked, logging and
dumping are one step. `watcher_sync_to_disk` is broken into the start of the
loop (`SyncStart`), the iterations that write nothing (`SyncSkip`), the two
appends of a receipt (`SyncText`, `SyncLineEnd`) and the end (`SyncDone`), since
an append may fail and power may be lost between two (`Restart`). The n-th event
since the start has timestamp n: the system timer increases and is not 0 when
the kernel runs.

`ledger` is the sequence of appends that reached the disk. What the file holds
afterwards, and what happens when it outgrows its first sector, is modelled in
`Fat32`. The ghosts `history`, `passed`, `skipped` and `dropped` say which events
were logged, how many of them the cursor has passed, which receipts the push of
line 66 passed over, and which appends failed.

`LedgerVault` is the abstraction: events in a sequence, and a file that gets the
record of a receipt only if no younger one of the same start is in it. `Watcher`
implements it with `logged <- history`.

### IpcRing and BoundedMailbox

`IpcRing` is the array with its two indices, `BoundedMailbox` a sequence of at
most `Capacity` messages. The array of n slots implements the mailbox of
capacity n - 1, so `GuiShell` is written over the mailbox and not over the array.
The ghost `drops` of both counts the messages that disappear, so that a loss is a
step and not a stutter: `MailSpec` has such a step only when `Capacity` messages are
queued, and a ring that turned a message away earlier would not implement it.

### GuiShell

One step is one poll of a device within `SYS_HW_DRAIN`, one other system call,
or what the shell does between two system calls. `pc` says what comes next:
`kbd` and `uart` are the two loops of the drain, `recv` the receive of the main
loop, `key` the handling of a key, `send`, `wait` and `resp` a request and the
loop that waits for its answer. Each of the six kinds of requests a command line
can lead to is one of `Requests`; which line leads to which is the constant
`Commands`, so the parsing of the line is abstracted, and its length is not.
Two users type at any moment, on the keyboard and on the UART. `NoChar` stands
for a keyboard event without a character and for a NUL byte: both look like an
empty device to the drain. A line may make the shell touch a literal outside
its memory (`FaultingCommand`), and a program may never end (`ProgramDiverges`);
the machine stops then, which is why the run allows deadlock.

Keys get lost in three ways. A full mailbox drops them, which `drops` counts; the
loop that waits for an answer throws away what is no answer, and a line of
`CMD_MAX_LEN` - 1 characters takes no more (main.c:484), which the ghost `lost`
says of both. The ghost `hasty` says that somebody typed behind a line end not yet
taken up, a mailboxful ahead, on one device while the other held input, or a
printable key for which the line, with what is on its way to it, has no room.

### Fat32

The disk is a FAT, a root directory of one sector, and clusters of one sector.
`pc` is the next disk access of the operation in progress; every access may
fail, power may be lost before every access, and an operation that meets an
error returns early, as the code does. The answer of the system call is the same
however the operation ends (`reply`). A byte of the n-th operation on a file
is `[file, op]`, so the model tells whose byte it is. The disk `Disks` comes from
the host, since the repository has no formatter, and its FAT may be unsound: the
ghost `fat_suspect` says that it was, or that a write of the FAT has failed, which
are the two things against which the code promises nothing. Of a read, the model has
which sector it leaves in `disk_buffer` and which of its accesses fails, and not what
it copies to its caller.

### DmaHeap

The allocator is one address, `dma_heap_curr`. `todo` is what the call in
progress still allocates, so the requests of `setup_virtqueue`, `gpu_init`,
`virtio_gpu_flush`, the disk accesses and the programs of the VM are sequences of
sizes and alignments, and `bump_allocate` is one step. The devices are found in
any order and any of them may be missing. `in_use` has the blocks somebody may
still touch: what a device keeps for ever, and the requests of the call in
progress. An allocation behind `HeapEnd` halts the machine, since
`bump_allocate` zeroes what it hands out and nothing is mapped there.

### RxQueue

The keyboard (`virtio_input_poll`, queue of 256) and the network card
(`virtio_net_poll_rx`, queue of 8) receive into the same kind of queue, so one
module with the size as a constant models both; the lines of `map` point into
either. This is the part of the system where two parties really run at the same
time, and the module has one step per access to shared memory. `pc` is the place
in the poll: the index of the used ring is compared (`PollEmpty`, `PollUsed`),
the event is read (`ReadEvent`), the buffer is put into the available ring
(`Recycle`), and the new index is shown (`Publish`). The device (external, as
VirtIO lets a device behave that uses its buffers in order) takes a buffer, fills
it, enters it in the used ring and shows its index; an event that finds no
buffer is lost. `Events` are what a buffer may hold; `Keyboard` and `Volumes` say what
the drivers make of them. The counters `taken`,
`used` and `returned` are ghosts without a width: the invariant says that the
16-bit indices are these modulo 65536, which is a multiple of both sizes.

Barriers and cache maintenance are abstracted: the queues lie in device memory
or behind coherent accesses under QEMU, so an access is seen at once. Line 324
of `virtio.c` cleans the address that the ring entry's *value* denotes, and not
the entry; in that memory nothing depends on it.

The abstraction is `BoundedMailbox` again, with `arrived`, the events between the
two counters, as its mailbox and the events lost as its `drops`: a poll returns the
oldest event that arrived, and an arrival is lost only if as many events wait as there
are buffers.

### AtomicDevices and CommandQueue

`send_gpu_command`, `virtio_blk_read_sector` and `virtio_blk_write_sector` build
their chains in the same way, so one driver with a parameter for the queue models the
three: two parts for the screen, three for the disk. `Begin` draws the ids,
`Describe` writes one descriptor, `PutRing`, `Show` and `Notify` are the stores after it, and
`Return` ends the wait. A device takes an entry of the available ring, reads the
chain one descriptor at a time (`Walk`), performs the request and publishes it;
it may look at the ring at any time, also between the store of the index and the
notification. A device that is not there is refused before anything is written.
A descriptor holds the number of the request (`of`) whose memory it points to, which
tells a fresh descriptor from what an earlier request left in its place.

In `AtomicDevices` a request has three moments: the call, the one at which the
device carries it out, well or badly, and the return with what became of it.

### Keyboard

A change of a key is an event and a SYN, and both are lost if the queue cannot
take both. The driver keeps one flag for two shift keys. The ghosts say what the
user meant by an event and whether the flag is in doubt when it is decoded: after
a lost event of a shift key, after one of two held ones was released, after a
repeat of one (value 2, which the code takes for a release).

### PageTables, Terminal and Screen

`PageTables` has the second and third level as functions from blocks and pages
to descriptors; the one entry of each first-level table that is used is implied. `Entry` is the table
walk of the processor (external), and `El0May` the permission. `Terminal` folds
`Putc` over what is printed; a cell holds the *set* of glyphs drawn since it was
painted over, as drawing sets pixels and clears none, so two characters on top
of each other are seen. The ghost `lines` is the text laid out in lines, by a
definition that knows nothing of cells. `Screen` composes them from reset on:
the tables, the display of some size or none, the first drawing of the shell, then
keys. A display counts in characters, not pixels: four bytes a pixel, 256
pixels a character and 4096 bytes a page make four characters a page. Whether a key reaches the shell is `GuiShell`'s part, and here every key does.

### Volumes

A packet is a FIX message, as bytes from offset 26 of the buffer on. It may be
cut, and it is written over what the buffer held. `Poll` finds the first `38=`
within the length of the packet and reads digits to the first other byte,
in the packet or not. `Commit` truncates the result to an int, and
`i32_to_dec_str` writes it with the negation that overflows at the smallest int.

### AutarkyVm and AutarkyParser

`evaluate` calls itself, so the evaluator is a machine whose `stack` holds the
calls in progress: the node, the environment, and the values that its own calls
have returned so far. `Enter` is any of the recursive calls, `Yield` and `Poll`
a call that returns a value, `Fault` an `Err`, which leaves through every `?` at
once, `Panic` the division that Rust refuses. The call of a body is not
different from others: it stays on the stack, so `Overflow` ends programs that
recurse without end (and would end long loops, though vm.rs:102 says "infinite
recursion without stack overflow"). What the kernel does after its stack has run into the
data below it is undefined, and the model stops there; the stack that the parser
needs for itself is left out. `NoMemory` is the end of the heap, at any step that
allocates. `Commit` comes before `WriteAnswer`, as in `lib.rs`, and the early
returns of `Reject` leave `answer` unwritten.

One execution is modelled: the next one has a new machine and a new environment.
Integers wrap in a width of `IntRange` values, as release builds do. Types are
parsed and dropped, as `erase_proofs` does; nothing checks them, and nothing checks
linearity, though os_autarky.h speaks of linear types. `Parse` is a constant of
`AutarkyVm`, so that the proofs about the evaluator hold for every parser; the run gives it
`AutarkyParser`. A text is a sequence of words there (of a set `Words` that has at least
the keywords, `WordsAssumption`): the
division into words is left out, the end of the text at an `@` is not. `parse` and
`parse_type` are recursive functions on texts, each written as a step (`TermStep`,
`TypeStep`) that is given the function it calls.

`AutarkyRules` and `AutarkyGrammar` are what a programmer goes by, and say nothing of
stacks, of positions in a text or of the order in which `parse` looks at words. A rule
gives the value of a term, and the volumes polled for it, from those of its parts; two
relations, `Evaluates` and `Faults`, are constants of which only the rules are known. A
grammar gives the texts of a term from those of its parts; `Writes` is the least relation that
keeps to it. `parser.rs` accepts more than the grammar, since it skips words without
looking at them; what it accepts beyond is nothing that a programmer would mean.

## Runs

| Run | Instance | Shows |
|---|---|---|
| `watcher` | ring of 3, 2 event types, 5 events per start, 1 restart | the dump, the order of the synchronisation, an account of every receipt, that the synchronisation ends, and that the ring implements `LedgerVault` |
| `ipc_ring` | 4 slots, 3 messages, 3 of them dropped | the ring implements the mailbox: in order, each message once, and none turned away while there is room |
| `gui_shell` | mailbox of 2, line of 2, 4 keys on two devices | exactly one answer is queued while the shell waits, waiting ends, input leaves the devices, patient typists lose no key, be it to the mailbox, to the wait or to a full line |
| `rx_queue` | 2 buffers, indices of 4 values, 7 events | no buffer has two owners or none, nothing is lost before all buffers are full, everything that arrived is polled, once and in order, while the indices wrap |
| `keyboard` | 3 keys and 2 shift keys, queue of 4 events | a poll returns the character that was meant; only its case may be wrong, and only while the flag is in doubt |
| `command_queue` | tables of 4, counters of 8 values, 9 requests, either device missing | devices read only whole requests, every request is carried out once and returns, and queue and device implement `AtomicDevices` |
| `dma_heap` | a heap of some 2000 bytes, queues of 4, 4 calls of each kind | blocks in use are disjoint, aligned and mapped; a fault comes only when the heap is used up |
| `fat32` | 4 clusters, 3 entries, sectors of 3 bytes, 3 operations, 1 failure, 3 disks, one of them with a circular chain | no cross-links, no foreign bytes, files only grow, lookups agree, sectors are overwritten with what was read, operations return |
| `fat32_append` | fresh disk, 4 operations | *violated*: an append overwrites a full last sector |
| `screen` | blocks of 2 pages, a shell's screen of 2 by 3 characters, 5 kinds of displays or none, 6 keys | the shell reaches its region and the screen's memory only, starts exactly if the memory is enough, and the screen shows what was printed and the line that Enter runs |
| `volumes` | ints of 8 bits, 2 packets of up to 2 fields, cut by up to 2 bytes | the volume of a whole message is that of its first quantity; the receipt's text is the result, if it fits |
| `autarky_vm` | some 4000 programs over 3 atoms, integers of 4 bits, a stack of 24 calls | a program means what substitution of values says it means, integers, polls and faults included; the parser builds the term that was written; receipts and matches agree; no execution goes on for ever |

Deadlock is checked where the model cannot stop. `gui_shell` and `dma_heap` may
halt the machine; in `autarky_vm` the execution is over; in `command_queue`, `screen` and
`volumes` the bound on requests, keys or packets is reached.

Bounds. A ring of 3 has an inside and two ends; 5 events fill it, overwrite it
and move a cursor over the end, and one restart separates two lives. The
mailbox of 4 slots wraps, fills and drains, and `MaxDrops` = 3 messages are turned away. In `gui_shell` two messages of
capacity and four keys are enough for a full mailbox, a key dropped, a line that
overflows (it holds one character), a line of
one command followed by another, and a request with keys before and behind it.
A file system of four clusters, three entries and three operations fills the
directory or the clusters, and one failing access or one loss of power reaches
every point of every operation. In `rx_queue`
seven events take two buffers round the rings three times and the indices round
their range once. In `command_queue` chains of three in a table of four
overlap what earlier chains left at every offset; nine requests take the shared
counter round its eight values several times and the indices once. In `screen` a prompt
and a line of five characters are more than two rows of two, so that typing wraps, scrolls
and erases over the end of a row, and an answer may itself hold a
backspace; the displays are smaller, equal, larger and of another shape. In
`volumes` a buffer of 16 bytes holds the longest pair of fields and nothing more, the tags
include one that ends in `38` without being it, and 128 is the first number that does not
fit. In `keyboard` two changes fill the queue, so a third is lost. The
programs of `autarky_vm` are all those of a few shapes over small terms: functions
applied to every small value, shadowed names and functions called where a name
means something else, matches and pairs of every kind of value, each operator on
the boundaries of the integers, and recursions three calls deep that add, multiply
or pair with a poll. The reference, `Meaning`, has no environments and no stack: it
substitutes values for variables. Left out of the programs are recursive
definitions of something that is no function, and functions with a parameter of
their own name, where `App` prefers the function (vm.rs:104) and substitution the
parameter. What does not depend on these sizes is proved.

Fairness. `Watcher` and `Fat32` assume that the loop of a running operation goes
on (`SyncStep`, `FsStep`): nothing preempts it, and a disk access ends. `GuiShell`
assumes the same of the core as a whole (`ShellStep`); nothing is assumed of the
typists. In `gui_shell` input is bounded by `MaxTyped`, which the drain loops
need: a device that is always refilled would keep them for ever. `AutarkyVm`
assumes that the core goes on (`Step`). `RxQueue` assumes
that polls go on and that a device finishes what it began. For the keyboard the
main loop of the shell polls (`SYS_HW_DRAIN`); the network queue is polled when a
user asks for it, so there `EventsPolled` says what happens if users keep asking.
`CommandQueue` assumes that the driver, which spins, goes on, and that a device
that has been notified does its work: a device that was not notified may look at
the ring, but need not, so `RequestReturns` would fail if a wake-up were
missed.

## What is proved

All theorems hold for every value of the constants that satisfies the named
assumptions of the modules.

*Watcher_proofs.* The invariant `WatcherInv` is inductive. `RingInv` places every
event relative to the head (`Back(k)`, the slot k behind it), which makes wraps
disappear from the argument. `CursorInv` says that the cursor, or the loop
variable while the loop runs, stands `Pending` slots behind the head, with at
most a ring of events pending, and less than that during the loop: this is what
makes the test `current != head` mean "pending events are left". `LedgerInv` and
`AccountInv` relate file, history and cursor. From it follow `DumpShowsLatest`,
`SyncReadsOldestPending`, `LedgerInOrder`, `ReceiptsAccounted`,
`NothingSkippedBeforeFull`, and the refinement of `LedgerVault`.

It also has the proofs about *Volumes*. `BytesLaidOut` shows, by induction on the
fields, that they lie in the bytes of a message one behind the other (`Layout`), and
`TagThere` and `TagFound` that `38=` is found exactly where a tag that
ends in 38 ends, since `=` follows tags only and SOH separates the fields. The invariant
`Buffered` says that the buffer holds the packet while it waits; so the least place found
is that of the first quantity, and the SOH behind its digits, which is part of the
packet, is what ends them: `VolumeOfMessage`, for messages of every length that fit
in the buffer. `DigitsRead` shows, by induction on the number, that the digits
`i32_to_dec_str` finds are read back as the number, from which follows
`ReceiptSaysResult` for ints of every width.

*Console_proofs* has the way of a key to the screen: four modules that do not depend
on each other's state, except `Screen` on `Terminal` and `PageTables`.

- *The mailbox ring.* The type invariant `RingTypeOK`, which includes that every slot
  between head and tail holds a message, and the refinement of `BoundedMailbox`: the
  test for a full ring is true exactly when `Capacity` messages are queued. The lemmas relate the modulo arithmetic of head and tail to the ends of a sequence.
- *The keyboard.* `KeyboardInv` says of every event in the queue, through `FlagAt`,
  what the shift flag will be when it is decoded: the value of the last shift event
  before it in the queue, or the flag itself. An event not in doubt meant that case,
  and behind the whole queue the flag is what the user holds, unless in doubt. Then
  `ReadAsTyped` holds for every keymap, every set of keys and every size of the queue.
- *The translation tables.* `ScreenInv` says what the tables hold after
  `mmu_init_tables` and after the framebuffer is mapped (`TablesBuilt`). `Walk` computes
  from it what the processor's walk returns for each page, by dividing pages into
  blocks: a page of RAM, a device page, a page of the window. From it follow `Confined`
  and `DrawsOnScreen`, for tables of every size, every region of the shell that is
  aligned to blocks and inside the RAM that is mapped (`RegionAssumption`, which
  linker.ld has), and every display; `WindowAssumption` says that what the shell draws
  on fits in the two tables of the window.
- *The terminal.* `Agrees(term, lines)` says that the grid is the layout of the lines,
  a screen that is one row too tall included (`AgreesTall`), which is what a scroll
  gets. `PutcAgrees` shows it for one character: drawn, wrapped, erased, a new line, and
  each with a scroll; `PrintAgrees` for a text, by induction on its characters. The
  second invariant, `Stands`, says that the cells before the cursor in reading order
  (`Pos`) end with a text. A drawn character lengthens it, a scroll moves it with the
  cursor, a backspace shortens it unless it is at the start of a row, and after a prompt
  it is the prompt, whatever was printed before. From them follow `ScreenShowsOutput`
  and `LineShown`, for screens, texts and lines of every size. `PromptAssumption` says
  that the prompt is one line, and `TextAssumption` that the command that clears the
  screen is not the empty line.

*GuiShell_proofs.* `AnswerInv` is inductive: besides `AnswerQueued` it says that a
slot of the mailbox is free from the moment a key was taken until its request is
served, since the drain does not run in between. `TypeOK` and `AnswerQueued`
follow. `PatientInv` adds, as long as nobody is hasty, that a
line end is the last of what is under way from the devices to the shell (`LineEndLast`),
that this is never more than the mailbox takes (`Uncrowded`), and that the line and the
letters on their way to it never exceed `CMD_MAX_LEN` - 1 (`WithinLine`). A request is
then served with an empty mailbox, what is typed meanwhile waits in a device, and every
letter finds room. `WithinLine` counts letters in three queues; the lemmas about the
cardinalities of their positions say what appending and removing one does to the count.
From `PatientInv` follows `NothingLostIfPatient`.

*Fat32_proofs.* `FsInv` is inductive on every set of disks whose directory holds
nothing behind its end (`EndedDirs`): as long as the FAT is not suspect a consistent FAT
stays consistent, and between the write of the FAT and the write of the
directory the new cluster is *unclaimed* — in use, and part of nothing. From it
follow `TypeOK`, `NoCrossLink`, `LookupsAgree` and `WritesBackWhatItRead`. `FilesInv`
adds the contents. `LayoutInv`: a file has the clusters that its size needs, an append
stands in the chain of the file it found, at the end when it writes, and the sector it
writes back begins with what was there. `OwnInv`: the bytes of a file are its own, and
those of the operation in progress are in the buffer, then in the cluster, until the
directory speaks of them. It holds on disks that come from a host system
(`HostFiles`, which TLC evaluates on the run's disks with `HostAssumption`). Chains are
recursive functions; that a chain keeps its places when another is extended is shown
by induction over natural numbers, which is itself a lemma (`Induction`), proved from the
library's theorem that the strict subsets of a finite set are well founded, since the
library's own induction theorems take an operator. From it follow `NoForeignBytes`
and `FilesOnlyGrow`.

*DmaHeap_proofs.* `HeapInv` is inductive: everything in use lies below
`dma_heap_curr`, and `BudgetInv` says how far the call in progress may still go,
which a flush bounds by 159 bytes since it loses at most one alignment. From it
follow `TypeOK`, `BlocksApart` and `RunsUntilExhausted`, for every size of the
heap, the queues and the display.

*RxQueue_proofs.* `RxInv` is inductive for every size that divides the range of
the indices: `IndexInv` ties each index to its counter, `SlotInv` says that a
buffer never leaves its slot of the rings (so c mod `QUEUE_SIZE` names the buffer
of the c-th event), and `EventInv` follows the event from the device to the poll.
Two counters less than a queue apart have different slots, which gives
`OneOwner`; equal indices mean equal counters, which gives `LostOnlyWhenFull` and
the refinement of `BoundedMailbox`.

*CommandQueue_proofs.* `CommandInv` is inductive for every table of at least three
descriptors and every range of the counter that is a multiple of the table's size.
`ChainInv` says that the ids of the request in progress are distinct and which of
its descriptors are written; `RoundInv` puts its device at one of five places
(shown, walking, walked, performed, published) and the other device at rest. Distinct
ids come from the fact that a chain is not longer than a table, since the range is
a multiple of its size. From it follow `TypeOK`, `ChainsWhole`, and the refinement
of `AtomicDevices`, where all steps but `Begin`, `Perform` and `Return` are stutters.

*AutarkyVm_proofs.* `ReceiptInv` adds to `ReceiptPerMatch` that there is no receipt
before `Commit`. `StackInv` adds to `StackDiscipline` that the stack is a sequence
of three-part calls, which the proof needs since a return changes the values of
the call below and nothing else. Both hold for every parser, every set of texts
and every size of the stack. `TypeInv` gives `TypeOK`
for all programs whose values and terms lie in two sets that are closed under taking
parts (`ProgramsOver`): every value of the machine is made of such parts, and every
call waits for no more values than its node has parts. The values grow while a program
runs, so the invariant says that there *are* two such sets (`Grounded`); a step that
makes a value adds it. TLC evaluates `ProgramsOver` for the run's programs, with their
subterms and literals as the sets, so the hypothesis is one that real programs meet.

The evaluator keeps the rules. `RulesInv` follows what has been polled: to each call on
the stack belongs the part `d[i]` that it and its finished calls have polled, behind the
part `b[i]` of those that wait for it (`Account`). `Progress` says of a call what its
operands have evaluated to and that, once its body runs, whatever the body comes to is what the
call comes to; and `Doomed` that a fault of the innermost call is one of every call
below it, which is what lets `Fault` drop the whole stack at once. A return appends to one
call's values and moves one part of the polls, and the rule for the node (`BodyRule`,
`CompletedRule`, `FaultRaised`, `FaultPassed`) closes the step. `RulesAreKept` holds for
all relations that keep the rules, so for the least, which are what terms mean.
Its hypotheses are `ProgramsOver`, as before, and `Rules`.

The parser reads what is written. `ParseTerm` and `TypeLength` are first shown to be what
their definitions say, on texts of every length: that a recursive function has the value of
its body is a fact about texts ordered by length, proved by well-founded induction, for
which each call must be on a shorter text. Then the pairs of a term and a text that
the parser reads as it should, whatever follows the text (`Reads`), are shown to keep to the
grammar, rule by rule; `Writes` is the least such relation, so everything written is read. This
gives `ParsesWhatIsWritten`. `WrittenProgramsRun` joins both halves: a text written for a term is not turned away, and if the execution
returns, or commits, it is with what the rules say of that term (`RunsAsWritten`).
It supposes that `Parse` is `ParseText` on the kernel's texts, as in the run. Recursion
that outgrows the stack and memory that runs out end an execution without an answer, and
nothing is claimed of them.

The type invariants are proved and not part of the runs, except those of `GuiShell`
and of `AutarkyVm`, which are both.

Only model-checked: the liveness properties (`SyncEnds`, `AnswerArrives`,
`InputDrained`, `FsReturns`, `EventsPolled`, `RequestReturns`, `Terminates`), which
need fairness and are out of the prover's reach; and `EvaluatesAsMeant`
and `ParsesAsWritten`, whose references (`Meaning`, which substitutes values, and `Written`,
which writes a term out, in `MCAutarkyVm`) are RECURSIVE operators, which
the prover cannot reason about. `RulesAreKept` and `ParsesWhatIsWritten` are their
counterparts for all programs, against references that are relations.

## Disagreements found

One has a run:

- An append to a file whose size is a multiple of 512 overwrites its last
  sector (`fat32.c:362`).

The following were met while modelling. Where a model contains them, the
property it is near to says precisely how far the code's promise goes.

- The watcher takes a full ring of pending events for an empty one
  (`watcher.c:155`), and says the ledger is up to date.
- After a synchronisation of a full ring the next event is passed over by the
  cursor, though nothing that was pending is overwritten (`watcher.c:66`): this is
  why `NothingSkippedBeforeFull` stops at the first full ring.
- The DMA heap of "0x50000000 - 0x503FFFFF" (`mmu.c:72`) has no end for
  `bump_allocate` (`virtio.c:62`); every flush, and so every key, takes 152 bytes
  for ever, and with the display of the Makefile the machine halts after some
  hundred keys. `RunsUntilExhausted` says that it halts for no other reason.
- A backspace whose character ends the row above deletes it from the line and leaves it on the
  screen (`main.c:243`): the condition `stuck` of `LineShown`.
- A display whose rows have another length than the shell's shows a skewed
  picture (`main.c:275`), which `DrawsOnScreen` allows.
- If the screen's memory is no multiple of a page, its last page, open to the
  shell, also holds what `bump_allocate` hands out next.
- "Unmapped Guard Page" (`linker.ld:54`) lies in a block that `mmu.c:60` maps.
- The smallest 32-bit volume is written as `-` (`watcher.c:109`).
- A volume cut off within its digits takes digits that an earlier packet left
  (`virtio_net.c:194`), so `VolumeOfMessage` speaks of whole messages, and any tag
  that ends in 38 counts as the quantity (`virtio_net.c:192`).
- A lost or repeated event of a shift key changes the case of what follows
  (`virtio.c:313`): the `doubt` of `ReadAsTyped`.
- A read copies as many bytes as the file has, up to 1023 (`syscall.c:161`), out of a
  `disk_buffer` of 512 (`fat32.c:237`), so of a longer file its first sector and what
  lies behind the buffer; if the access to the data fails, the caller's buffer is left
  as it was.
- `virtio.c:324` cleans the cache at the address that is a ring entry's value.
- "Write committed to disk." is the answer whatever became of the write
  (`syscall.c:145`); the comment on recursion without stack overflow (`vm.rs:102`)
  describes calls that do stay on the stack; and the "total gas consumed" of
  `os_autarky.h` is the constant 1500 (`lib.rs:195`).

## Plan

Done: watcher, mailbox, shell with system calls, file system, DMA heap, receive
and command queues, keyboard, page tables, terminal, volumes, Autarky VM. Left:

1. `Mount`: the geometry that `fs_fat32_init` leaves when it fails, and the sectors
   that later calls address with it; files whose first cluster is 0.
2. `Desktop`: the composition of `GuiShell` with `Watcher`, `Fat32` and
   `AutarkyVm`, so that the ledger file and the answers have contents.

## Not modelled

The shapes of fonts and colours, the texts on the console, the register
sequences that start and negotiate with devices, the contents of the screen's
commands, memory attributes other than the shell's access, the
exception vectors beyond the halt, mounting and the diagnostics of the file system, what its reads
copy to their callers, the
loader, whose functions are stubs, and the scripts' own control flow on the host (what they type is
modelled). `src/virtio.c`, `kernel/autarky.c.deleteme`, `kernel/mmu_snippet.c` and
`kernel/syscall_matrix.c` are earlier versions that no build rule compiles.
The capability matrix of `syscall.c` is never read.
