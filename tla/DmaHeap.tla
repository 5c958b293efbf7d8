------------------------------ MODULE DmaHeap ------------------------------
(***************************************************************************)
(* The DMA heap of kernel/virtio.c: bump_allocate and everybody who calls  *)
(* it.  At start-up each device that is found takes its queue and what it  *)
(* keeps; afterwards every flush of the screen, every disk access and      *)
(* every allocation of the VM's programs takes memory that nobody ever     *)
(* gives back.  Behind HeapEnd nothing is mapped: bump_allocate, which     *)
(* zeroes what it hands out, meets a translation fault there and           *)
(* fatal_exception_handler stops the machine.                              *)
(***************************************************************************)
EXTENDS Integers, Sequences

CONSTANTS
  HeapStart, HeapEnd,        \* the mapped range (0x50000000, 0x50400000)
  VIRTQ_SIZE,                \* descriptors of a queue (256 in the code)
  PAGE,                      \* what queues and the framebuffer are aligned to
  Displays,                  \* sizes the GPU may report, <<width, height>>
  Layouts,                   \* what the VM's programs allocate
  MaxFlushes, MaxAccesses, MaxPrograms  \* bounds: calls after start-up

Blocks == [size : Nat, align : Nat \ {0}, kept : BOOLEAN]
ASSUME HeapAssumption == HeapStart \in Nat /\ HeapEnd \in Nat /\ HeapStart <= HeapEnd
ASSUME QueueAssumption == VIRTQ_SIZE \in Nat \ {0} /\ PAGE \in Nat \ {0}
ASSUME DisplayAssumption == Displays \subseteq (Nat \ {0}) \X (Nat \ {0})
ASSUME LayoutAssumption == Layouts \subseteq {b \in Blocks : ~b.kept}
ASSUME BoundAssumption == MaxFlushes \in Nat /\ MaxAccesses \in Nat /\ MaxPrograms \in Nat

VARIABLES
  dma_heap_curr,
  pc,         \* "boot", "run", or "halted" by a fault
  todo,       \* what the call in progress still allocates
  found,      \* the devices virtio_probe_and_init has set up
  in_use,     \* the blocks that are in use: [at, size]
  flushes, accesses, programs,  \* ghosts: calls after start-up
  boot_end,   \* ghost: where the heap ended after start-up
  leaked      \* ghost: bytes programs asked for, alignment included

vars == <<dma_heap_curr, pc, todo, found, in_use, flushes, accesses, programs,
          boot_end, leaked>>

Keep(n, a) == [size |-> n, align |-> a, kept |-> TRUE]
Use(n, a) == [size |-> n, align |-> a, kept |-> FALSE]

-----------------------------------------------------------------------------
(* What the callers ask for *)

\* setup_virtqueue makes one allocation; its three parts are shown one by one:
\* descriptors, available ring with the padding to the next page, used ring.
desc_size == 16 * VIRTQ_SIZE
avail_size == 6 + 2 * VIRTQ_SIZE
pad == PAGE - ((desc_size + avail_size) % PAGE)
used_size == 6 + 8 * VIRTQ_SIZE
setup_virtqueue == <<Keep(desc_size, PAGE), Keep(avail_size + pad, 1), Keep(used_size, 1)>>

InputInit == setup_virtqueue \o <<Keep(8 * VIRTQ_SIZE, 8)>>

FbBytes(w, h) == w * h * 4

\* A request and the place for its answer.
Command(n, answer) == <<Use(n, 8), Use(answer, 8)>>
\* mutant: the scanout is set again for every flush
gpu_flush_rescan == Command(48, 24) \o Command(56, 24) \o Command(48, 24)
virtio_gpu_flush == Command(56, 24) \o Command(48, 24)

gpu_init(w, h) ==
  setup_virtqueue \o Command(24, 408) \o Command(40, 24)
    \o <<Keep(FbBytes(w, h), PAGE)>>
    \o Command(48, 24) \o Command(48, 24) \o virtio_gpu_flush

BlkAccess == <<Use(16, 16), Use(1, 1)>>

-----------------------------------------------------------------------------
Init ==
  /\ dma_heap_curr = HeapStart
  /\ pc = "boot" /\ todo = <<>> /\ found = {} /\ in_use = {}
  /\ flushes = 0 /\ accesses = 0 /\ programs = 0 /\ boot_end = HeapStart /\ leaked = 0

\* A call starts: what earlier calls used for a moment is garbage from now on.
Start(requests) ==
  /\ todo = <<>>
  /\ todo' = requests
  /\ in_use' = {b \in in_use : b.kept}
  /\ UNCHANGED <<dma_heap_curr, pc, boot_end>>

\* The slots are scanned in an order that depends on how the machine was put
\* together, and any device may be missing.
Probe ==
  /\ pc = "boot"
  /\ \/ "input" \notin found /\ found' = found \cup {"input"} /\ Start(InputInit)
     \/ /\ "gpu" \notin found /\ found' = found \cup {"gpu"}
        /\ \E d \in Displays : Start(gpu_init(d[1], d[2]))
     \/ "blk" \notin found /\ found' = found \cup {"blk"} /\ Start(setup_virtqueue)
  /\ UNCHANGED <<flushes, accesses, programs, leaked>>

Booted ==
  /\ pc = "boot" /\ todo = <<>>
  /\ pc' = "run" /\ boot_end' = dma_heap_curr
  /\ UNCHANGED <<dma_heap_curr, todo, found, in_use, flushes, accesses, programs, leaked>>

Flush ==
  /\ pc = "run" /\ "gpu" \in found /\ flushes < MaxFlushes
  /\ Start(virtio_gpu_flush)
  /\ flushes' = flushes + 1
  /\ UNCHANGED <<found, accesses, programs, leaked>>

Access ==
  /\ pc = "run" /\ "blk" \in found /\ accesses < MaxAccesses
  /\ Start(BlkAccess)
  /\ accesses' = accesses + 1
  /\ UNCHANGED <<found, flushes, programs, leaked>>

\* An allocation of autarky_execute; deallocation does nothing.
RustAlloc ==
  /\ pc = "run" /\ programs < MaxPrograms
  /\ \E l \in Layouts : Start(<<l>>) /\ leaked' = leaked + l.size + l.align - 1
  /\ programs' = programs + 1
  /\ UNCHANGED <<found, flushes, accesses>>

AlignUp(addr, align) ==
  IF addr % align # 0 THEN ((addr + align - 1) \div align) * align ELSE addr

Taken(addr) ==
  in_use' = in_use \cup {[at |-> addr, size |-> Head(todo).size,
                         align |-> Head(todo).align, kept |-> Head(todo).kept]}

\* mutant: the bytes skipped for the alignment are not accounted for
bump_unaligned ==
  /\ pc # "halted" /\ todo # <<>>
  /\ dma_heap_curr' = dma_heap_curr + Head(todo).size
  /\ dma_heap_curr' <= HeapEnd
  /\ todo' = Tail(todo) /\ Taken(AlignUp(dma_heap_curr, Head(todo).align))
  /\ UNCHANGED <<pc, found, flushes, accesses, programs, boot_end, leaked>>

\* bump_allocate: the new end is set before the block is zeroed.
bump_allocate ==
  /\ pc # "halted" /\ todo # <<>>
  /\ LET addr == AlignUp(dma_heap_curr, Head(todo).align)
     IN  /\ dma_heap_curr' = addr + Head(todo).size
         /\ \/ /\ dma_heap_curr' <= HeapEnd
               /\ todo' = Tail(todo) /\ Taken(addr) /\ UNCHANGED pc
            \/ /\ dma_heap_curr' > HeapEnd
               /\ pc' = "halted" /\ UNCHANGED <<todo, in_use>>
  /\ UNCHANGED <<found, flushes, accesses, programs, boot_end, leaked>>

Next == Probe \/ Booted \/ Flush \/ Access \/ RustAlloc \/ bump_allocate

Spec == Init /\ [][Next]_vars

-----------------------------------------------------------------------------
(* Properties *)

Block == [at : Nat, size : Nat, align : Nat \ {0}, kept : BOOLEAN]

TypeOK ==
  /\ dma_heap_curr \in Nat /\ boot_end \in Nat /\ leaked \in Nat
  /\ pc \in {"boot", "run", "halted"}
  /\ todo \in Seq(Blocks)
  /\ found \subseteq {"input", "gpu", "blk"}
  /\ in_use \subseteq Block
  /\ flushes \in Nat /\ accesses \in Nat /\ programs \in Nat
  /\ pad \in 1..PAGE

\* Queues, event buffers, framebuffer and the requests under way lie in the
\* mapped range, each aligned as its device needs it, and no byte belongs to
\* two of them: a device never writes into what another one reads.
BlocksApart ==
  /\ \A b \in in_use :
       HeapStart <= b.at /\ b.at + b.size <= HeapEnd /\ b.at % b.align = 0
  /\ \A b, c \in in_use :
       b # c => b.at + b.size <= c.at \/ c.at + c.size <= b.at

\* What a call may cost, the loss by alignment included.
FlushCost == 159
AccessCost == 32

\* The machine runs for as long as the heap that start-up left can pay for: it
\* is not halted by a fault before that much has been used.
RunsUntilExhausted ==
  (pc = "halted" /\ flushes + accesses + programs > 0) =>
    boot_end + FlushCost * flushes + AccessCost * accesses + leaked > HeapEnd

-----------------------------------------------------------------------------
(* The inductive invariant behind these properties, proved in                *)
(* DmaHeap_proofs.                                                           *)

\* Everything in use lies below the end of the heap, which is mapped.
EndInv ==
  /\ HeapStart <= dma_heap_curr
  /\ pc # "halted" => dma_heap_curr <= HeapEnd
  /\ \A b \in in_use : b.at + b.size <= dma_heap_curr

\* What start-up left and the calls since then may have used.
Budget == boot_end + FlushCost * flushes + AccessCost * accesses + leaked

\* How far the call in progress may still go: it loses at most one alignment,
\* since the parts of a command are multiples of eight bytes.
BudgetInv ==
  \/ todo = <<>> /\ dma_heap_curr <= Budget
  \/ todo = virtio_gpu_flush /\ dma_heap_curr + 159 <= Budget
  \/ todo = Tail(virtio_gpu_flush) /\ dma_heap_curr % 8 = 0 /\ dma_heap_curr + 96 <= Budget
  \/ todo = Command(48, 24) /\ dma_heap_curr % 8 = 0 /\ dma_heap_curr + 72 <= Budget
  \/ todo = Tail(Command(48, 24)) /\ dma_heap_curr % 8 = 0 /\ dma_heap_curr + 24 <= Budget
  \/ todo = BlkAccess /\ dma_heap_curr + 32 <= Budget
  \/ todo = Tail(BlkAccess) /\ dma_heap_curr + 1 <= Budget
  \/ \E l \in Layouts : todo = <<l>> /\ dma_heap_curr + l.size + l.align - 1 <= Budget

HeapInv ==
  /\ TypeOK /\ EndInv /\ BlocksApart
  /\ pc = "boot" => flushes = 0 /\ accesses = 0 /\ programs = 0 /\ leaked = 0
  /\ pc = "run" => BudgetInv
  /\ RunsUntilExhausted
=============================================================================
