--------------------------- MODULE DmaHeap_proofs ---------------------------
(***************************************************************************)
(* The allocations of the DMA heap are aligned, disjoint and mapped, and   *)
(* the machine runs until it has used up what start-up left: for every     *)
(* size of the heap, of the queues and of the display.                     *)
(***************************************************************************)
EXTENDS DmaHeap, SequenceTheorems, TLAPS

USE HeapAssumption, QueueAssumption

-----------------------------------------------------------------------------
(* Arithmetic *)

\* Division with a remainder.
LEMMA Quotient ==
  ASSUME NEW a \in Nat, NEW n \in Nat \ {0}
  PROVE  /\ a \div n \in Nat /\ a % n \in 0..(n - 1)
         /\ (a \div n) * n \in Nat
         /\ a = (a \div n) * n + (a % n)
<1>1. a \div n \in Nat /\ a % n \in 0..(n - 1)
  BY SMTT(30)
<1>2. a = n * (a \div n) + (a % n)
  BY SMTT(30)
<1>3. PICK q \in Nat, r \in 0..(n - 1) : q = a \div n /\ r = a % n
  BY <1>1
<1>4. q * n \in Nat /\ n * q = q * n
  BY SMTT(30)
<1>5. QED
  BY <1>1, <1>2, <1>3, <1>4

LEMMA MultipleMod ==
  ASSUME NEW q \in Nat, NEW n \in Nat \ {0}
  PROVE  (q * n) % n = 0
  BY SMTT(30)

\* bump_allocate rounds up, to a multiple of the alignment, by less than one.
LEMMA AlignUpRounds ==
  ASSUME NEW a \in Nat, NEW n \in Nat \ {0}
  PROVE  /\ AlignUp(a, n) \in Nat
         /\ a <= AlignUp(a, n) /\ AlignUp(a, n) <= a + n - 1
         /\ AlignUp(a, n) % n = 0
         /\ a % n = 0 => AlignUp(a, n) = a
<1>1. CASE a % n = 0
  BY <1>1 DEF AlignUp
<1>2. CASE a % n # 0
  <2>1. PICK b \in Nat : b = a + n - 1
    OBVIOUS
  <2>2. PICK q \in Nat : q = b \div n /\ q * n \in Nat /\ b - q * n \in 0..(n - 1)
    BY <2>1, Quotient
  <2>3. AlignUp(a, n) = q * n
    BY <1>2, <2>1, <2>2 DEF AlignUp
  <2>4. (q * n) % n = 0
    BY MultipleMod
  <2>5. PICK m \in Nat : m = q * n
    BY <2>2
  <2>6. m <= b /\ b <= m + n - 1
    BY <2>2, <2>5
  <2>7. QED
    BY <1>2, <2>1, <2>3, <2>4, <2>5, <2>6
<1>3. QED
  BY <1>1, <1>2

\* The padding of a queue reaches to the next page.
LEMMA PadWithinPage == pad \in 1..PAGE /\ desc_size \in Nat /\ avail_size \in Nat /\ used_size \in Nat
<1>1. desc_size \in Nat /\ avail_size \in Nat /\ used_size \in Nat
  BY DEF desc_size, avail_size, used_size
<1>2. PICK n \in Nat : n = desc_size + avail_size
  BY <1>1
<1>3. n % PAGE \in 0..(PAGE - 1)
  BY Quotient
<1>4. QED
  BY <1>1, <1>2, <1>3 DEF pad

-----------------------------------------------------------------------------
(* What the calls ask for *)

LEMMA CommandType ==
  ASSUME NEW n \in Nat, NEW answer \in Nat
  PROVE  Command(n, answer) \in Seq(Blocks)
<1>1. Use(n, 8) \in Blocks /\ Use(answer, 8) \in Blocks
  BY DEF Use, Blocks
<1>2. QED
  BY <1>1 DEF Command

\* Requests are sequences of sizes and alignments, for every display.
LEMMA RequestTypes ==
  /\ setup_virtqueue \in Seq(Blocks) /\ InputInit \in Seq(Blocks)
  /\ virtio_gpu_flush \in Seq(Blocks) /\ BlkAccess \in Seq(Blocks)
  /\ \A d \in Displays : gpu_init(d[1], d[2]) \in Seq(Blocks)
  /\ \A l \in Layouts : <<l>> \in Seq(Blocks)
<1>1. setup_virtqueue \in Seq(Blocks)
  <2>1. Keep(desc_size, PAGE) \in Blocks /\ Keep(used_size, 1) \in Blocks
    BY PadWithinPage DEF Keep, Blocks
  <2>2. Keep(avail_size + pad, 1) \in Blocks
    BY PadWithinPage DEF Keep, Blocks
  <2>3. QED
    BY <2>1, <2>2 DEF setup_virtqueue
<1>2. InputInit \in Seq(Blocks)
  <2>1. <<Keep(8 * VIRTQ_SIZE, 8)>> \in Seq(Blocks)
    BY DEF Keep, Blocks
  <2>2. QED
    BY <1>1, <2>1 DEF InputInit
<1>3. virtio_gpu_flush \in Seq(Blocks)
  BY CommandType DEF virtio_gpu_flush
<1>4. BlkAccess \in Seq(Blocks)
  BY DEF BlkAccess, Use, Blocks
<1>5. ASSUME NEW d \in Displays PROVE gpu_init(d[1], d[2]) \in Seq(Blocks)
  <2>1. d[1] \in Nat /\ d[2] \in Nat
    BY DisplayAssumption
  <2>2. FbBytes(d[1], d[2]) \in Nat
    BY <2>1 DEF FbBytes
  <2>3. <<Keep(FbBytes(d[1], d[2]), PAGE)>> \in Seq(Blocks)
    BY <2>2 DEF Keep, Blocks
  <2>4. /\ Command(24, 408) \in Seq(Blocks)
        /\ Command(40, 24) \in Seq(Blocks)
        /\ Command(48, 24) \in Seq(Blocks)
    <3>1. 24 \in Nat /\ 40 \in Nat /\ 48 \in Nat /\ 408 \in Nat
      OBVIOUS
    <3>2. Command(24, 408) \in Seq(Blocks)
      BY <3>1, CommandType
    <3>3. Command(40, 24) \in Seq(Blocks)
      BY <3>1, CommandType
    <3>4. Command(48, 24) \in Seq(Blocks)
      BY <3>1, CommandType
    <3>5. QED
      BY <3>2, <3>3, <3>4
  <2>5. QED
    BY <1>1, <1>3, <2>3, <2>4 DEF gpu_init
<1>6. \A l \in Layouts : <<l>> \in Seq(Blocks)
  BY LayoutAssumption
<1>7. QED
  BY <1>1, <1>2, <1>3, <1>4, <1>5, <1>6

LEMMA ConcatPairs ==
  ASSUME NEW a, NEW b, NEW c, NEW d
  PROVE  <<a, b>> \o <<c, d>> = <<a, b, c, d>>
<1>1. Len(<<a, b>> \o <<c, d>>) = 4
  OBVIOUS
<1>2. \A i \in 1..4 : (<<a, b>> \o <<c, d>>)[i] = <<a, b, c, d>>[i]
  OBVIOUS
<1>3. /\ <<a, b>> \o <<c, d>> \in Seq({a, b, c, d})
      /\ <<a, b, c, d>> \in Seq({a, b, c, d})
  OBVIOUS
<1>4. Len(<<a, b, c, d>>) = 4
  OBVIOUS
<1>5. QED
  BY <1>1, <1>2, <1>3, <1>4, SeqEqual

\* What a flush and a disk access still ask for after each allocation.
LEMMA CallParts ==
  /\ virtio_gpu_flush = <<Use(56, 8), Use(24, 8), Use(48, 8), Use(24, 8)>>
  /\ Tail(virtio_gpu_flush) = <<Use(24, 8), Use(48, 8), Use(24, 8)>>
  /\ Command(48, 24) = <<Use(48, 8), Use(24, 8)>>
  /\ Tail(Tail(virtio_gpu_flush)) = Command(48, 24)
  /\ Tail(Command(48, 24)) = <<Use(24, 8)>>
  /\ BlkAccess = <<Use(16, 16), Use(1, 1)>>
  /\ Tail(BlkAccess) = <<Use(1, 1)>>
<1>1. virtio_gpu_flush = <<Use(56, 8), Use(24, 8), Use(48, 8), Use(24, 8)>>
  BY ConcatPairs DEF virtio_gpu_flush, Command
<1>2. QED
  BY <1>1 DEF Command, BlkAccess

-----------------------------------------------------------------------------
(* The inductive invariant *)

LEMMA HeapInit == Init => HeapInv
<1> SUFFICES ASSUME Init PROVE HeapInv
  OBVIOUS
<1>1. TypeOK
  BY PadWithinPage DEF Init, TypeOK
<1>2. EndInv /\ BlocksApart
  BY DEF Init, EndInv, BlocksApart
<1>3. RunsUntilExhausted
  BY DEF Init, RunsUntilExhausted
<1>4. QED
  BY <1>1, <1>2, <1>3 DEF Init, HeapInv

\* A new call: blocks leave in_use, nothing else moves.
LEMMA StartKeeps ==
  ASSUME HeapInv, NEW r \in Seq(Blocks), Start(r)
  PROVE  /\ EndInv' /\ BlocksApart'
         /\ dma_heap_curr' \in Nat /\ boot_end' \in Nat
         /\ pc' \in {"boot", "run", "halted"} /\ todo' \in Seq(Blocks)
         /\ in_use' \subseteq Block
<1>1. in_use' \subseteq in_use
  BY DEF Start
<1>2. UNCHANGED <<dma_heap_curr, pc, boot_end>> /\ todo' = r
  BY DEF Start
<1>3. EndInv'
  BY <1>1, <1>2 DEF HeapInv, EndInv
<1>4. BlocksApart'
  BY <1>1 DEF HeapInv, BlocksApart
<1>5. QED
  BY <1>1, <1>2, <1>3, <1>4 DEF HeapInv, TypeOK

\* bump_allocate hands out a block that starts at or behind the old end.
LEMMA BumpBlock ==
  ASSUME HeapInv, bump_allocate
  PROVE  \E addr \in Nat :
           /\ Head(todo) \in Blocks /\ Tail(todo) \in Seq(Blocks)
           /\ addr = AlignUp(dma_heap_curr, Head(todo).align)
           /\ dma_heap_curr <= addr
           /\ addr <= dma_heap_curr + Head(todo).align - 1
           /\ addr % Head(todo).align = 0
           /\ dma_heap_curr % Head(todo).align = 0 => addr = dma_heap_curr
           /\ dma_heap_curr' = addr + Head(todo).size
           /\ \/ dma_heap_curr' <= HeapEnd /\ todo' = Tail(todo) /\ Taken(addr) /\ pc' = pc
              \/ dma_heap_curr' > HeapEnd /\ pc' = "halted" /\ UNCHANGED <<todo, in_use>>
<1>1. Head(todo) \in Blocks /\ Tail(todo) \in Seq(Blocks) /\ dma_heap_curr \in Nat
  BY DEF HeapInv, TypeOK, bump_allocate
<1>2. Head(todo).align \in Nat \ {0} /\ Head(todo).size \in Nat
  BY <1>1 DEF Blocks
<1>3. PICK addr \in Nat : addr = AlignUp(dma_heap_curr, Head(todo).align)
  BY <1>1, <1>2, AlignUpRounds
<1>4. /\ dma_heap_curr <= addr /\ addr <= dma_heap_curr + Head(todo).align - 1
      /\ addr % Head(todo).align = 0
      /\ dma_heap_curr % Head(todo).align = 0 => addr = dma_heap_curr
  BY <1>1, <1>2, <1>3, AlignUpRounds
<1>5. /\ dma_heap_curr' = addr + Head(todo).size
      /\ \/ dma_heap_curr' <= HeapEnd /\ todo' = Tail(todo) /\ Taken(addr) /\ pc' = pc
         \/ dma_heap_curr' > HeapEnd /\ pc' = "halted" /\ UNCHANGED <<todo, in_use>>
  BY <1>3 DEF bump_allocate
<1>6. QED
  BY <1>1, <1>3, <1>4, <1>5

LEMMA BumpApart ==
  ASSUME HeapInv, bump_allocate
  PROVE  /\ EndInv' /\ BlocksApart'
         /\ dma_heap_curr' \in Nat /\ todo' \in Seq(Blocks) /\ in_use' \subseteq Block
         /\ pc' \in {"boot", "run", "halted"}
<1> USE DEF HeapInv, TypeOK
<1>1. PICK addr \in Nat :
        /\ Head(todo) \in Blocks /\ Tail(todo) \in Seq(Blocks)
        /\ dma_heap_curr <= addr /\ addr % Head(todo).align = 0
        /\ dma_heap_curr' = addr + Head(todo).size
        /\ \/ dma_heap_curr' <= HeapEnd /\ todo' = Tail(todo) /\ Taken(addr) /\ pc' = pc
           \/ dma_heap_curr' > HeapEnd /\ pc' = "halted" /\ UNCHANGED <<todo, in_use>>
  BY BumpBlock
<1>2. Head(todo).size \in Nat /\ Head(todo).align \in Nat \ {0} /\ Head(todo).kept \in BOOLEAN
  BY <1>1 DEF Blocks
<1>3. CASE /\ dma_heap_curr' <= HeapEnd /\ todo' = Tail(todo) /\ Taken(addr) /\ pc' = pc
  <2>1. PICK n : /\ n = [at |-> addr, size |-> Head(todo).size,
                          align |-> Head(todo).align, kept |-> Head(todo).kept]
                 /\ in_use' = in_use \cup {n}
    BY <1>3 DEF Taken
  <2>2. /\ n \in Block /\ n.at = addr /\ n.size = Head(todo).size
        /\ n.align = Head(todo).align
    BY <1>1, <1>2, <2>1 DEF Block
  <2>3. HeapStart <= dma_heap_curr /\ \A b \in in_use : b.at + b.size <= dma_heap_curr
    BY DEF EndInv
  <2>4. \A b \in in_use : b.at \in Nat /\ b.size \in Nat /\ b.align \in Nat
    BY DEF Block
  <2>5. EndInv'
    BY <1>1, <1>2, <1>3, <2>1, <2>2, <2>3, <2>4 DEF EndInv
  <2>6. ASSUME NEW b \in in_use'
        PROVE HeapStart <= b.at /\ b.at + b.size <= HeapEnd /\ b.at % b.align = 0
    <3>1. CASE b \in in_use
      BY <3>1 DEF BlocksApart
    <3>2. CASE b = n
      BY <1>1, <1>2, <1>3, <2>2, <2>3, <3>2
    <3>3. QED
      BY <2>1, <3>1, <3>2
  <2>7. ASSUME NEW b \in in_use', NEW c \in in_use', b # c
        PROVE b.at + b.size <= c.at \/ c.at + c.size <= b.at
    <3>1. CASE b \in in_use /\ c \in in_use
      BY <2>7, <3>1 DEF BlocksApart
    <3>2. CASE b \in in_use /\ c = n
      BY <1>1, <2>2, <2>3, <2>4, <3>2
    <3>3. CASE b = n /\ c \in in_use
      BY <1>1, <2>2, <2>3, <2>4, <3>3
    <3>4. QED
      BY <2>1, <2>7, <3>1, <3>2, <3>3
  <2>8. BlocksApart'
    BY <2>6, <2>7 DEF BlocksApart
  <2>9. QED
    BY <1>1, <1>2, <1>3, <2>1, <2>2, <2>5, <2>8
<1>4. CASE dma_heap_curr' > HeapEnd /\ pc' = "halted" /\ UNCHANGED <<todo, in_use>>
  <2>1. EndInv'
    <3>1. \A b \in in_use : b.at + b.size <= dma_heap_curr /\ b.at \in Nat /\ b.size \in Nat
      BY DEF EndInv, Block
    <3>2. dma_heap_curr <= dma_heap_curr' /\ HeapStart <= dma_heap_curr /\ dma_heap_curr' \in Nat
      BY <1>1, <1>2 DEF EndInv
    <3>3. QED
      BY <1>4, <3>1, <3>2 DEF EndInv
  <2>2. QED
    BY <1>1, <1>2, <1>4, <2>1 DEF BlocksApart
<1>5. QED
  BY <1>1, <1>3, <1>4

-----------------------------------------------------------------------------
(* What a call costs *)

LEMMA BudgetType == HeapInv => Budget \in Nat
  BY DEF HeapInv, TypeOK, Budget, FlushCost, AccessCost

\* Whatever a call still allocates has been budgeted for.
LEMMA BumpBudget ==
  ASSUME HeapInv, bump_allocate, pc = "run"
  PROVE  /\ Budget' = Budget
         /\ dma_heap_curr' <= Budget
         /\ todo' = Tail(todo) => BudgetInv'
<1>1. Budget' = Budget /\ Budget \in Nat
  BY BudgetType DEF bump_allocate, Budget
<1>2. PICK addr \in Nat :
        /\ dma_heap_curr <= addr
        /\ addr <= dma_heap_curr + Head(todo).align - 1
        /\ addr % Head(todo).align = 0
        /\ dma_heap_curr % Head(todo).align = 0 => addr = dma_heap_curr
        /\ dma_heap_curr' = addr + Head(todo).size
  BY BumpBlock
<1>3. dma_heap_curr \in Nat /\ BudgetInv /\ todo # <<>>
  BY <1>2 DEF HeapInv, TypeOK, bump_allocate
<1>4. CASE todo = virtio_gpu_flush /\ dma_heap_curr + 159 <= Budget
  <2>1. Head(todo).size = 56 /\ Head(todo).align = 8 /\ Tail(todo) = Tail(virtio_gpu_flush)
    BY <1>4, CallParts DEF Use
  <2>2. dma_heap_curr' % 8 = 0 /\ dma_heap_curr' + 96 <= Budget /\ dma_heap_curr' \in Nat
    BY <1>1, <1>2, <1>3, <1>4, <2>1
  <2>3. dma_heap_curr' <= Budget
    BY <1>1, <1>2, <1>3, <1>4, <2>1
  <2>4. todo' = Tail(todo) => BudgetInv'
    BY <1>1, <2>1, <2>2 DEF BudgetInv
  <2>5. QED
    BY <1>1, <2>3, <2>4
<1>5. CASE todo = Tail(virtio_gpu_flush) /\ dma_heap_curr % 8 = 0 /\ dma_heap_curr + 96 <= Budget
  <2>1. Head(todo).size = 24 /\ Head(todo).align = 8 /\ Tail(todo) = Command(48, 24)
    BY <1>5, CallParts DEF Use
  <2>2. dma_heap_curr' % 8 = 0 /\ dma_heap_curr' + 72 <= Budget /\ dma_heap_curr' \in Nat
    <3>1. addr = dma_heap_curr /\ dma_heap_curr' = dma_heap_curr + 24
      BY <1>2, <1>5, <2>1
    <3>2. QED
      BY <1>1, <1>3, <1>5, <3>1
  <2>3. dma_heap_curr' <= Budget
    BY <1>1, <1>2, <1>3, <1>5, <2>1
  <2>4. todo' = Tail(todo) => BudgetInv'
    BY <1>1, <2>1, <2>2 DEF BudgetInv
  <2>5. QED
    BY <1>1, <2>3, <2>4
<1>6. CASE todo = Command(48, 24) /\ dma_heap_curr % 8 = 0 /\ dma_heap_curr + 72 <= Budget
  <2>1. Head(todo).size = 48 /\ Head(todo).align = 8 /\ Tail(todo) = Tail(Command(48, 24))
    BY <1>6, CallParts DEF Use
  <2>2. dma_heap_curr' % 8 = 0 /\ dma_heap_curr' + 24 <= Budget /\ dma_heap_curr' \in Nat
    BY <1>1, <1>2, <1>3, <1>6, <2>1
  <2>3. dma_heap_curr' <= Budget
    BY <1>1, <1>2, <1>3, <1>6, <2>1
  <2>4. todo' = Tail(todo) => BudgetInv'
    BY <1>1, <2>1, <2>2 DEF BudgetInv
  <2>5. QED
    BY <1>1, <2>3, <2>4
<1>7. CASE todo = Tail(Command(48, 24)) /\ dma_heap_curr % 8 = 0 /\ dma_heap_curr + 24 <= Budget
  <2>1. Head(todo).size = 24 /\ Head(todo).align = 8 /\ Tail(todo) = <<>>
    BY <1>7, CallParts DEF Use
  <2>2. dma_heap_curr' <= Budget
    BY <1>1, <1>2, <1>3, <1>7, <2>1
  <2>3. QED
    BY <1>1, <2>1, <2>2 DEF BudgetInv
<1>8. CASE todo = BlkAccess /\ dma_heap_curr + 32 <= Budget
  <2>1. Head(todo).size = 16 /\ Head(todo).align = 16 /\ Tail(todo) = Tail(BlkAccess)
    BY <1>8, CallParts DEF Use
  <2>2. dma_heap_curr' + 1 <= Budget /\ dma_heap_curr' \in Nat
    BY <1>1, <1>2, <1>3, <1>8, <2>1
  <2>3. dma_heap_curr' <= Budget
    BY <1>1, <1>2, <1>3, <1>8, <2>1
  <2>4. todo' = Tail(todo) => BudgetInv'
    BY <1>1, <2>1, <2>2 DEF BudgetInv
  <2>5. QED
    BY <1>1, <2>3, <2>4
<1>9. CASE todo = Tail(BlkAccess) /\ dma_heap_curr + 1 <= Budget
  <2>1. Head(todo).size = 1 /\ Head(todo).align = 1 /\ Tail(todo) = <<>>
    BY <1>9, CallParts DEF Use
  <2>2. dma_heap_curr' <= Budget
    BY <1>1, <1>2, <1>3, <1>9, <2>1
  <2>3. QED
    BY <1>1, <2>1, <2>2 DEF BudgetInv
<1>10. CASE \E l \in Layouts : todo = <<l>> /\ dma_heap_curr + l.size + l.align - 1 <= Budget
  <2>1. PICK l \in Layouts : todo = <<l>> /\ dma_heap_curr + l.size + l.align - 1 <= Budget
    BY <1>10
  <2>2. Head(todo) = l /\ Tail(todo) = <<>>
    BY <2>1
  <2>3. l.size \in Nat /\ l.align \in Nat \ {0}
    BY LayoutAssumption DEF Blocks
  <2>4. dma_heap_curr' <= Budget
    BY <1>1, <1>2, <1>3, <2>1, <2>2, <2>3
  <2>5. QED
    BY <1>1, <2>2, <2>4 DEF BudgetInv
<1>11. QED
  BY <1>3, <1>4, <1>5, <1>6, <1>7, <1>8, <1>9, <1>10 DEF BudgetInv

-----------------------------------------------------------------------------
(* Every step *)

\* A call that starts while the machine runs brings its own budget.
LEMMA StartRunning ==
  ASSUME HeapInv, Flush \/ Access \/ RustAlloc
  PROVE  HeapInv'
<1>1. dma_heap_curr \in Nat /\ boot_end \in Nat /\ leaked \in Nat
      /\ flushes \in Nat /\ accesses \in Nat /\ programs \in Nat
  BY DEF HeapInv, TypeOK
<1>2. pc = "run" /\ todo = <<>> /\ pc' = pc /\ dma_heap_curr' = dma_heap_curr
      /\ boot_end' = boot_end /\ found' = found
  BY DEF Flush, Access, RustAlloc, Start
<1>3. todo # virtio_gpu_flush /\ todo # Tail(virtio_gpu_flush) /\ todo # Command(48, 24)
      /\ todo # Tail(Command(48, 24)) /\ todo # BlkAccess /\ todo # Tail(BlkAccess)
      /\ \A l \in Layouts : todo # <<l>>
  BY <1>2, CallParts
<1>4. dma_heap_curr <= Budget
  BY <1>2, <1>3 DEF HeapInv, BudgetInv
<1>5. CASE Flush
  <2>1. HeapInv /\ Start(virtio_gpu_flush)
    BY <1>5 DEF Flush
  <2>2. flushes' = flushes + 1 /\ UNCHANGED <<accesses, programs, leaked>>
    BY <1>5 DEF Flush
  <2>3. BudgetInv'
    BY <1>1, <1>2, <1>4, <2>1, <2>2 DEF Start, BudgetInv, Budget, FlushCost, AccessCost
  <2>4. TypeOK'
    BY <1>1, <1>2, <2>1, <2>2, StartKeeps, RequestTypes DEF HeapInv, TypeOK, pad
  <2>5. QED
    BY <1>2, <2>1, <2>3, <2>4, StartKeeps, RequestTypes DEF HeapInv, RunsUntilExhausted
<1>6. CASE Access
  <2>1. HeapInv /\ Start(BlkAccess)
    BY <1>6 DEF Access
  <2>2. accesses' = accesses + 1 /\ UNCHANGED <<flushes, programs, leaked>>
    BY <1>6 DEF Access
  <2>3. BudgetInv'
    BY <1>1, <1>2, <1>4, <2>1, <2>2 DEF Start, BudgetInv, Budget, FlushCost, AccessCost
  <2>4. TypeOK'
    BY <1>1, <1>2, <2>1, <2>2, StartKeeps, RequestTypes DEF HeapInv, TypeOK, pad
  <2>5. QED
    BY <1>2, <2>1, <2>3, <2>4, StartKeeps, RequestTypes DEF HeapInv, RunsUntilExhausted
<1>7. CASE RustAlloc
  <2>1. PICK l \in Layouts : Start(<<l>>) /\ leaked' = leaked + l.size + l.align - 1
    BY <1>7 DEF RustAlloc
  <2>2. programs' = programs + 1 /\ UNCHANGED <<flushes, accesses>>
    BY <1>7 DEF RustAlloc
  <2>3. l.size \in Nat /\ l.align \in Nat \ {0}
    BY LayoutAssumption DEF Blocks
  <2>4. BudgetInv'
    <3>1. todo' = <<l>>
      BY <2>1 DEF Start
    <3>2. dma_heap_curr' + l.size + l.align - 1 <= Budget'
      BY <1>1, <1>2, <1>4, <2>1, <2>2, <2>3 DEF Budget, FlushCost, AccessCost
    <3>3. QED
      BY <3>1, <3>2 DEF BudgetInv
  <2>5. leaked' \in Nat
    <3>1. PICK m \in Nat, n \in Nat \ {0} : m = l.size /\ n = l.align
      BY <2>3
    <3>2. leaked' = leaked + m + n - 1
      BY <2>1, <3>1
    <3>3. QED
      BY <1>1, <3>1, <3>2
  <2>6. TypeOK'
    <3>1. programs' \in Nat /\ flushes' \in Nat /\ accesses' \in Nat
      BY <1>1, <2>2
    <3>2. /\ dma_heap_curr' \in Nat /\ boot_end' \in Nat /\ in_use' \subseteq Block
          /\ pc' \in {"boot", "run", "halted"} /\ todo' \in Seq(Blocks)
      BY <2>1, StartKeeps, RequestTypes
    <3>3. QED
      BY <1>2, <2>5, <3>1, <3>2 DEF HeapInv, TypeOK, pad
  <2>7. QED
    BY <1>2, <2>1, <2>4, <2>6, StartKeeps, RequestTypes DEF HeapInv, RunsUntilExhausted
<1>8. QED
  BY <1>5, <1>6, <1>7

LEMMA HeapStep ==
  ASSUME HeapInv, [Next]_vars
  PROVE  HeapInv'
<1>1. CASE Probe
  <2>1. PICK r \in Seq(Blocks) : Start(r)
    BY <1>1, RequestTypes DEF Probe
  <2>2. /\ pc = "boot" /\ found' \subseteq {"input", "gpu", "blk"}
        /\ UNCHANGED <<flushes, accesses, programs, leaked>>
    BY <1>1 DEF Probe, HeapInv, TypeOK
  <2>3. pc' = "boot"
    BY <2>1, <2>2 DEF Start
  <2>4. TypeOK'
    BY <2>1, <2>2, StartKeeps DEF HeapInv, TypeOK, pad
  <2>5. QED
    BY <2>1, <2>2, <2>3, <2>4, StartKeeps DEF HeapInv, RunsUntilExhausted
<1>2. CASE Booted
  <2>1. /\ pc = "boot" /\ pc' = "run" /\ boot_end' = dma_heap_curr /\ todo = <<>>
        /\ UNCHANGED <<dma_heap_curr, todo, found, in_use, flushes, accesses, programs, leaked>>
    BY <1>2 DEF Booted
  <2>2. TypeOK' /\ EndInv' /\ BlocksApart'
    BY <2>1 DEF HeapInv, TypeOK, EndInv, BlocksApart, pad
  <2>3. flushes' = 0 /\ accesses' = 0 /\ programs' = 0 /\ leaked' = 0
        /\ dma_heap_curr \in Nat
    BY <2>1 DEF HeapInv, TypeOK
  <2>4. BudgetInv'
    <3>1. Budget' = dma_heap_curr
      BY <2>1, <2>3 DEF Budget, FlushCost, AccessCost
    <3>2. QED
      BY <2>1, <2>3, <3>1 DEF BudgetInv
  <2>5. QED
    BY <2>1, <2>2, <2>3, <2>4 DEF HeapInv, RunsUntilExhausted
<1>3. CASE bump_allocate
  <2>1. UNCHANGED <<found, flushes, accesses, programs, boot_end, leaked>>
        /\ pc # "halted"
    BY <1>3 DEF bump_allocate
  <2>2. \/ dma_heap_curr' <= HeapEnd /\ todo' = Tail(todo) /\ pc' = pc
        \/ dma_heap_curr' > HeapEnd /\ pc' = "halted"
    BY <1>3, BumpBlock
  <2>3. TypeOK'
    BY <1>3, <2>1, BumpApart DEF HeapInv, TypeOK, pad
  <2>4. EndInv' /\ BlocksApart'
    BY <1>3, BumpApart
  <2>5. pc' = "boot" => flushes' = 0 /\ accesses' = 0 /\ programs' = 0 /\ leaked' = 0
    BY <2>1, <2>2 DEF HeapInv
  <2>6. pc' = "run" => BudgetInv'
    BY <1>3, <2>2, BumpBudget
  <2>7. RunsUntilExhausted'
    <3>1. SUFFICES ASSUME pc' = "halted", (flushes + accesses + programs > 0)'
                   PROVE  Budget' > HeapEnd
      BY DEF RunsUntilExhausted, Budget
    <3>2. pc = "run"
      BY <2>1, <3>1 DEF HeapInv, TypeOK
    <3>3. dma_heap_curr' <= Budget' /\ dma_heap_curr' > HeapEnd
      BY <1>3, <2>2, <3>1, <3>2, BumpBudget
    <3>4. dma_heap_curr' \in Nat /\ Budget' \in Nat
      BY <1>3, <3>2, <2>3, BudgetType, BumpBudget DEF TypeOK
    <3>5. QED
      BY <3>3, <3>4
  <2>8. QED
    BY <2>3, <2>4, <2>5, <2>6, <2>7 DEF HeapInv
<1>4. CASE UNCHANGED vars
  <2>1. TypeOK' /\ EndInv' /\ BlocksApart' /\ RunsUntilExhausted'
    BY <1>4 DEF HeapInv, vars, TypeOK, EndInv, BlocksApart, RunsUntilExhausted, pad
  <2>2. BudgetInv' <=> BudgetInv
    BY <1>4 DEF vars, BudgetInv, Budget
  <2>3. QED
    BY <1>4, <2>1, <2>2 DEF HeapInv, vars
<1>5. QED
  BY <1>1, <1>2, <1>3, <1>4, StartRunning DEF Next

-----------------------------------------------------------------------------
(* Theorems *)

LEMMA HeapInvariant == Spec => []HeapInv
<1>1. Init => HeapInv
  BY HeapInit
<1>2. HeapInv /\ [Next]_vars => HeapInv'
  BY HeapStep
<1>3. QED
  BY <1>1, <1>2, PTL DEF Spec

\* The allocator's state is well formed, and the padding of a queue is never
\* more than a page, for queues of every size.
THEOREM TypeCorrect == Spec => []TypeOK
<1>1. HeapInv => TypeOK
  BY DEF HeapInv
<1>2. QED
  BY <1>1, HeapInvariant, PTL

\* bump_allocate never gives a byte to two users, aligns each block as asked
\* and keeps it in the mapped range, whoever calls in whatever order.
THEOREM NoOverlap == Spec => []BlocksApart
<1>1. HeapInv => BlocksApart
  BY DEF HeapInv
<1>2. QED
  BY <1>1, HeapInvariant, PTL

\* After start-up a fault comes only when the calls since then have used what
\* start-up left: 159 bytes for a flush, 32 for a disk access at most.
THEOREM RunsUntilTheHeapIsUsed == Spec => []RunsUntilExhausted
<1>1. HeapInv => RunsUntilExhausted
  BY DEF HeapInv
<1>2. QED
  BY <1>1, HeapInvariant, PTL
=============================================================================
