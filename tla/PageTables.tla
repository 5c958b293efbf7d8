----------------------------- MODULE PageTables -----------------------------
(***************************************************************************)
(* The translation tables of kernel/mmu.c.  The second level is indexed by *)
(* blocks (2 MB) and its entries are a block or one of three tables of the *)
(* third level; addresses are numbers of pages.  l2_table_user is the part *)
(* of l2 under 0x40000000, l2_table_kernel the part above.                 *)
(***************************************************************************)
EXTENDS Integers

CONSTANTS
  ENTRIES,              \* pages of a block, entries of a table (512)
  MMIO_PAGES,           \* pages with VirtIO registers (32)
  el0_start, el0_end    \* pages of the EL0 region, from linker.ld

\* Numbers of blocks: addresses divided by 0x200000.
KBASE == 512   \* 0x40000000
RAM_BLOCKS == 64
GIC == 64      \* 0x08000000
UART == 72     \* 0x09000000
VIRTIO == 80   \* 0x0A000000
WINDOW == 256  \* 0x20000000
DMA == 640     \* 0x50000000

ASSUME EntriesAssumption == ENTRIES \in Nat \ {0} /\ MMIO_PAGES \in 1..ENTRIES
\* .el0_text and the end of .el0_stack are aligned to blocks, and lie in RAM.
ASSUME RegionAssumption ==
  /\ el0_start \in Nat /\ el0_end \in Nat
  /\ el0_start % ENTRIES = 0 /\ el0_end % ENTRIES = 0
  /\ KBASE * ENTRIES <= el0_start /\ el0_start <= el0_end
  /\ el0_end <= (KBASE + RAM_BLOCKS) * ENTRIES

VARIABLES l2, l3
tables == <<l2, l3>>

Slots == 0..(ENTRIES - 1)
Invalid == [kind |-> "invalid"]
Block(b, el0) == [kind |-> "block", pa |-> b * ENTRIES, el0 |-> el0]
Table(t) == [kind |-> "table", name |-> t]
Page(p, el0) == [kind |-> "page", pa |-> p, el0 |-> el0]
NoPages == [i \in Slots |-> Invalid]

RamBlocks == KBASE..(KBASE + RAM_BLOCKS - 1)
\* idx_start and idx_end: the blocks that contain a page of the EL0 region
El0BlocksAll == RamBlocks  \* mutant: all of RAM
El0Blocks ==
  {b \in RamBlocks :
     el0_start \div ENTRIES <= b /\ b < (el0_end + ENTRIES - 1) \div ENTRIES}

mmu_init_tables ==
  /\ l2' = [b \in RamBlocks \cup {GIC, UART, DMA, DMA + 1, VIRTIO} |->
             IF b = VIRTIO THEN Table("mmio") ELSE Block(b, b \in El0Blocks)]
  /\ l3' = [mmio |-> [i \in Slots |-> IF i < MMIO_PAGES
                                      THEN Page(VIRTIO * ENTRIES + i, FALSE) ELSE Invalid],
            fb_0 |-> NoPages, fb_1 |-> NoPages]

\* Page index of the framebuffer, shown in the tables from the given first one:
\* what does not fit in the two tables is left out.
FbPages(from, phys, pages) ==
  [i \in Slots |-> IF from + i < pages THEN Page(phys + from + i, TRUE) ELSE Invalid]

\* size counts pages begun.
mmu_map_framebuffer(phys, pages) ==
  /\ l2' = [b \in DOMAIN l2 \cup {WINDOW, WINDOW + 1} |->
             IF b = WINDOW THEN Table("fb_0")
             ELSE IF b = WINDOW + 1 THEN Table("fb_1") ELSE l2[b]]
  /\ l3' = [l3 EXCEPT !.fb_0 = FbPages(0, phys, pages),
                      !.fb_1 = FbPages(ENTRIES, phys, pages)]

\* The table walk of the processor
Entry(page) ==
  LET b == page \div ENTRIES IN
  IF b \notin DOMAIN l2 THEN Invalid
  ELSE IF l2[b].kind = "table" THEN l3[l2[b].name][page % ENTRIES] ELSE l2[b]
Mapped(page) == Entry(page) # Invalid
Physical(page) ==
  LET e == Entry(page) IN IF e.kind = "block" THEN e.pa + (page % ENTRIES) ELSE e.pa
El0May(page) == Mapped(page) /\ Entry(page).el0

MappedPages == {p \in UNION {(b * ENTRIES)..(b * ENTRIES + ENTRIES - 1) : b \in DOMAIN l2} :
                  Mapped(p)}
InWindow(p) == WINDOW * ENTRIES <= p /\ p < (WINDOW + 2) * ENTRIES
=============================================================================
