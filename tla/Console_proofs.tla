--------------------------- MODULE Console_proofs ---------------------------
(***************************************************************************)
(* The way of a key to the screen: the translation tables and the window   *)
(* that the shell draws through (Screen, PageTables), the characters it    *)
(* draws there (Terminal), the decoding of a key (Keyboard) and the        *)
(* mailbox that carries it to the shell (IpcRing).                         *)
(***************************************************************************)
EXTENDS Screen, Keyboard, IpcRing, FiniteSetTheorems, SequenceTheorems, TLAPS


(***************************************************************************)
(* The translation tables and the window: Confined and DrawsOnScreen.      *)
(***************************************************************************)
-----------------------------------------------------------------------------
(* Pages and blocks *)

LEMMA PageOfBlock ==
  ASSUME NEW p \in Nat
  PROVE  /\ (p \div ENTRIES) \in Nat /\ (p % ENTRIES) \in Slots
         /\ p = (p \div ENTRIES) * ENTRIES + (p % ENTRIES)
<1>1. ENTRIES \in Nat \ {0}
  BY EntriesAssumption
<1>2. (p \div ENTRIES) \in Nat /\ (p % ENTRIES) \in 0..(ENTRIES - 1) /\ p = ENTRIES * (p \div ENTRIES) + (p % ENTRIES)
  BY <1>1
<1> QED
  BY <1>1, <1>2 DEF Slots

\* Pages are in the order of their blocks.
LEMMA BlockOrder ==
  ASSUME NEW b \in Nat, NEW c \in Nat, NEW r \in Slots
  PROVE  c * ENTRIES <= b * ENTRIES + r <=> c <= b
<1> DEFINE B == b * ENTRIES
           C == c * ENTRIES
<1>1. ENTRIES \in Nat \ {0} /\ B \in Nat /\ C \in Nat /\ r \in 0..(ENTRIES - 1)
  BY EntriesAssumption DEF Slots
<1>2. c <= b => C <= B
  BY <1>1
<1>3. b + 1 <= c => (b + 1) * ENTRIES <= C
  BY <1>1
<1>4. (b + 1) * ENTRIES = B + ENTRIES
  BY <1>1
<1> HIDE DEF B, C
<1>5. b + 1 <= c => B + r < C
  BY <1>1, <1>3, <1>4
<1>6. c <= b \/ b + 1 <= c
  OBVIOUS
<1>7. C <= B + r <=> c <= b
  BY <1>1, <1>2, <1>5, <1>6
<1> QED
  BY <1>7 DEF B, C

LEMMA BlockUnique ==
  ASSUME NEW b \in Nat, NEW r \in Slots
  PROVE  (b * ENTRIES + r) \div ENTRIES = b /\ (b * ENTRIES + r) % ENTRIES = r
<1>1. ENTRIES \in Nat \ {0} /\ b * ENTRIES \in Nat /\ r \in Nat
  BY EntriesAssumption DEF Slots
<1>2. PICK p \in Nat : p = b * ENTRIES + r
  BY <1>1
<1>3. PICK q \in Nat, s \in Slots : q = p \div ENTRIES /\ s = p % ENTRIES /\ p = q * ENTRIES + s
  BY PageOfBlock
<1>4. b <= q
  <2>1. b * ENTRIES <= q * ENTRIES + s
    BY <1>1, <1>2, <1>3
  <2> QED
    BY <2>1, BlockOrder
<1>5. q <= b
  <2>1. q * ENTRIES <= b * ENTRIES + r
    <3>1. q * ENTRIES \in Nat /\ s \in Nat
      BY <1>1 DEF Slots
    <3> QED
      BY <1>1, <1>2, <1>3, <3>1
  <2> QED
    BY <2>1, BlockOrder
<1>6. q = b
  BY <1>4, <1>5
<1>7. s = r
  <2>1. s \in Nat
    BY <1>1 DEF Slots
  <2> QED
    BY <1>1, <1>2, <1>3, <1>6, <2>1
<1> QED
  BY <1>2, <1>3, <1>6, <1>7

\* The blocks of the EL0 region hold its pages and no others.
LEMMA El0Region ==
  ASSUME NEW b \in Nat, NEW r \in Slots
  PROVE  b \in El0Blocks <=> el0_start <= b * ENTRIES + r /\ b * ENTRIES + r < el0_end
<1>1. ENTRIES \in Nat \ {0} /\ KBASE * ENTRIES \in Nat /\ b * ENTRIES + r \in Nat
  BY EntriesAssumption DEF KBASE, Slots
<1>2. el0_start \in Nat /\ el0_end \in Nat
  BY RegionAssumption
<1>3. PICK s \in Nat : s = el0_start \div ENTRIES /\ el0_start = s * ENTRIES
  BY <1>1, <1>2, RegionAssumption, PageOfBlock
<1>4. PICK e \in Nat : e = el0_end \div ENTRIES /\ el0_end = e * ENTRIES
  BY <1>1, <1>2, RegionAssumption, PageOfBlock
<1>5. (el0_end + ENTRIES - 1) \div ENTRIES = e
  <2>1. ENTRIES - 1 \in Slots
    BY <1>1 DEF Slots
  <2>2. (e * ENTRIES + (ENTRIES - 1)) \div ENTRIES = e
    BY <2>1, BlockUnique
  <2>3. e * ENTRIES + (ENTRIES - 1) = el0_end + ENTRIES - 1
    BY <1>1, <1>2, <1>4
  <2> QED
    BY <2>2, <2>3
<1>6. KBASE <= s
  <2>1. 0 \in Slots /\ s * ENTRIES \in Nat /\ KBASE \in Nat
    BY <1>1 DEF Slots, KBASE
  <2>2. KBASE * ENTRIES <= s * ENTRIES + 0
    BY <1>3, <2>1, RegionAssumption
  <2> QED
    BY <2>1, <2>2, BlockOrder
<1>7. e <= KBASE + RAM_BLOCKS
  <2>1. 0 \in Slots /\ (KBASE + RAM_BLOCKS) * ENTRIES \in Nat /\ KBASE + RAM_BLOCKS \in Nat
    BY <1>1 DEF Slots, KBASE, RAM_BLOCKS
  <2>2. e * ENTRIES <= (KBASE + RAM_BLOCKS) * ENTRIES + 0
    BY <1>4, <2>1, RegionAssumption
  <2> QED
    BY <2>1, <2>2, BlockOrder
<1>8. el0_start <= b * ENTRIES + r <=> s <= b
  BY <1>3, BlockOrder
<1>9. el0_end <= b * ENTRIES + r <=> e <= b
  BY <1>4, BlockOrder
<1>10. b \in El0Blocks <=> s <= b /\ b < e
  <2>1. b \in El0Blocks <=> KBASE <= b /\ b <= KBASE + RAM_BLOCKS - 1 /\ s <= b /\ b < e
    BY <1>3, <1>5 DEF El0Blocks, RamBlocks, KBASE, RAM_BLOCKS
  <2> QED
    BY <1>6, <1>7, <2>1 DEF KBASE, RAM_BLOCKS
<1> QED
  BY <1>1, <1>2, <1>8, <1>9, <1>10

LEMMA WindowBlocks ==
  ASSUME NEW b \in Nat, NEW r \in Slots
  PROVE  InWindow(b * ENTRIES + r) <=> b \in {WINDOW, WINDOW + 1}
<1>1. ENTRIES \in Nat \ {0} /\ (WINDOW + 2) * ENTRIES \in Nat /\ b * ENTRIES + r \in Nat
  BY EntriesAssumption DEF WINDOW, Slots
<1>2. WINDOW * ENTRIES <= b * ENTRIES + r <=> WINDOW <= b
  BY BlockOrder DEF WINDOW
<1>3. (WINDOW + 2) * ENTRIES <= b * ENTRIES + r <=> WINDOW + 2 <= b
  BY BlockOrder DEF WINDOW
<1> QED
  BY <1>1, <1>2, <1>3 DEF InWindow, WINDOW

-----------------------------------------------------------------------------
(* The tables *)

KernelBlocks == RamBlocks \cup {GIC, UART, DMA, DMA + 1, VIRTIO}

\* What the tables are from the start of the machine on: those of the kernel,
\* and with a display the window.
TablesBuilt ==
  /\ DOMAIN l2 = KernelBlocks \cup (IF display = <<>> THEN {} ELSE {WINDOW, WINDOW + 1})
  /\ \A b \in KernelBlocks : l2[b] = IF b = VIRTIO THEN Table("mmio") ELSE Block(b, b \in El0Blocks)
  /\ l3.mmio = [i \in Slots |-> IF i < MMIO_PAGES THEN Page(VIRTIO * ENTRIES + i, FALSE) ELSE Invalid]
  /\ display # <<>> =>
       /\ l2[WINDOW] = Table("fb_0") /\ l2[WINDOW + 1] = Table("fb_1")
       /\ l3.fb_0 = FbPages(0, fb_phys, fb_pages) /\ l3.fb_1 = FbPages(ENTRIES, fb_phys, fb_pages)

\* The shell runs if it may draw on all that it paints.
ScreenInv ==
  /\ pc \in {"reset", "probe", "drop", "run", "halted"}
  /\ pc # "reset" => TablesBuilt
  /\ pc \in {"reset", "probe"} => display = <<>>
  /\ l3 = [mmio |-> l3.mmio, fb_0 |-> l3.fb_0, fb_1 |-> l3.fb_1]
  /\ fb_pages \in Nat
  /\ display # <<>> =>
       display \in Displays /\ fb_pages = Pages(Display(display)[1], Display(display)[2])
  /\ pc \in {"run", "halted"} => (pc = "run" <=> \A p \in Drawn : El0May(p))

LEMMA BlocksApart ==
  /\ VIRTIO \in KernelBlocks /\ VIRTIO \notin RamBlocks
  /\ WINDOW \notin KernelBlocks /\ WINDOW + 1 \notin KernelBlocks
  /\ KernelBlocks \subseteq Nat /\ WINDOW \in Nat /\ VIRTIO \in Nat
  /\ El0Blocks \subseteq RamBlocks
BY DEF KernelBlocks, RamBlocks, GIC, UART, DMA, VIRTIO, WINDOW, KBASE, RAM_BLOCKS, El0Blocks

\* What the processor finds for page r of block b.
LEMMA Walk ==
  ASSUME TablesBuilt, NEW b \in Nat, NEW r \in Slots
  PROVE  /\ b \in KernelBlocks \ {VIRTIO} => Entry(b * ENTRIES + r) = Block(b, b \in El0Blocks)
         /\ b = VIRTIO =>
              Entry(b * ENTRIES + r) = IF r < MMIO_PAGES THEN Page(VIRTIO * ENTRIES + r, FALSE) ELSE Invalid
         /\ display # <<>> /\ b = WINDOW =>
              Entry(b * ENTRIES + r) = IF r < fb_pages THEN Page(fb_phys + r, TRUE) ELSE Invalid
         /\ display # <<>> /\ b = WINDOW + 1 =>
              Entry(b * ENTRIES + r) =
                IF ENTRIES + r < fb_pages THEN Page(fb_phys + ENTRIES + r, TRUE) ELSE Invalid
         /\ b \notin DOMAIN l2 => Entry(b * ENTRIES + r) = Invalid
<1> DEFINE p == b * ENTRIES + r
<1>1. p \div ENTRIES = b /\ p % ENTRIES = r
  BY BlockUnique
<1> HIDE DEF p
<1>2. Entry(p) = IF b \notin DOMAIN l2 THEN Invalid
                 ELSE IF l2[b].kind = "table" THEN l3[l2[b].name][r] ELSE l2[b]
  BY <1>1 DEF Entry
<1>3. \A c, el0 : Block(c, el0).kind # "table"
  BY DEF Block
<1>4. \A t : Table(t).kind = "table" /\ Table(t).name = t
  BY DEF Table
<1>5. b \in KernelBlocks \ {VIRTIO} => Entry(p) = Block(b, b \in El0Blocks)
  BY <1>2, <1>3 DEF TablesBuilt
<1>6. b = VIRTIO => Entry(p) = IF r < MMIO_PAGES THEN Page(VIRTIO * ENTRIES + r, FALSE) ELSE Invalid
  <2> SUFFICES ASSUME b = VIRTIO
               PROVE  Entry(p) = IF r < MMIO_PAGES THEN Page(VIRTIO * ENTRIES + r, FALSE) ELSE Invalid
    OBVIOUS
  <2>1. l2[b] = Table("mmio") /\ b \in DOMAIN l2
    BY BlocksApart DEF TablesBuilt
  <2>2. Entry(p) = l3.mmio[r]
    BY <1>2, <1>4, <2>1
  <2> QED
    BY <2>2 DEF TablesBuilt
<1>7. ASSUME display # <<>>, b = WINDOW
      PROVE  Entry(p) = IF r < fb_pages THEN Page(fb_phys + r, TRUE) ELSE Invalid
  <2>1. l2[b] = Table("fb_0") /\ b \in DOMAIN l2
    BY <1>7 DEF TablesBuilt
  <2>2. Entry(p) = l3.fb_0[r]
    BY <1>2, <1>4, <2>1
  <2>3. l3.fb_0 = FbPages(0, fb_phys, fb_pages)
    BY <1>7 DEF TablesBuilt
  <2>4. 0 + r = r /\ fb_phys + 0 + r = fb_phys + r
    BY DisplayAssumption, EntriesAssumption DEF Slots
  <2> QED
    BY <2>2, <2>3, <2>4 DEF FbPages
<1>8. ASSUME display # <<>>, b = WINDOW + 1
      PROVE  Entry(p) = IF ENTRIES + r < fb_pages THEN Page(fb_phys + ENTRIES + r, TRUE) ELSE Invalid
  <2>1. l2[b] = Table("fb_1") /\ b \in DOMAIN l2
    BY <1>8 DEF TablesBuilt
  <2>2. Entry(p) = l3.fb_1[r]
    BY <1>2, <1>4, <2>1
  <2>3. l3.fb_1 = FbPages(ENTRIES, fb_phys, fb_pages)
    BY <1>8 DEF TablesBuilt
  <2> QED
    BY <2>2, <2>3 DEF FbPages
<1>9. b \notin DOMAIN l2 => Entry(p) = Invalid
  BY <1>2
<1> QED
  BY <1>5, <1>6, <1>7, <1>8, <1>9 DEF p

LEMMA EntryKinds ==
  /\ \A c, el0 : Block(c, el0) # Invalid /\ Block(c, el0).kind = "block"
                 /\ Block(c, el0).pa = c * ENTRIES /\ Block(c, el0).el0 = el0
  /\ \A c, el0 : Page(c, el0) # Invalid /\ Page(c, el0).kind # "block" /\ Page(c, el0).pa = c
  /\ \A c : Page(c, TRUE).el0 /\ ~Page(c, FALSE).el0
<1>1. Invalid.kind = "invalid"
  BY DEF Invalid
<1>2. \A c, el0 : Block(c, el0).kind = "block" /\ Block(c, el0).pa = c * ENTRIES /\ Block(c, el0).el0 = el0
  BY DEF Block
<1>3. \A c, el0 : Page(c, el0).kind = "page" /\ Page(c, el0).pa = c
  BY DEF Page
<1>4. \A c : Page(c, TRUE).el0 /\ ~Page(c, FALSE).el0
  BY DEF Page
<1> QED
  BY <1>1, <1>2, <1>3, <1>4

-----------------------------------------------------------------------------
(* What EL0 reaches *)

LEMMA ConfinedHere == ScreenInv => Confined
<1> SUFFICES ASSUME ScreenInv, pc # "reset", NEW p \in MappedPages
             PROVE  /\ El0May(p) <=> \/ el0_start <= p /\ p < el0_end
                                     \/ InWindow(p)
                    /\ Physical(p) \in IF InWindow(p) THEN fb_phys..(fb_phys + fb_pages - 1) ELSE {p}
  BY DEF Confined
<1>1. TablesBuilt /\ fb_pages \in Nat
  BY DEF ScreenInv
<1>2. PICK b \in DOMAIN l2 : p \in (b * ENTRIES)..(b * ENTRIES + ENTRIES - 1)
  BY DEF MappedPages
<1>3. b \in Nat /\ (b \in KernelBlocks \/ (display # <<>> /\ b \in {WINDOW, WINDOW + 1}))
  <2>1. b \in KernelBlocks \cup (IF display = <<>> THEN {} ELSE {WINDOW, WINDOW + 1})
    BY <1>1, <1>2, Zenon DEF TablesBuilt
  <2>2. b \in KernelBlocks \/ (display # <<>> /\ b \in {WINDOW, WINDOW + 1})
    BY <2>1
  <2>3. WINDOW \in Nat /\ WINDOW + 1 \in Nat /\ KernelBlocks \subseteq Nat
    BY BlocksApart
  <2> QED
    BY <2>2, <2>3
<1>4. PICK r \in Slots : p = b * ENTRIES + r
  <2>1. ENTRIES \in Nat \ {0} /\ b * ENTRIES \in Nat
    BY <1>3, EntriesAssumption
  <2>2. p - b * ENTRIES \in Slots /\ p = b * ENTRIES + (p - b * ENTRIES)
    BY <1>2, <2>1 DEF Slots
  <2> QED
    BY <2>2
<1>5. Entry(p) # Invalid
  BY DEF MappedPages, Mapped
<1>6. /\ b \in El0Blocks <=> el0_start <= p /\ p < el0_end
      /\ InWindow(p) <=> b \in {WINDOW, WINDOW + 1}
      /\ p % ENTRIES = r
  BY <1>3, <1>4, El0Region, WindowBlocks, BlockUnique
<1>7. El0May(p) <=> Entry(p).el0
  BY <1>5 DEF El0May, Mapped
<1>8. CASE b \in KernelBlocks \ {VIRTIO}
  <2>1. Entry(p) = Block(b, b \in El0Blocks)
    BY <1>1, <1>3, <1>4, <1>8, Walk
  <2>2. Entry(p).el0 = (b \in El0Blocks) /\ Entry(p).kind = "block" /\ Entry(p).pa = b * ENTRIES
    BY <2>1, EntryKinds
  <2>3. ~InWindow(p)
    BY <1>6, <1>8, BlocksApart
  <2>4. Physical(p) = p
    BY <1>4, <1>6, <2>2 DEF Physical
  <2> QED
    BY <1>6, <1>7, <2>2, <2>3, <2>4
<1>9. CASE b = VIRTIO
  <2>1. Entry(p) = Page(VIRTIO * ENTRIES + r, FALSE)
    BY <1>1, <1>3, <1>4, <1>5, <1>9, Walk
  <2>2. ~Entry(p).el0 /\ Entry(p).kind # "block" /\ Entry(p).pa = p
    <3>1. p = VIRTIO * ENTRIES + r
      BY <1>4, <1>9
    <3>2. ~Entry(p).el0
      BY <2>1, EntryKinds, Zenon
    <3>3. Entry(p).kind # "block" /\ Entry(p).pa = VIRTIO * ENTRIES + r
      BY <2>1, EntryKinds, Zenon
    <3> QED
      BY <3>1, <3>2, <3>3
  <2>3. ~InWindow(p) /\ b \notin El0Blocks
    BY <1>6, <1>9, BlocksApart
  <2>4. Physical(p) = p
    BY <2>2 DEF Physical
  <2> QED
    BY <1>6, <1>7, <2>2, <2>3, <2>4
<1>10. CASE display # <<>> /\ b \in {WINDOW, WINDOW + 1}
  <2>1. InWindow(p)
    BY <1>6, <1>10
  <2>2. PICK i \in Nat : Entry(p) = Page(fb_phys + i, TRUE) /\ i < fb_pages
    <3>1. r \in Nat /\ ENTRIES + r \in Nat /\ fb_phys \in Nat /\ ENTRIES \in Nat
      BY EntriesAssumption, DisplayAssumption DEF Slots
    <3>2. CASE b = WINDOW
      <4>1. Entry(p) = Page(fb_phys + r, TRUE) /\ r < fb_pages
        BY <1>1, <1>3, <1>4, <1>5, <1>10, <3>2, Walk
      <4> QED
        BY <3>1, <4>1
    <3>3. CASE b = WINDOW + 1
      <4>1. Entry(p) = Page(fb_phys + ENTRIES + r, TRUE) /\ ENTRIES + r < fb_pages
        BY <1>1, <1>3, <1>4, <1>5, <1>10, <3>3, Walk
      <4>2. fb_phys + ENTRIES + r = fb_phys + (ENTRIES + r)
        BY <3>1
      <4> QED
        BY <3>1, <4>1, <4>2
    <3> QED
      BY <1>10, <3>2, <3>3
  <2>3. Entry(p).el0 /\ Physical(p) = fb_phys + i
    <3>1. Entry(p).el0
      BY <2>2, EntryKinds, Zenon
    <3>2. Entry(p).kind # "block" /\ Entry(p).pa = fb_phys + i
      BY <2>2, EntryKinds, Zenon
    <3> QED
      BY <3>1, <3>2 DEF Physical
  <2>4. fb_phys + i \in fb_phys..(fb_phys + fb_pages - 1)
    BY <1>1, <2>2, DisplayAssumption
  <2> QED
    BY <1>7, <2>1, <2>3, <2>4
<1> QED
  BY <1>3, <1>8, <1>9, <1>10

LEMMA ScreenSize == Pages(COLS, ROWS) \in Nat /\ Pages(COLS, ROWS) >= 1
<1>1. COLS \in Nat \ {0} /\ ROWS \in Nat \ {0}
  BY SizeAssumption
<1>2. COLS * ROWS \in Nat /\ COLS * ROWS >= 1
  BY <1>1
<1> DEFINE n == COLS * ROWS
<1> HIDE DEF n
<1>3. n \in Nat /\ n >= 1
  BY <1>2 DEF n
<1>4. (n + 3) \div 4 \in Nat /\ (n + 3) \div 4 >= 1
  BY <1>3
<1> QED
  BY <1>4 DEF Pages, n

\* The shell may draw on its whole screen if the memory behind the window is
\* large enough for it, and then draws on that memory.
LEMMA MayDraw ==
  ASSUME TablesBuilt, fb_pages \in Nat
  PROVE  /\ (\A p \in Drawn : El0May(p)) <=> display # <<>> /\ fb_pages >= Pages(COLS, ROWS)
         /\ display # <<>> /\ fb_pages >= Pages(COLS, ROWS) =>
              \A p \in Drawn : Physical(p) = fb_phys + (p - WINDOW * ENTRIES)
<1> DEFINE n == Pages(COLS, ROWS)
<1>1. n \in Nat /\ n >= 1 /\ n <= 2 * ENTRIES /\ ENTRIES \in Nat \ {0} /\ fb_phys \in Nat
  BY ScreenSize, WindowAssumption, EntriesAssumption, DisplayAssumption
<1>2. Drawn = {WINDOW * ENTRIES + i : i \in 0..(n - 1)}
  BY DEF Drawn
<1> HIDE DEF n
<1>3. WINDOW \in Nat /\ WINDOW * ENTRIES \in Nat /\ WINDOW + 1 \in Nat
  BY <1>1 DEF WINDOW
<1>4. ASSUME display # <<>>, NEW i \in 0..(n - 1)
      PROVE  Entry(WINDOW * ENTRIES + i) = IF i < fb_pages THEN Page(fb_phys + i, TRUE) ELSE Invalid
  <2>1. CASE i < ENTRIES
    <3>1. i \in Slots
      BY <1>1, <2>1 DEF Slots
    <3>2. TablesBuilt
      OBVIOUS
    <3> QED
      BY <1>3, <1>4, <3>1, <3>2, Walk, Zenon
  <2>2. CASE i >= ENTRIES
    <3>1. i - ENTRIES \in Slots
      BY <1>1, <2>2 DEF Slots
    <3> DEFINE r == i - ENTRIES
    <3>2. Entry((WINDOW + 1) * ENTRIES + r) =
            IF ENTRIES + r < fb_pages THEN Page(fb_phys + ENTRIES + r, TRUE) ELSE Invalid
      <4> HIDE DEF r
      <4>1. r \in Slots
        BY <3>1 DEF r
      <4> QED
        BY <1>3, <1>4, <4>1, Walk
    <3>3. ENTRIES + r = i /\ fb_phys + ENTRIES + r = fb_phys + i
      BY <1>1
    <3>4. (WINDOW + 1) * ENTRIES + r = WINDOW * ENTRIES + i
      BY <1>1 DEF WINDOW
    <3> HIDE DEF r
    <3> QED
      BY <3>2, <3>3, <3>4
  <2>3. i < ENTRIES \/ i >= ENTRIES
    BY <1>1
  <2> QED
    BY <2>1, <2>2, <2>3
<1>5. ASSUME display = <<>> PROVE \E p \in Drawn : ~El0May(p)
  <2>1. 0 \in 0..(n - 1) /\ 0 \in Slots /\ WINDOW * ENTRIES + 0 \in Drawn
    BY <1>1, <1>2 DEF Slots
  <2>2. WINDOW \notin DOMAIN l2
    BY <1>5, BlocksApart DEF TablesBuilt
  <2>3. Entry(WINDOW * ENTRIES + 0) = Invalid
    BY <1>3, <2>1, <2>2, Walk
  <2> QED
    BY <2>1, <2>3 DEF El0May, Mapped
<1>6. ASSUME display # <<>>, fb_pages < n PROVE \E p \in Drawn : ~El0May(p)
  <2>1. fb_pages \in 0..(n - 1)
    BY <1>1, <1>6
  <2>2. Entry(WINDOW * ENTRIES + fb_pages) = Invalid
    <3>1. ~(fb_pages < fb_pages)
      BY <2>1
    <3> QED
      BY <1>4, <1>6, <2>1, <3>1
  <2>3. WINDOW * ENTRIES + fb_pages \in Drawn
    BY <1>2, <2>1
  <2> QED
    BY <2>2, <2>3 DEF El0May, Mapped
<1>7. ASSUME display # <<>>, fb_pages >= n, NEW p \in Drawn
      PROVE  El0May(p) /\ Physical(p) = fb_phys + (p - WINDOW * ENTRIES)
  <2>1. PICK i \in 0..(n - 1) : p = WINDOW * ENTRIES + i
    BY <1>2
  <2>2. i < fb_pages
    BY <1>1, <1>7, <2>1
  <2>3. Entry(p) = Page(fb_phys + i, TRUE)
    BY <1>4, <1>7, <2>1, <2>2
  <2>4. p - WINDOW * ENTRIES = i
    BY <1>3, <2>1
  <2>5. Physical(p) = fb_phys + i /\ El0May(p)
    <3>1. Entry(p).el0 /\ Entry(p) # Invalid
      BY <2>3, EntryKinds, Zenon
    <3>2. Entry(p).kind # "block" /\ Entry(p).pa = fb_phys + i
      BY <2>3, EntryKinds, Zenon
    <3> QED
      BY <3>1, <3>2 DEF Physical, El0May, Mapped
  <2> QED
    BY <2>4, <2>5
<1>8. fb_pages >= n \/ fb_pages < n
  BY <1>1
<1> QED
  BY <1>5, <1>6, <1>7, <1>8 DEF n

LEMMA DrawsHere == ScreenInv => DrawsOnScreen
<1> SUFFICES ASSUME ScreenInv, pc \in {"run", "halted"} PROVE DrawsOnScreen
  BY DEF DrawsOnScreen
<1>1. TablesBuilt /\ fb_pages \in Nat /\ (pc = "run" <=> \A p \in Drawn : El0May(p))
  BY DEF ScreenInv
<1>2. pc = "run" <=> display # <<>> /\ fb_pages >= Pages(COLS, ROWS)
  BY <1>1, MayDraw
<1>3. pc = "run" => \A p \in Drawn : Physical(p) = fb_phys + (p - WINDOW * ENTRIES)
  BY <1>1, <1>2, MayDraw
<1>4. display # <<>> =>
        (fb_pages >= Pages(COLS, ROWS) <=>
           \/ display[1] = 0 \/ display[2] = 0
           \/ Pages(display[1], display[2]) >= Pages(COLS, ROWS))
  <2> SUFFICES ASSUME display # <<>>
               PROVE  fb_pages >= Pages(COLS, ROWS) <=>
                        \/ display[1] = 0 \/ display[2] = 0
                        \/ Pages(display[1], display[2]) >= Pages(COLS, ROWS)
    OBVIOUS
  <2>1. fb_pages = Pages(Display(display)[1], Display(display)[2])
    BY DEF ScreenInv
  <2>2. CASE display[1] = 0 \/ display[2] = 0
    <3>1. Display(display) = <<COLS, ROWS>>
      BY <2>2 DEF Display
    <3>2. fb_pages = Pages(COLS, ROWS)
      BY <2>1, <3>1
    <3> QED
      BY <2>2, <3>2, ScreenSize
  <2>3. CASE ~(display[1] = 0 \/ display[2] = 0)
    <3>1. Display(display) = display
      BY <2>3 DEF Display
    <3> QED
      BY <2>1, <2>3, <3>1
  <2> QED
    BY <2>2, <2>3
<1> QED
  BY <1>2, <1>3, <1>4 DEF DrawsOnScreen

-----------------------------------------------------------------------------
(* The steps *)

LEMMA ScreenInit == Init => ScreenInv
<1> SUFFICES ASSUME Init PROVE ScreenInv
  OBVIOUS
<1> QED
  BY DEF Init, ScreenInv

LEMMA InitTablesKeeps == ScreenInv /\ InitTables => ScreenInv'
<1> SUFFICES ASSUME ScreenInv, InitTables PROVE ScreenInv'
  OBVIOUS
<1>1. /\ pc = "reset" /\ pc' = "probe" /\ display = <<>> /\ display' = display /\ fb_pages' = fb_pages
      /\ mmu_init_tables /\ fb_pages \in Nat
  BY DEF InitTables, ScreenInv
<1>2. TablesBuilt'
  <2>1. l2' = [b \in KernelBlocks |-> IF b = VIRTIO THEN Table("mmio") ELSE Block(b, b \in El0Blocks)]
    BY <1>1 DEF mmu_init_tables, KernelBlocks
  <2>2. l3'.mmio = [i \in Slots |-> IF i < MMIO_PAGES THEN Page(VIRTIO * ENTRIES + i, FALSE) ELSE Invalid]
    BY <1>1 DEF mmu_init_tables
  <2> QED
    BY <1>1, <2>1, <2>2 DEF TablesBuilt
<1>3. (l3 = [mmio |-> l3.mmio, fb_0 |-> l3.fb_0, fb_1 |-> l3.fb_1])'
  BY <1>1 DEF mmu_init_tables
<1> QED
  BY <1>1, <1>2, <1>3 DEF ScreenInv

LEMMA GpuInitKeeps == ScreenInv /\ gpu_init => ScreenInv'
<1> SUFFICES ASSUME ScreenInv, gpu_init PROVE ScreenInv'
  OBVIOUS
<1>1. /\ pc = "probe" /\ pc' = "drop" /\ display = <<>> /\ TablesBuilt
      /\ l3 = [mmio |-> l3.mmio, fb_0 |-> l3.fb_0, fb_1 |-> l3.fb_1]
  BY DEF gpu_init, ScreenInv
<1>2. PICK d \in Displays : /\ display' = d
                            /\ fb_pages' = Pages(Display(d)[1], Display(d)[2])
                            /\ mmu_map_framebuffer(fb_phys, fb_pages')
  BY DEF gpu_init
<1>3. PICK w \in Nat, h \in Nat : d = <<w, h>>
  BY DisplayAssumption
<1>4. display' # <<>>
  BY <1>2, <1>3
<1>5. fb_pages' \in Nat
  <2>1. PICK x \in Nat, y \in Nat : Display(d) = <<x, y>>
    BY <1>3, SizeAssumption DEF Display
  <2>2. fb_pages' = (x * y + 3) \div 4
    BY <1>2, <2>1 DEF Pages
  <2>3. PICK z \in Nat : z = x * y
    OBVIOUS
  <2>4. (z + 3) \div 4 \in Nat
    OBVIOUS
  <2> QED
    BY <2>2, <2>3, <2>4
<1>6. /\ l2' = [b \in DOMAIN l2 \cup {WINDOW, WINDOW + 1} |->
                  IF b = WINDOW THEN Table("fb_0")
                  ELSE IF b = WINDOW + 1 THEN Table("fb_1") ELSE l2[b]]
      /\ l3' = [l3 EXCEPT !.fb_0 = FbPages(0, fb_phys, fb_pages'),
                          !.fb_1 = FbPages(ENTRIES, fb_phys, fb_pages')]
  BY <1>2 DEF mmu_map_framebuffer
<1>7. l3' = [mmio |-> l3.mmio, fb_0 |-> FbPages(0, fb_phys, fb_pages'), fb_1 |-> FbPages(ENTRIES, fb_phys, fb_pages')]
  BY <1>1, <1>6
<1>8. DOMAIN l2 = KernelBlocks
  BY <1>1 DEF TablesBuilt
<1>9. \A b \in KernelBlocks : l2'[b] = l2[b]
  BY <1>6, <1>8, BlocksApart
<1>10. l2'[WINDOW] = Table("fb_0") /\ l2'[WINDOW + 1] = Table("fb_1")
  BY <1>6 DEF WINDOW
<1>11. DOMAIN l2' = KernelBlocks \cup {WINDOW, WINDOW + 1}
  BY <1>6, <1>8
<1>12. l3'.mmio = l3.mmio /\ l3'.fb_0 = FbPages(0, fb_phys, fb_pages') /\ l3'.fb_1 = FbPages(ENTRIES, fb_phys, fb_pages')
  BY <1>7
<1>13. TablesBuilt'
  BY <1>1, <1>4, <1>9, <1>10, <1>11, <1>12 DEF TablesBuilt
<1>14. (l3 = [mmio |-> l3.mmio, fb_0 |-> l3.fb_0, fb_1 |-> l3.fb_1])'
  BY <1>7
<1> QED
  BY <1>1, <1>2, <1>5, <1>13, <1>14 DEF ScreenInv

\* A step that leaves the tables alone.
LEMMA TablesKept ==
  ASSUME ScreenInv, UNCHANGED <<tables, fb_pages, display>>,
         pc' \in {"reset", "probe", "drop", "run", "halted"},
         pc = "reset" => pc' = pc,
         pc' \in {"reset", "probe"} => pc' = pc,
         pc' \in {"run", "halted"} => (pc' = "run" <=> \A p \in Drawn : El0May(p))
  PROVE  ScreenInv'
<1>1. UNCHANGED <<l2, l3, fb_pages, display>>
  BY DEF tables
<1>2. TablesBuilt' <=> TablesBuilt
  BY <1>1 DEF TablesBuilt
<1>3. \A p : El0May(p)' <=> El0May(p)
  BY <1>1 DEF El0May, Mapped, Entry
<1> QED
  BY <1>1, <1>2, <1>3 DEF ScreenInv

LEMMA ScreenNext == ScreenInv /\ [Next]_vars => ScreenInv'
<1> SUFFICES ASSUME ScreenInv, [Next]_vars PROVE ScreenInv'
  OBVIOUS
<1>1. CASE InitTables
  BY <1>1, InitTablesKeeps
<1>2. CASE gpu_init
  BY <1>2, GpuInitKeeps
<1>3. CASE NoDisplay
  <2>1. UNCHANGED <<tables, fb_pages, display>> /\ pc = "probe" /\ pc' = "drop"
    BY <1>3 DEF NoDisplay
  <2> QED
    BY <2>1, TablesKept
<1>4. CASE ShellStart
  <2>1. /\ UNCHANGED <<tables, fb_pages, display>> /\ pc = "drop" /\ pc' \in {"run", "halted"}
        /\ pc' = "run" <=> \A p \in Drawn : El0May(p)
    BY <1>4 DEF ShellStart
  <2> QED
    BY <2>1, TablesKept
<1>5. CASE HandleKey
  <2>1. UNCHANGED <<tables, fb_pages, display, pc>>
    BY <1>5 DEF HandleKey, boot
  <2> QED
    BY <2>1, TablesKept DEF ScreenInv
<1>6. CASE UNCHANGED vars
  <2>1. UNCHANGED <<tables, fb_pages, display, pc>>
    BY <1>6 DEF vars, boot
  <2> QED
    BY <2>1, TablesKept DEF ScreenInv
<1> QED
  BY <1>1, <1>2, <1>3, <1>4, <1>5, <1>6 DEF Next

\* The shell reaches its own region and the screen's memory and nothing else,
\* wherever the linker puts the region, whatever size the display reports.
THEOREM ConfinedCorrect == Spec => []Confined
BY ScreenInit, ScreenNext, ConfinedHere, PTL DEF Spec

\* The shell runs exactly if the screen's memory is as large as what it paints,
\* and then paints on that memory, page by page.
THEOREM DrawsOnScreenCorrect == Spec => []DrawsOnScreen
BY ScreenInit, ScreenNext, DrawsHere, PTL DEF Spec


(***************************************************************************)
(* The terminal: ScreenShowsOutput and LineShown.                          *)
(***************************************************************************)
-----------------------------------------------------------------------------
(* Drawing *)

Grids == [1..ROWS -> [1..COLS -> SUBSET Glyphs]]

\* A screen whose cursor is on it, or on the row that a scroll is to make room
\* for.
Tall(t) ==
  /\ t = [cells |-> t.cells, x |-> t.x, y |-> t.y]
  /\ t.cells \in Grids
  /\ t.x \in 1..COLS /\ t.y \in 1..(ROWS + 1)
  /\ t.y = ROWS + 1 => t.x = 1
OnScreen(t) == Tall(t) /\ t.y <= ROWS

LEMMA InkIs == ASSUME NEW c PROVE Ink(c) \in SUBSET Glyphs
BY DEF Ink

IsDrawn(t, c, u) ==
  /\ u = [cells |-> u.cells, x |-> t.x + 1, y |-> t.y]
  /\ u.cells \in Grids
  /\ \A r \in 1..ROWS, k \in 1..COLS :
       u.cells[r][k] = IF r = t.y /\ k = t.x THEN t.cells[r][k] \cup Ink(c) ELSE t.cells[r][k]

LEMMA DrawIs ==
  ASSUME NEW t, NEW c, OnScreen(t)
  PROVE  IsDrawn(t, c, Draw(t, c))
<1>1. PICK g, x, y : /\ t = [cells |-> g, x |-> x, y |-> y] /\ g \in Grids
                     /\ x \in 1..COLS /\ y \in 1..ROWS
  BY SizeAssumption DEF OnScreen, Tall
<1> DEFINE row == [g[y] EXCEPT ![x] = @ \cup Ink(c)]
           h == [g EXCEPT ![y] = row]
<1>2. row \in [1..COLS -> SUBSET Glyphs]
  BY <1>1, InkIs DEF Grids
<1>3. h \in Grids
  BY <1>1, <1>2 DEF Grids
<1>4. \A r \in 1..ROWS, k \in 1..COLS : h[r][k] = IF r = y /\ k = x THEN g[r][k] \cup Ink(c) ELSE g[r][k]
  BY <1>1 DEF Grids
<1>5. Draw(t, c) = [cells |-> h, x |-> x + 1, y |-> y]
  <2>1. t.cells = g /\ t.x = x /\ t.y = y
    BY <1>1
  <2>2. Draw(t, c) = [t EXCEPT !.cells = h, !.x = x + 1]
    BY <2>1 DEF Draw
  <2> HIDE DEF h
  <2> QED
    BY <1>1, <2>2
<1> HIDE DEF row, h
<1> QED
  BY <1>1, <1>3, <1>4, <1>5 DEF IsDrawn

LEMMA EraseIs ==
  ASSUME NEW t, OnScreen(t), t.x > 1
  PROVE  /\ Erase(t) = [cells |-> Erase(t).cells, x |-> t.x - 1, y |-> t.y]
         /\ Erase(t).cells \in Grids
         /\ \A r \in 1..ROWS, k \in 1..COLS :
              Erase(t).cells[r][k] = IF r = t.y /\ k = t.x - 1 THEN {} ELSE t.cells[r][k]
<1>1. PICK g, x, y : /\ t = [cells |-> g, x |-> x, y |-> y] /\ g \in Grids
                     /\ x \in 2..COLS /\ y \in 1..ROWS
  BY SizeAssumption DEF OnScreen, Tall
<1> DEFINE row == [g[y] EXCEPT ![x - 1] = {}]
           h == [g EXCEPT ![y] = row]
<1>2. row \in [1..COLS -> SUBSET Glyphs]
  BY <1>1 DEF Grids
<1>3. h \in Grids
  BY <1>1, <1>2 DEF Grids
<1>4. \A r \in 1..ROWS, k \in 1..COLS : h[r][k] = IF r = y /\ k = x - 1 THEN {} ELSE g[r][k]
  BY <1>1 DEF Grids
<1>5. Erase(t) = [cells |-> h, x |-> x - 1, y |-> y]
  BY <1>1 DEF Erase
<1> HIDE DEF row, h
<1> QED
  BY <1>1, <1>3, <1>4, <1>5

LEMMA NewRowIs ==
  ASSUME NEW t, NEW g, NEW x, NEW y, t = [cells |-> g, x |-> x, y |-> y]
  PROVE  NewRow(t) = [cells |-> g, x |-> 1, y |-> y + 1]
<1>1. t.y = y
  OBVIOUS
<1>2. NewRow(t) = [t EXCEPT !.x = 1, !.y = y + 1]
  BY <1>1 DEF NewRow
<1> QED
  BY <1>2

\* A scroll moves every row up by one and clears the last.
LEMMA ScrollIs ==
  ASSUME NEW t, Tall(t)
  PROVE  /\ OnScreen(Scroll(t))
         /\ t.y <= ROWS => Scroll(t) = t
         /\ t.y = ROWS + 1 =>
              /\ Scroll(t).y = ROWS /\ Scroll(t).x = t.x
              /\ \A r \in 1..ROWS, k \in 1..COLS :
                   Scroll(t).cells[r][k] = IF r < ROWS THEN t.cells[r + 1][k] ELSE {}
<1>1. PICK g, x, y : /\ t = [cells |-> g, x |-> x, y |-> y] /\ g \in Grids
                     /\ x \in 1..COLS /\ y \in 1..(ROWS + 1)
  BY DEF Tall
<1>2. ROWS \in Nat \ {0} /\ COLS \in Nat \ {0}
  BY SizeAssumption
<1>3. CASE y <= ROWS
  BY <1>1, <1>2, <1>3 DEF Scroll, OnScreen
<1>4. CASE y = ROWS + 1
  <2> DEFINE h == [r \in 1..ROWS |-> IF r < ROWS THEN g[r + 1] ELSE Row]
  <2>1. Scroll(t) = [cells |-> h, x |-> x, y |-> y - 1]
    <3>1. t.cells = g /\ t.x = x /\ t.y = y /\ t.y > ROWS
      BY <1>1, <1>2, <1>4
    <3>2. Scroll(t) = [t EXCEPT !.y = y - 1, !.cells = h]
      BY <3>1 DEF Scroll
    <3> HIDE DEF h
    <3> QED
      BY <1>1, <3>2
  <2>2. Row \in [1..COLS -> SUBSET Glyphs] /\ \A k \in 1..COLS : Row[k] = {}
    BY DEF Row
  <2>3. h \in Grids
    BY <1>1, <1>2, <2>2 DEF Grids
  <2>4. \A r \in 1..ROWS, k \in 1..COLS : h[r][k] = IF r < ROWS THEN g[r + 1][k] ELSE {}
    BY <2>2
  <2> HIDE DEF h
  <2>5. y - 1 = ROWS /\ y - 1 \in 1..(ROWS + 1)
    BY <1>2, <1>4
  <2>6. OnScreen(Scroll(t))
    BY <1>1, <1>2, <2>1, <2>3, <2>5 DEF OnScreen, Tall
  <2>7. /\ Scroll(t).y = ROWS /\ Scroll(t).x = t.x
        /\ \A r \in 1..ROWS, k \in 1..COLS :
             Scroll(t).cells[r][k] = IF r < ROWS THEN t.cells[r + 1][k] ELSE {}
    BY <1>1, <2>1, <2>4, <2>5
  <2>8. ~(t.y <= ROWS)
    BY <1>1, <1>2, <1>4
  <2> QED
    BY <2>6, <2>7, <2>8
<1> QED
  BY <1>1, <1>2, <1>3, <1>4

-----------------------------------------------------------------------------
(* The screen and the lines *)

CellOf(ls, r, k) == IF r <= Len(ls) /\ k <= Len(ls[r]) THEN Ink(ls[r][k]) ELSE {}

AgreesTall(t, ls) ==
  /\ Tall(t)
  /\ ls \in Seq(Seq(Keys)) /\ t.y = Len(ls) /\ t.x = Len(ls[t.y]) + 1
  /\ \A r \in 1..ROWS, k \in 1..COLS : t.cells[r][k] = CellOf(ls, r, k)
Agrees(t, ls) == AgreesTall(t, ls) /\ t.y <= ROWS

LEMMA LatestIs ==
  ASSUME NEW ls \in Seq(Seq(Keys)), Len(ls) \in 1..(ROWS + 1)
  PROVE  /\ Latest(ls) \in Seq(Seq(Keys))
         /\ Len(ls) <= ROWS => Latest(ls) = ls
         /\ Len(ls) = ROWS + 1 =>
              Len(Latest(ls)) = ROWS /\ \A r \in 1..ROWS : Latest(ls)[r] = ls[r + 1]
<1>1. ROWS \in Nat \ {0} /\ Len(ls) \in Nat
  BY SizeAssumption
<1>2. \A m \in Int : (m \in {1, 2} /\ m <= 2) => Max({1, m}) = m
  <2> SUFFICES ASSUME NEW m \in {1, 2} PROVE Max({1, m}) = m
    OBVIOUS
  <2> QED
    BY DEF Max
<1>3. CASE Len(ls) <= ROWS
  <2>1. Max({1, Len(ls) - ROWS + 1}) = 1
    <3> DEFINE m == Len(ls) - ROWS + 1
    <3>1. m \in Int /\ m <= 1
      BY <1>1, <1>3
    <3> HIDE DEF m
    <3>2. Max({1, m}) = 1
      BY <3>1 DEF Max
    <3> QED
      BY <3>2 DEF m
  <2>2. Latest(ls) = SubSeq(ls, 1, Len(ls))
    BY <2>1 DEF Latest
  <2>3. Latest(ls) = ls
    BY <2>2, SubSeqFull
  <2> QED
    BY <1>1, <1>3, <2>3
<1>4. CASE Len(ls) = ROWS + 1
  <2>1. Len(ls) - ROWS + 1 = 2
    BY <1>1, <1>4
  <2>2. Latest(ls) = SubSeq(ls, 2, Len(ls))
    <3>1. Max({1, 2}) = 2
      BY <1>2
    <3>2. Max({1, Len(ls) - ROWS + 1}) = 2
      BY <2>1, <3>1
    <3> QED
      BY <3>2 DEF Latest
  <2>3. /\ SubSeq(ls, 2, Len(ls)) \in Seq(Seq(Keys))
        /\ Len(SubSeq(ls, 2, Len(ls))) = Len(ls) - 1
        /\ \A r \in 1..(Len(ls) - 1) : SubSeq(ls, 2, Len(ls))[r] = ls[r + 1]
    BY <1>1, <1>4
  <2>4. Len(ls) - 1 = ROWS /\ ~(Len(ls) <= ROWS)
    BY <1>1, <1>4
  <2> QED
    BY <2>2, <2>3, <2>4
<1> QED
  BY <1>1, <1>3, <1>4

LEMMA ScrollAgrees ==
  ASSUME NEW t, NEW ls, AgreesTall(t, ls)
  PROVE  Agrees(Scroll(t), Latest(ls))
<1>1. /\ ls \in Seq(Seq(Keys)) /\ t.y = Len(ls) /\ t.x = Len(ls[t.y]) + 1
      /\ Len(ls) \in 1..(ROWS + 1) /\ Tall(t)
      /\ \A r \in 1..ROWS, k \in 1..COLS : t.cells[r][k] = CellOf(ls, r, k)
  BY DEF AgreesTall, Tall
<1>2. ROWS \in Nat \ {0}
  BY SizeAssumption
<1>3. CASE t.y <= ROWS
  <2>1. Scroll(t) = t /\ Latest(ls) = ls
    BY <1>1, <1>3, ScrollIs, LatestIs
  <2> QED
    BY <1>3, <2>1 DEF Agrees
<1>4. CASE t.y = ROWS + 1
  <2> DEFINE s == Scroll(t)
             ms == Latest(ls)
  <2>1. /\ OnScreen(s) /\ s.y = ROWS /\ s.x = t.x
        /\ \A r \in 1..ROWS, k \in 1..COLS : s.cells[r][k] = IF r < ROWS THEN t.cells[r + 1][k] ELSE {}
    BY <1>1, <1>4, ScrollIs
  <2>2. ms \in Seq(Seq(Keys)) /\ Len(ms) = ROWS /\ \A r \in 1..ROWS : ms[r] = ls[r + 1]
    BY <1>1, <1>4, LatestIs
  <2> HIDE DEF s, ms
  <2>3. t.x = 1 /\ Len(ls[ROWS + 1]) = 0
    <3>1. ls[ROWS + 1] \in Seq(Keys) /\ t.x = 1
      <4>1. ROWS + 1 \in 1..Len(ls)
        BY <1>1, <1>2, <1>4
      <4>2. ls[ROWS + 1] \in Seq(Keys)
        BY <1>1, <4>1
      <4>3. t.x = 1
        BY <1>1, <1>4 DEF Tall
      <4> QED
        BY <4>2, <4>3
    <3>2. Len(ls[ROWS + 1]) \in Nat
      BY <3>1
    <3> QED
      BY <1>1, <1>4, <3>1, <3>2
  <2>4. \A r \in 1..ROWS, k \in 1..COLS : s.cells[r][k] = CellOf(ms, r, k)
    <3> SUFFICES ASSUME NEW r \in 1..ROWS, NEW k \in 1..COLS PROVE s.cells[r][k] = CellOf(ms, r, k)
      OBVIOUS
    <3>1. CASE r < ROWS
      <4>1. r + 1 \in 1..ROWS /\ r <= ROWS /\ r + 1 <= Len(ls)
        BY <1>1, <1>2, <1>4, <3>1
      <4>2. s.cells[r][k] = CellOf(ls, r + 1, k)
        BY <1>1, <2>1, <3>1, <4>1
      <4> QED
        BY <2>2, <4>1, <4>2 DEF CellOf
    <3>2. CASE r = ROWS
      <4>1. ~(r < ROWS) /\ ms[r] = ls[ROWS + 1] /\ ~(k <= 0)
        BY <1>2, <2>2, <3>2
      <4>2. s.cells[r][k] = {}
        BY <2>1, <4>1
      <4> QED
        BY <2>3, <4>1, <4>2 DEF CellOf
    <3> QED
      BY <1>2, <3>1, <3>2
  <2>5. s.x = Len(ms[s.y]) + 1 /\ s.y <= ROWS
    <3>1. ROWS \in 1..ROWS
      BY <1>2
    <3> QED
      BY <1>2, <2>1, <2>2, <2>3, <3>1
  <2>6. Agrees(s, ms)
    BY <2>1, <2>2, <2>4, <2>5 DEF Agrees, AgreesTall, OnScreen
  <2> QED
    BY <2>6 DEF s, ms
<1> QED
  BY <1>1, <1>2, <1>3, <1>4

-----------------------------------------------------------------------------
(* One character *)

LEMMA DrawAgrees ==
  ASSUME NEW t, NEW ls, Agrees(t, ls), NEW c \in Chars
  PROVE  LET with == ReplaceAt(ls, Len(ls), Append(Last(ls), c))
             u == Draw(t, c)
         IN  /\ with \in Seq(Seq(Keys)) /\ Len(with) = Len(ls)
             /\ with[Len(ls)] = Append(ls[Len(ls)], c)
             /\ u = [cells |-> u.cells, x |-> t.x + 1, y |-> t.y] /\ u.cells \in Grids
             /\ \A r \in 1..ROWS, k \in 1..COLS : u.cells[r][k] = CellOf(with, r, k)
<1> DEFINE with == ReplaceAt(ls, Len(ls), Append(Last(ls), c))
           u == Draw(t, c)
           n == Len(ls)
<1>1. /\ ls \in Seq(Seq(Keys)) /\ t.y = n /\ t.x = Len(ls[n]) + 1 /\ n \in 1..ROWS
      /\ OnScreen(t)
      /\ \A r \in 1..ROWS, k \in 1..COLS : t.cells[r][k] = CellOf(ls, r, k)
  BY SizeAssumption DEF Agrees, AgreesTall, OnScreen, Tall
<1>2. /\ u = [cells |-> u.cells, x |-> t.x + 1, y |-> t.y] /\ u.cells \in Grids
      /\ \A r \in 1..ROWS, k \in 1..COLS :
           u.cells[r][k] = IF r = t.y /\ k = t.x THEN t.cells[r][k] \cup Ink(c) ELSE t.cells[r][k]
  <2>1. IsDrawn(t, c, u)
    BY <1>1, DrawIs
  <2> HIDE DEF u
  <2> QED
    BY <2>1 DEF IsDrawn
<1>3. n \in 1..n /\ n \in Nat
  BY <1>1
<1>4. ls[n] \in Seq(Keys) /\ c \in Keys
  BY <1>1, <1>3 DEF Keys
<1>5. with = [ls EXCEPT ![n] = Append(ls[n], c)]
  BY DEF ReplaceAt, Last
<1> HIDE DEF with, u
<1>6. Append(ls[n], c) \in Seq(Keys)
  BY <1>4
<1>7. /\ with \in Seq(Seq(Keys)) /\ Len(with) = n
      /\ \A r \in 1..n : with[r] = IF r = n THEN Append(ls[n], c) ELSE ls[r]
  BY <1>1, <1>3, <1>5, <1>6
<1>8. with[n] = Append(ls[n], c)
  BY <1>3, <1>7
<1>9. /\ Len(with[n]) = t.x
      /\ \A k \in 1..t.x : with[n][k] = IF k = t.x THEN c ELSE ls[n][k]
  BY <1>1, <1>4, <1>8
<1>10. \A r \in 1..ROWS, k \in 1..COLS : u.cells[r][k] = CellOf(with, r, k)
  <2> SUFFICES ASSUME NEW r \in 1..ROWS, NEW k \in 1..COLS PROVE u.cells[r][k] = CellOf(with, r, k)
    OBVIOUS
  <2>1. t.cells[r][k] = CellOf(ls, r, k)
    BY <1>1
  <2>2. t.x \in Nat /\ k \in Nat /\ r \in Nat /\ ROWS \in Nat /\ k >= 1 /\ r >= 1
    BY <1>1, <1>4, SizeAssumption
  <2>3. CASE r = n /\ k = t.x
    <3>1. u.cells[r][k] = t.cells[r][k] \cup Ink(c)
      BY <1>1, <1>2, <2>3
    <3>2. ~(k <= Len(ls[n]))
      BY <1>1, <1>4, <2>3
    <3>3. CellOf(ls, r, k) = {}
      BY <2>3, <3>2 DEF CellOf
    <3>4. r <= Len(with) /\ k <= Len(with[r]) /\ with[r][k] = c
      BY <1>3, <1>7, <1>9, <2>2, <2>3
    <3>5. CellOf(with, r, k) = Ink(c)
      BY <3>4 DEF CellOf
    <3> QED
      BY <2>1, <3>1, <3>3, <3>5
  <2>4. CASE r = n /\ k # t.x
    <3>1. u.cells[r][k] = CellOf(ls, r, k)
      BY <1>1, <1>2, <2>1, <2>4
    <3>2. k <= Len(ls[n]) <=> k <= Len(with[n])
      BY <1>1, <1>4, <1>9, <2>2, <2>4
    <3>3. k <= Len(with[n]) => with[n][k] = ls[n][k]
      BY <1>9, <2>2, <2>4
    <3> QED
      BY <1>7, <2>4, <3>1, <3>2, <3>3 DEF CellOf
  <2>5. CASE r # n
    <3>1. u.cells[r][k] = CellOf(ls, r, k)
      BY <1>1, <1>2, <2>1, <2>5
    <3>2. r <= n => with[r] = ls[r]
      BY <1>7, <2>2, <2>5
    <3> QED
      BY <1>7, <3>1, <3>2 DEF CellOf
  <2> QED
    BY <2>3, <2>4, <2>5
<1> QED
  BY <1>2, <1>7, <1>8, <1>10 DEF with, u

LEMMA NewRowAgrees ==
  ASSUME NEW t, NEW ls \in Seq(Seq(Keys)),
         t = [cells |-> t.cells, x |-> t.x, y |-> t.y], t.cells \in Grids,
         t.y \in 1..ROWS, t.y = Len(ls),
         \A r \in 1..ROWS, k \in 1..COLS : t.cells[r][k] = CellOf(ls, r, k)
  PROVE  AgreesTall(NewRow(t), Append(ls, <<>>))
<1> DEFINE u == NewRow(t)
           ms == Append(ls, <<>>)
<1>1. u = [cells |-> t.cells, x |-> 1, y |-> t.y + 1]
  BY NewRowIs
<1>2. /\ ms \in Seq(Seq(Keys)) /\ Len(ms) = Len(ls) + 1 /\ ms[Len(ls) + 1] = <<>>
      /\ \A r \in 1..Len(ls) : ms[r] = ls[r]
  OBVIOUS
<1> HIDE DEF u, ms
<1>3. ROWS \in Nat \ {0} /\ COLS \in Nat \ {0}
  BY SizeAssumption
<1>4. Tall(u)
  <2>1. u.y \in 1..(ROWS + 1) /\ u.x \in 1..COLS /\ u.cells \in Grids /\ u.x = 1
    BY <1>1, <1>3
  <2> QED
    BY <1>1, <2>1 DEF Tall
<1>5. \A r \in 1..ROWS, k \in 1..COLS : u.cells[r][k] = CellOf(ms, r, k)
  <2> SUFFICES ASSUME NEW r \in 1..ROWS, NEW k \in 1..COLS PROVE u.cells[r][k] = CellOf(ms, r, k)
    OBVIOUS
  <2>1. u.cells[r][k] = CellOf(ls, r, k)
    BY <1>1
  <2>2. CASE r <= Len(ls)
    <3>1. ms[r] = ls[r] /\ r <= Len(ms)
      BY <1>2, <2>2
    <3> QED
      BY <2>1, <2>2, <3>1 DEF CellOf
  <2>3. CASE r > Len(ls)
    <3>1. ~(r <= Len(ls)) /\ (r <= Len(ms) => ms[r] = <<>>) /\ ~(k <= Len(<<>>))
      BY <1>2, <2>3
    <3>2. CellOf(ms, r, k) = {}
      BY <3>1 DEF CellOf
    <3> QED
      BY <2>1, <3>1, <3>2 DEF CellOf
  <2> QED
    BY <2>2, <2>3
<1>6. u.y = Len(ms) /\ u.x = Len(ms[u.y]) + 1
  BY <1>1, <1>2
<1>7. AgreesTall(u, ms)
  BY <1>2, <1>4, <1>5, <1>6 DEF AgreesTall
<1> QED
  BY <1>7 DEF u, ms

LEMMA EraseAgrees ==
  ASSUME NEW t, NEW ls, Agrees(t, ls), t.x > 1
  PROVE  Agrees(Erase(t), ReplaceAt(ls, Len(ls), Front(Last(ls))))
<1> DEFINE less == ReplaceAt(ls, Len(ls), Front(Last(ls)))
           u == Erase(t)
           n == Len(ls)
<1>1. /\ ls \in Seq(Seq(Keys)) /\ t.y = n /\ t.x = Len(ls[n]) + 1 /\ n \in 1..ROWS
      /\ OnScreen(t) /\ t.x \in 1..COLS
      /\ \A r \in 1..ROWS, k \in 1..COLS : t.cells[r][k] = CellOf(ls, r, k)
  BY SizeAssumption DEF Agrees, AgreesTall, OnScreen, Tall
<1>2. /\ u = [cells |-> u.cells, x |-> t.x - 1, y |-> t.y] /\ u.cells \in Grids
      /\ \A r \in 1..ROWS, k \in 1..COLS :
           u.cells[r][k] = IF r = t.y /\ k = t.x - 1 THEN {} ELSE t.cells[r][k]
  <2>1. OnScreen(t)
    BY <1>1
  <2> HIDE DEF OnScreen
  <2> QED
    BY <2>1, EraseIs
<1>3. n \in 1..n /\ n \in Nat /\ ROWS \in Nat /\ COLS \in Nat /\ t.x \in Nat
  BY <1>1, SizeAssumption
<1>4. ls[n] \in Seq(Keys) /\ Len(ls[n]) >= 1
  BY <1>1, <1>3
<1>5. less = [ls EXCEPT ![n] = SubSeq(ls[n], 1, Len(ls[n]) - 1)]
  BY DEF ReplaceAt, Last, Front
<1> HIDE DEF less, u
<1>6. /\ SubSeq(ls[n], 1, Len(ls[n]) - 1) \in Seq(Keys)
      /\ Len(SubSeq(ls[n], 1, Len(ls[n]) - 1)) = Len(ls[n]) - 1
      /\ \A k \in 1..(Len(ls[n]) - 1) : SubSeq(ls[n], 1, Len(ls[n]) - 1)[k] = ls[n][k]
  BY <1>4
<1>7. /\ less \in Seq(Seq(Keys)) /\ Len(less) = n
      /\ \A r \in 1..n : less[r] = IF r = n THEN SubSeq(ls[n], 1, Len(ls[n]) - 1) ELSE ls[r]
  BY <1>1, <1>3, <1>5, <1>6
<1>8. /\ Len(less[n]) = t.x - 2
      /\ \A k \in 1..(t.x - 2) : less[n][k] = ls[n][k]
  <2>1. PICK m : m = SubSeq(ls[n], 1, Len(ls[n]) - 1)
    OBVIOUS
  <2>2. less[n] = m
    BY <1>3, <1>7, <2>1
  <2>3. Len(m) = Len(ls[n]) - 1 /\ \A k \in 1..(Len(ls[n]) - 1) : m[k] = ls[n][k]
    BY <1>6, <2>1
  <2>4. Len(ls[n]) - 1 = t.x - 2
    BY <1>1, <1>3, <1>4
  <2> QED
    BY <2>2, <2>3, <2>4
<1>9. \A r \in 1..ROWS, k \in 1..COLS : u.cells[r][k] = CellOf(less, r, k)
  <2> SUFFICES ASSUME NEW r \in 1..ROWS, NEW k \in 1..COLS PROVE u.cells[r][k] = CellOf(less, r, k)
    OBVIOUS
  <2>1. t.cells[r][k] = CellOf(ls, r, k)
    BY <1>1
  <2>2. k \in Nat /\ r \in Nat /\ k >= 1 /\ r >= 1
    BY <1>3
  <2>3. CASE r = n /\ k = t.x - 1
    <3>1. u.cells[r][k] = {}
      BY <1>1, <1>2, <2>3
    <3>2. ~(k <= Len(less[r]))
      BY <1>3, <1>8, <2>3
    <3> QED
      BY <3>1, <3>2 DEF CellOf
  <2>4. CASE r = n /\ k # t.x - 1
    <3>1. u.cells[r][k] = CellOf(ls, r, k)
      BY <1>1, <1>2, <2>1, <2>4
    <3>2. k <= Len(ls[n]) <=> k <= Len(less[n])
      BY <1>1, <1>3, <1>4, <1>8, <2>2, <2>4
    <3>3. k <= Len(less[n]) => less[n][k] = ls[n][k]
      BY <1>3, <1>8, <2>2, <2>4
    <3> QED
      BY <1>7, <2>4, <3>1, <3>2, <3>3 DEF CellOf
  <2>5. CASE r # n
    <3>1. u.cells[r][k] = CellOf(ls, r, k)
      BY <1>1, <1>2, <2>1, <2>5
    <3>2. r <= n => less[r] = ls[r]
      BY <1>7, <2>2, <2>5
    <3> QED
      BY <1>7, <3>1, <3>2 DEF CellOf
  <2> QED
    BY <2>3, <2>4, <2>5
<1>10. /\ u.x = Len(less[u.y]) + 1 /\ u.y = Len(less) /\ u.y <= ROWS
       /\ u = [cells |-> u.cells, x |-> u.x, y |-> u.y]
       /\ u.x \in 1..COLS /\ u.y \in 1..(ROWS + 1) /\ u.y # ROWS + 1
  <2>1. u.x = t.x - 1 /\ u.y = t.y
    BY <1>2
  <2>2. t.x - 1 \in 1..COLS
    BY <1>1, <1>3
  <2>3. u.x = Len(less[u.y]) + 1 /\ u.y = Len(less)
    BY <1>1, <1>3, <1>7, <1>8, <2>1
  <2>4. u.y <= ROWS /\ u.y \in 1..(ROWS + 1) /\ u.y # ROWS + 1
    BY <1>1, <1>3, <2>1
  <2> QED
    BY <1>2, <2>1, <2>2, <2>3, <2>4
<1>11. Agrees(u, less)
  BY <1>2, <1>7, <1>9, <1>10 DEF Agrees, AgreesTall, Tall
<1> QED
  BY <1>11 DEF u, less

\* A character is drawn where its line in the layout has it.
LEMMA PutcAgrees ==
  ASSUME NEW t, NEW ls, Agrees(t, ls), NEW c \in Keys
  PROVE  Agrees(Putc(t, c), LayOut(ls, c))
<1> DEFINE n == Len(ls)
           now == ls[n]
           with == ReplaceAt(ls, n, Append(now, c))
<1>1. /\ ls \in Seq(Seq(Keys)) /\ t.y = n /\ t.x = Len(now) + 1 /\ n \in 1..ROWS
      /\ t = [cells |-> t.cells, x |-> t.x, y |-> t.y] /\ t.cells \in Grids
      /\ t.x \in 1..COLS /\ AgreesTall(t, ls) /\ OnScreen(t)
      /\ \A r \in 1..ROWS, k \in 1..COLS : t.cells[r][k] = CellOf(ls, r, k)
  BY SizeAssumption DEF Agrees, AgreesTall, OnScreen, Tall
<1>2. ROWS \in Nat /\ COLS \in Nat /\ n \in Nat /\ n \in 1..n /\ now \in Seq(Keys)
  <2>1. ROWS \in Nat /\ COLS \in Nat /\ n \in Nat /\ n \in 1..n
    BY <1>1, SizeAssumption
  <2> QED
    BY <1>1, <2>1
<1>3. Last(ls) = now
  BY DEF Last
<1>4. CASE c = "NL"
  <2>1. Putc(t, c) = Scroll(NewRow(t)) /\ LayOut(ls, c) = Latest(Append(ls, <<>>))
    BY <1>4 DEF Putc, LayOut
  <2>2. AgreesTall(NewRow(t), Append(ls, <<>>))
    BY <1>1, NewRowAgrees
  <2> QED
    BY <2>1, <2>2, ScrollAgrees
<1>5. CASE c = "BS"
  <2>1. /\ Putc(t, c) = Scroll(Erase(t))
        /\ LayOut(ls, c) = IF now = <<>> THEN ls ELSE ReplaceAt(ls, n, Front(now))
    BY <1>3, <1>5 DEF Putc, LayOut
  <2>2. now = <<>> <=> ~(t.x > 1)
    BY <1>1, <1>2
  <2>3. CASE t.x > 1
    <3>1. Agrees(Erase(t), ReplaceAt(ls, n, Front(now)))
      BY <1>3, <2>3, EraseAgrees
    <3>2. Scroll(Erase(t)) = Erase(t)
      BY <3>1, ScrollIs DEF Agrees, AgreesTall
    <3> QED
      BY <2>1, <2>2, <2>3, <3>1, <3>2
  <2>4. CASE ~(t.x > 1)
    <3>1. Erase(t) = t
      BY <2>4 DEF Erase
    <3>2. Scroll(t) = t
      BY <1>1, ScrollIs DEF OnScreen
    <3> QED
      BY <2>1, <2>2, <2>4, <3>1, <3>2
  <2> QED
    BY <2>3, <2>4
<1>6. CASE c \in Chars
  <2> DEFINE u == Draw(t, c)
  <2>1. c # "NL" /\ c # "BS"
    BY <1>6, PromptAssumption
  <2>2. /\ Putc(t, c) = Scroll(Wrap(u))
        /\ LayOut(ls, c) = IF Len(now) + 1 = COLS THEN Latest(Append(with, <<>>)) ELSE with
    BY <1>3, <2>1 DEF Putc, LayOut
  <2>3. /\ with \in Seq(Seq(Keys)) /\ Len(with) = n /\ with[n] = Append(now, c)
        /\ u = [cells |-> u.cells, x |-> t.x + 1, y |-> t.y] /\ u.cells \in Grids
        /\ \A r \in 1..ROWS, k \in 1..COLS : u.cells[r][k] = CellOf(with, r, k)
    BY <1>3, <1>6, DrawAgrees
  <2> HIDE DEF u, with, now
  <2>4. Len(with[n]) = Len(now) + 1
    BY <1>2, <2>3
  <2>5. u.x = t.x + 1 /\ u.y = n /\ u = [cells |-> u.cells, x |-> u.x, y |-> u.y]
    BY <1>1, <2>3
  <2>6. Len(now) \in Nat
    BY <1>2
  <2>7. CASE Len(now) + 1 = COLS
    <3>1. Wrap(u) = NewRow(u)
      <4>1. u.x + 1 > COLS + 1
        BY <1>1, <1>2, <2>5, <2>6, <2>7
      <4> QED
        BY <4>1 DEF Wrap
    <3>2. AgreesTall(NewRow(u), Append(with, <<>>))
      BY <1>1, <2>3, <2>5, NewRowAgrees
    <3>3. Agrees(Scroll(NewRow(u)), Latest(Append(with, <<>>)))
      BY <3>2, ScrollAgrees
    <3> QED
      BY <2>2, <2>7, <3>1, <3>3
  <2>8. CASE Len(now) + 1 # COLS
    <3>1. Wrap(u) = u
      <4>1. ~(u.x + 1 > COLS + 1)
        BY <1>1, <1>2, <2>5, <2>6, <2>8
      <4> QED
        BY <4>1 DEF Wrap
    <3>2. u.x \in 1..COLS /\ u.y \in 1..(ROWS + 1) /\ u.y <= ROWS /\ u.y # ROWS + 1
      BY <1>1, <1>2, <2>5, <2>6, <2>8
    <3>3. u.y = Len(with) /\ u.x = Len(with[u.y]) + 1
      BY <1>1, <2>3, <2>4, <2>5
    <3>4. Agrees(u, with)
      BY <2>3, <2>5, <3>2, <3>3 DEF Agrees, AgreesTall, Tall
    <3>5. Scroll(u) = u
      BY <3>4, ScrollIs DEF Agrees, AgreesTall
    <3> QED
      BY <2>2, <2>8, <3>1, <3>4, <3>5
  <2> QED
    BY <2>7, <2>8
<1> QED
  BY <1>4, <1>5, <1>6 DEF Keys

-----------------------------------------------------------------------------
(* A text *)

LEMMA Least ==
  ASSUME NEW T, T \subseteq Nat, T # {}
  PROVE  \E m \in T : \A k \in T : m <= k
  <1> DEFINE R == StrictSubsetOrdering(Nat)
             U == {1..n : n \in T}
  <1>1. IsWellFoundedOn(R, FiniteSubsetsOf(Nat))
    BY FS_StrictSubsetOrderingWellFounded
  <1>2. U \subseteq FiniteSubsetsOf(Nat) /\ U # {}
    <2>1. ASSUME NEW n \in T PROVE 1..n \in FiniteSubsetsOf(Nat)
      <3>1. IsFiniteSet(1..n)
        BY FS_Interval
      <3> QED
        BY <3>1 DEF FiniteSubsetsOf
    <2> QED
      BY <2>1
  <1>3. \A j, k \in T : k < j => <<1..k, 1..j>> \in R
    BY DEF StrictSubsetOrdering
  <1> HIDE DEF R, U
  <1>4. PICK V \in U : \A W \in U : ~ (<<W, V>> \in R)
    BY <1>1, <1>2, WFMin
  <1>5. PICK m \in T : V = 1..m
    BY DEF U
  <1>6. \A k \in T : 1..k \in U
    BY DEF U
  <1>7. \A k \in T : ~(k < m)
    BY <1>3, <1>4, <1>5, <1>6
  <1>8. m \in Nat /\ \A k \in T : k \in Nat
    OBVIOUS
  <1>9. \A k \in T : m <= k
    BY <1>7, <1>8
  <1> QED
    BY <1>9

LEMMA Induction ==
  ASSUME NEW S, 0 \in S, \A n \in Nat : n \in S => n + 1 \in S
  PROVE  Nat \subseteq S
  <1> SUFFICES ASSUME Nat \ S # {} PROVE FALSE
    OBVIOUS
  <1>1. PICK m \in Nat \ S : \A k \in Nat \ S : m <= k
    BY Least
  <1>2. m # 0 /\ m - 1 \in Nat
    BY <1>1
  <1>3. m - 1 \in S
    BY <1>1, <1>2
  <1>4. (m - 1) + 1 \in S /\ (m - 1) + 1 = m
    BY <1>2, <1>3
  <1> QED
    BY <1>1, <1>4

PrintedBy(f, t, s) ==
  /\ f[0] = t /\ PrintText(t, s) = f[Len(s)]
  /\ \A i \in 1..Len(s) : f[i] = Putc(f[i - 1], s[i])

LEMMA PrintIs ==
  ASSUME NEW t, NEW s, Len(s) \in Nat
  PROVE  \E f : PrintedBy(f, t, s)
<1> DEFINE Is(f, n) == f = [i \in 0..n |-> IF i = 0 THEN t ELSE Putc(f[i - 1], s[i])]
           N == {n \in Nat : \E f : Is(f, n)}
<1>1. 0 \in N
  <2> DEFINE f == [i \in 0..0 |-> t]
  <2>1. Is(f, 0)
    OBVIOUS
  <2> QED
    BY <2>1
<1>2. \A n \in Nat : n \in N => n + 1 \in N
  <2> SUFFICES ASSUME NEW n \in Nat, n \in N PROVE n + 1 \in N
    OBVIOUS
  <2>1. PICK f : Is(f, n)
    OBVIOUS
  <2> DEFINE g == [i \in 0..(n + 1) |-> IF i <= n THEN f[i] ELSE Putc(f[n], s[n + 1])]
             h == [i \in 0..(n + 1) |-> IF i = 0 THEN t ELSE Putc(g[i - 1], s[i])]
  <2>2. ASSUME NEW i \in 0..(n + 1) PROVE g[i] = h[i]
    <3>1. CASE i = 0
      <4>1. g[i] = f[0] /\ f[0] = t /\ h[i] = t
        BY <2>1, <3>1
      <4> QED
        BY <4>1
    <3>2. CASE i \in 1..n
      <4>1. i - 1 \in 0..n /\ i \in 0..n /\ i # 0
        BY <3>2
      <4>2. g[i] = f[i] /\ g[i - 1] = f[i - 1]
        BY <4>1
      <4>3. f[i] = Putc(f[i - 1], s[i])
        BY <2>1, <4>1
      <4> QED
        BY <4>1, <4>2, <4>3
    <3>3. CASE i = n + 1
      <4>1. i - 1 = n /\ n \in 0..n /\ i # 0 /\ ~(i <= n)
        BY <3>3
      <4>2. g[i] = Putc(f[n], s[i]) /\ g[i - 1] = f[n]
        BY <3>3, <4>1
      <4> QED
        BY <4>1, <4>2
    <3> QED
      BY <3>1, <3>2, <3>3
  <2>3. g = h
    BY <2>2
  <2>4. Is(g, n + 1)
    BY <2>3
  <2> HIDE DEF g, Is
  <2>5. \E k : Is(k, n + 1)
    BY <2>4
  <2> QED
    BY <2>5
<1>3. Len(s) \in N
  <2> HIDE DEF N
  <2> QED
    BY <1>1, <1>2, Induction
<1> DEFINE after == CHOOSE f : Is(f, Len(s))
<1>4. Is(after, Len(s))
  BY <1>3
<1>5. PrintText(t, s) = after[Len(s)]
  BY DEF PrintText
<1> HIDE DEF after
<1>6. after[0] = t
  BY <1>4
<1>7. \A i \in 1..Len(s) : after[i] = Putc(after[i - 1], s[i])
  BY <1>4
<1> QED
  BY <1>5, <1>6, <1>7 DEF PrintedBy

LaidOutBy(f, ls, s) ==
  /\ f[0] = ls /\ LayOutText(ls, s) = f[Len(s)]
  /\ \A i \in 1..Len(s) : f[i] = LayOut(f[i - 1], s[i])

LEMMA LayOutIs ==
  ASSUME NEW ls, NEW s, Len(s) \in Nat
  PROVE  \E f : LaidOutBy(f, ls, s)
<1> DEFINE Is(f, n) == f = [i \in 0..n |-> IF i = 0 THEN ls ELSE LayOut(f[i - 1], s[i])]
           N == {n \in Nat : \E f : Is(f, n)}
<1>1. 0 \in N
  <2> DEFINE f == [i \in 0..0 |-> ls]
  <2>1. Is(f, 0)
    OBVIOUS
  <2> QED
    BY <2>1
<1>2. \A n \in Nat : n \in N => n + 1 \in N
  <2> SUFFICES ASSUME NEW n \in Nat, n \in N PROVE n + 1 \in N
    OBVIOUS
  <2>1. PICK f : Is(f, n)
    OBVIOUS
  <2> DEFINE g == [i \in 0..(n + 1) |-> IF i <= n THEN f[i] ELSE LayOut(f[n], s[n + 1])]
             h == [i \in 0..(n + 1) |-> IF i = 0 THEN ls ELSE LayOut(g[i - 1], s[i])]
  <2>2. ASSUME NEW i \in 0..(n + 1) PROVE g[i] = h[i]
    <3>1. CASE i = 0
      <4>1. g[i] = f[0] /\ f[0] = ls /\ h[i] = ls
        BY <2>1, <3>1
      <4> QED
        BY <4>1
    <3>2. CASE i \in 1..n
      <4>1. i - 1 \in 0..n /\ i \in 0..n /\ i # 0
        BY <3>2
      <4>2. g[i] = f[i] /\ g[i - 1] = f[i - 1]
        BY <4>1
      <4>3. f[i] = LayOut(f[i - 1], s[i])
        BY <2>1, <4>1
      <4> QED
        BY <4>1, <4>2, <4>3
    <3>3. CASE i = n + 1
      <4>1. i - 1 = n /\ n \in 0..n /\ i # 0 /\ ~(i <= n)
        BY <3>3
      <4>2. g[i] = LayOut(f[n], s[i]) /\ g[i - 1] = f[n]
        BY <3>3, <4>1
      <4> QED
        BY <4>1, <4>2
    <3> QED
      BY <3>1, <3>2, <3>3
  <2>3. g = h
    BY <2>2
  <2>4. Is(g, n + 1)
    BY <2>3
  <2> HIDE DEF g, Is
  <2>5. \E k : Is(k, n + 1)
    BY <2>4
  <2> QED
    BY <2>5
<1>3. Len(s) \in N
  <2> HIDE DEF N
  <2> QED
    BY <1>1, <1>2, Induction
<1> DEFINE after == CHOOSE f : Is(f, Len(s))
<1>4. Is(after, Len(s))
  BY <1>3
<1>5. LayOutText(ls, s) = after[Len(s)]
  BY DEF LayOutText
<1> HIDE DEF after
<1>6. after[0] = ls
  BY <1>4
<1>7. \A i \in 1..Len(s) : after[i] = LayOut(after[i - 1], s[i])
  BY <1>4
<1> QED
  BY <1>5, <1>6, <1>7 DEF LaidOutBy

LEMMA PrintAgrees ==
  ASSUME NEW t, NEW ls, Agrees(t, ls), NEW s \in Seq(Keys)
  PROVE  Agrees(PrintText(t, s), LayOutText(ls, s))
<1>1. Len(s) \in Nat
  OBVIOUS
<1>2. PICK f : PrintedBy(f, t, s)
  BY <1>1, PrintIs
<1>3. PICK g : LaidOutBy(g, ls, s)
  BY <1>1, LayOutIs
<1> DEFINE N == {n \in Nat : n <= Len(s) => Agrees(f[n], g[n])}
<1>4. 0 \in N
  BY <1>2, <1>3 DEF PrintedBy, LaidOutBy
<1>5. \A n \in Nat : n \in N => n + 1 \in N
  <2> SUFFICES ASSUME NEW n \in Nat, n \in N, n + 1 <= Len(s) PROVE Agrees(f[n + 1], g[n + 1])
    OBVIOUS
  <2>1. Agrees(f[n], g[n])
    BY <1>1
  <2>2. n + 1 \in 1..Len(s) /\ (n + 1) - 1 = n
    BY <1>1
  <2>3. s[n + 1] \in Keys /\ f[n + 1] = Putc(f[n], s[n + 1]) /\ g[n + 1] = LayOut(g[n], s[n + 1])
    BY <1>2, <1>3, <2>2 DEF PrintedBy, LaidOutBy
  <2> QED
    BY <2>1, <2>3, PutcAgrees
<1>6. Len(s) \in N
  <2> HIDE DEF N
  <2> QED
    BY <1>1, <1>4, <1>5, Induction
<1> QED
  BY <1>1, <1>2, <1>3, <1>6 DEF PrintedBy, LaidOutBy

-----------------------------------------------------------------------------
(* Places in reading order *)

Pos(r, k) == (r - 1) * COLS + k

LEMMA PosType == \A r \in Nat \ {0}, k \in Nat : Pos(r, k) \in Nat /\ Pos(r, k) >= k
<1> SUFFICES ASSUME NEW r \in Nat \ {0}, NEW k \in Nat PROVE Pos(r, k) \in Nat /\ Pos(r, k) >= k
  OBVIOUS
<1>1. r - 1 \in Nat /\ COLS \in Nat
  BY SizeAssumption
<1>2. (r - 1) * COLS \in Nat
  BY <1>1
<1> QED
  BY <1>2 DEF Pos

\* The first place of a row is behind the last of the row above.
LEMMA PosBelow ==
  ASSUME NEW r \in Nat \ {0}, NEW k \in Nat
  PROVE  Pos(r + 1, k) = Pos(r, k) + COLS
<1>1. r - 1 \in Nat /\ COLS \in Nat
  BY SizeAssumption
<1>2. ((r - 1) + 1) * COLS = (r - 1) * COLS + COLS /\ (r - 1) * COLS \in Nat
  BY <1>1
<1>3. (r + 1) - 1 = (r - 1) + 1
  OBVIOUS
<1> QED
  BY <1>1, <1>2, <1>3 DEF Pos

LEMMA PosRight ==
  ASSUME NEW r \in Nat \ {0}, NEW k \in Nat, NEW j \in Int, k + j \in Nat
  PROVE  Pos(r, k + j) = Pos(r, k) + j
<1>1. r - 1 \in Nat /\ COLS \in Nat
  BY SizeAssumption
<1>2. (r - 1) * COLS \in Nat
  BY <1>1
<1> QED
  BY <1>2 DEF Pos

LEMMA PosOrder ==
  ASSUME NEW r \in Nat \ {0}, NEW k \in 1..COLS, NEW q \in Nat \ {0}, NEW j \in 1..COLS
  PROVE  (Pos(r, k) = Pos(q, j) => r = q /\ k = j) /\ (r < q => Pos(r, k) < Pos(q, j))
<1>1. r - 1 \in Nat /\ q - 1 \in Nat /\ COLS \in Nat
  BY SizeAssumption
<1> DEFINE R == (r - 1) * COLS
           Q == (q - 1) * COLS
<1>2. R \in Nat /\ Q \in Nat
  BY <1>1
<1>3. r < q => R + COLS <= Q
  <2>1. ASSUME r < q PROVE R + COLS <= Q
    <3>1. (r - 1) + 1 <= q - 1
      BY <2>1
    <3>2. ((r - 1) + 1) * COLS <= (q - 1) * COLS
      BY <1>1, <3>1
    <3>3. ((r - 1) + 1) * COLS = (r - 1) * COLS + COLS
      BY <1>1
    <3> QED
      BY <3>2, <3>3
  <2> QED
    BY <2>1
<1>4. q < r => Q + COLS <= R
  <2>1. ASSUME q < r PROVE Q + COLS <= R
    <3>1. (q - 1) + 1 <= r - 1
      BY <2>1
    <3>2. ((q - 1) + 1) * COLS <= (r - 1) * COLS
      BY <1>1, <3>1
    <3>3. ((q - 1) + 1) * COLS = (q - 1) * COLS + COLS
      BY <1>1
    <3> QED
      BY <3>2, <3>3
  <2> QED
    BY <2>1
<1>5. r = q => R = Q
  OBVIOUS
<1>6. Pos(r, k) = R + k /\ Pos(q, j) = Q + j
  BY DEF Pos
<1> HIDE DEF R, Q
<1>7. r < q \/ q < r \/ r = q
  OBVIOUS
<1> QED
  BY <1>1, <1>2, <1>3, <1>4, <1>5, <1>6, <1>7

-----------------------------------------------------------------------------
(* What stands before the cursor *)

\* The cells before the cursor end with those that s is drawn in, as far as
\* they are on the screen.
Stands(t, s) ==
  \A r \in 1..ROWS, k \in 1..COLS, i \in 1..Len(s) :
    Pos(r, k) + Len(s) - i + 1 = Pos(t.y, t.x) => t.cells[r][k] = Ink(s[i])

LEMMA DrawStands ==
  ASSUME NEW t, NEW ls, Agrees(t, ls), NEW c \in Chars,
         NEW s \in Seq(Keys), Stands(t, s)
  PROVE  Stands(Draw(t, c), Append(s, c))
<1> DEFINE u == Draw(t, c)
           z == Append(s, c)
           n == Len(s)
<1>1. /\ t.y = Len(ls) /\ t.x = Len(ls[t.y]) + 1 /\ ls[t.y] \in Seq(Keys)
      /\ t.y \in 1..ROWS /\ t.x \in 1..COLS /\ OnScreen(t)
      /\ t.cells[t.y][t.x] = CellOf(ls, t.y, t.x)
  <2>1. /\ ls \in Seq(Seq(Keys)) /\ t.y = Len(ls) /\ t.x = Len(ls[t.y]) + 1
        /\ t.y \in 1..ROWS /\ t.x \in 1..COLS /\ OnScreen(t)
        /\ \A r \in 1..ROWS, k \in 1..COLS : t.cells[r][k] = CellOf(ls, r, k)
    BY SizeAssumption DEF Agrees, AgreesTall, OnScreen, Tall
  <2>2. t.y \in 1..Len(ls)
    BY <2>1
  <2> QED
    BY <2>1, <2>2
<1>2. t.cells[t.y][t.x] = {}
  <2>1. ~(t.x <= Len(ls[t.y]))
    BY <1>1
  <2> QED
    BY <1>1, <2>1 DEF CellOf
<1>3. /\ u.x = t.x + 1 /\ u.y = t.y
      /\ \A r \in 1..ROWS, k \in 1..COLS :
           u.cells[r][k] = IF r = t.y /\ k = t.x THEN t.cells[r][k] \cup Ink(c) ELSE t.cells[r][k]
  <2>1. IsDrawn(t, c, u)
    BY <1>1, DrawIs
  <2> HIDE DEF u
  <2>2. u = [cells |-> u.cells, x |-> t.x + 1, y |-> t.y]
    BY <2>1 DEF IsDrawn
  <2>3. u.x = t.x + 1 /\ u.y = t.y
    BY <2>2
  <2> QED
    BY <2>1, <2>3 DEF IsDrawn
<1>4. /\ n \in Nat /\ Len(z) = n + 1 /\ z[n + 1] = c
      /\ \A i \in 1..n : z[i] = s[i]
  OBVIOUS
<1>5. t.y \in Nat \ {0} /\ t.x \in Nat /\ ROWS \in Nat /\ COLS \in Nat
  BY <1>1, SizeAssumption
<1>6. Pos(u.y, u.x) = Pos(t.y, t.x) + 1 /\ Pos(t.y, t.x) \in Nat
  <2>1. 1 \in Int /\ t.x + 1 \in Nat
    BY <1>5
  <2>2. Pos(t.y, t.x + 1) = Pos(t.y, t.x) + 1
    BY <1>5, <2>1, PosRight
  <2>3. Pos(t.y, t.x) \in Nat
    BY <1>5, PosType
  <2> HIDE DEF u
  <2> QED
    BY <1>3, <2>2, <2>3
<1> HIDE DEF u, z
<1> SUFFICES ASSUME NEW r \in 1..ROWS, NEW k \in 1..COLS, NEW i \in 1..(n + 1),
                    Pos(r, k) + (n + 1) - i + 1 = Pos(u.y, u.x)
             PROVE  u.cells[r][k] = Ink(z[i])
  BY <1>4 DEF Stands, u, z
<1>7. r \in Nat \ {0} /\ Pos(r, k) \in Nat
  <2>1. r \in Nat \ {0} /\ k \in Nat
    BY <1>5
  <2> QED
    BY <2>1, PosType
<1>8. CASE i = n + 1
  <2>1. Pos(r, k) = Pos(t.y, t.x)
    BY <1>4, <1>6, <1>7, <1>8
  <2>2. r = t.y /\ k = t.x
    BY <1>1, <1>5, <1>7, <2>1, PosOrder
  <2> QED
    BY <1>2, <1>3, <1>4, <1>8, <2>2
<1>9. CASE i \in 1..n
  <2>1. Pos(r, k) + n - i + 1 = Pos(t.y, t.x) /\ Pos(r, k) # Pos(t.y, t.x)
    <3>1. PICK a \in Nat, b \in Nat : a = Pos(r, k) /\ b = Pos(t.y, t.x)
      BY <1>6, <1>7
    <3>2. a + (n + 1) - i + 1 = b + 1
      BY <1>6, <3>1
    <3>3. a + n - i + 1 = b /\ a # b
      BY <1>4, <1>9, <3>2
    <3> QED
      BY <3>1, <3>3
  <2>2. t.cells[r][k] = Ink(s[i])
    BY <1>9, <2>1 DEF Stands
  <2>3. ~(r = t.y /\ k = t.x)
    BY <2>1
  <2>4. u.cells[r][k] = t.cells[r][k]
    BY <1>3, <2>3
  <2> QED
    BY <1>4, <1>9, <2>2, <2>4
<1> QED
  BY <1>4, <1>8, <1>9

LEMMA WrapStands ==
  ASSUME NEW u, NEW s,
         u = [cells |-> u.cells, x |-> u.x, y |-> u.y], u.y \in 1..ROWS, u.x \in 1..(COLS + 1),
         Stands(u, s)
  PROVE  Stands(Wrap(u), s)
<1>1. ROWS \in Nat /\ COLS \in Nat \ {0}
  BY SizeAssumption
<1>2. CASE u.x + 1 > COLS + 1
  <2> DEFINE v == Wrap(u)
  <2>1. v = [cells |-> u.cells, x |-> 1, y |-> u.y + 1]
    BY <1>2, NewRowIs DEF Wrap
  <2>2. u.x = COLS + 1 /\ u.y \in Nat \ {0}
    BY <1>1, <1>2
  <2>3. Pos(v.y, v.x) = Pos(u.y, u.x)
    <3>1. Pos(u.y + 1, 1) = Pos(u.y, 1) + COLS
      BY <2>2, PosBelow
    <3>2. Pos(u.y, 1 + COLS) = Pos(u.y, 1) + COLS
      BY <1>1, <2>2, PosRight
    <3>3. u.x = 1 + COLS /\ v.y = u.y + 1 /\ v.x = 1
      BY <1>1, <2>1, <2>2
    <3> QED
      BY <3>1, <3>2, <3>3
  <2>4. v.cells = u.cells
    BY <2>1
  <2> HIDE DEF v
  <2>5. Stands(v, s)
    BY <2>3, <2>4 DEF Stands
  <2> QED
    BY <2>5 DEF v
<1>3. CASE ~(u.x + 1 > COLS + 1)
  <2>1. Wrap(u) = u
    BY <1>3 DEF Wrap
  <2> QED
    BY <2>1
<1> QED
  BY <1>2, <1>3

LEMMA ScrollStands ==
  ASSUME NEW t, Tall(t), NEW s, Len(s) \in Nat, Stands(t, s)
  PROVE  Stands(Scroll(t), s)
<1>1. /\ ROWS \in Nat \ {0} /\ COLS \in Nat \ {0} /\ t.y \in 1..(ROWS + 1) /\ t.x \in 1..COLS
      /\ (t.y = ROWS + 1 => t.x = 1)
  BY SizeAssumption DEF Tall
<1>2. CASE t.y <= ROWS
  <2>1. Scroll(t) = t
    BY <1>2, ScrollIs
  <2> QED
    BY <2>1
<1>3. CASE t.y = ROWS + 1
  <2> DEFINE v == Scroll(t)
             n == Len(s)
  <2>1. /\ v.y = ROWS /\ v.x = t.x
        /\ \A r \in 1..ROWS, k \in 1..COLS : v.cells[r][k] = IF r < ROWS THEN t.cells[r + 1][k] ELSE {}
    BY <1>3, ScrollIs
  <2>2. t.x = 1
    BY <1>1, <1>3
  <2> HIDE DEF v
  <2> SUFFICES ASSUME NEW r \in 1..ROWS, NEW k \in 1..COLS, NEW i \in 1..n,
                      Pos(r, k) + n - i + 1 = Pos(v.y, v.x)
               PROVE  v.cells[r][k] = Ink(s[i])
    BY DEF Stands, v
  <2>3. r \in Nat \ {0} /\ k \in Nat /\ Pos(r, k) \in Nat /\ Pos(ROWS, 1) \in Nat
    <3>1. r \in Nat \ {0} /\ k \in Nat
      BY <1>1
    <3> QED
      BY <1>1, <3>1, PosType
  <2>4. Pos(t.y, t.x) = Pos(v.y, v.x) + COLS
    BY <1>1, <1>3, <2>1, <2>2, PosBelow
  <2>5. Pos(r, k) < Pos(ROWS, 1)
    BY <1>1, <2>1, <2>2, <2>3
  <2>6. r < ROWS
    <3>1. Pos(ROWS, k) = Pos(ROWS, 1) + (k - 1)
      <4>1. k - 1 \in Int /\ 1 + (k - 1) = k /\ k \in Nat
        BY <1>1
      <4> QED
        BY <1>1, <4>1, PosRight
    <3>2. r # ROWS
      BY <2>3, <2>5, <3>1
    <3> QED
      BY <1>1, <3>2
  <2>7. r + 1 \in 1..ROWS /\ Pos(r + 1, k) = Pos(r, k) + COLS
    BY <1>1, <2>3, <2>6, PosBelow
  <2>8. Pos(r + 1, k) + n - i + 1 = Pos(t.y, t.x)
    BY <1>1, <2>1, <2>2, <2>3, <2>4, <2>7
  <2>9. t.cells[r + 1][k] = Ink(s[i])
    BY <2>7, <2>8 DEF Stands
  <2> QED
    BY <2>1, <2>6, <2>9
<1> QED
  BY <1>1, <1>2, <1>3

LEMMA WrapTall ==
  ASSUME NEW t, NEW c, OnScreen(t)
  PROVE  Tall(Wrap(Draw(t, c)))
<1> DEFINE u == Draw(t, c)
<1>1. IsDrawn(t, c, u)
  BY DrawIs
<1>2. t.x \in 1..COLS /\ t.y \in 1..ROWS /\ COLS \in Nat \ {0} /\ ROWS \in Nat \ {0}
  BY SizeAssumption DEF OnScreen, Tall
<1> HIDE DEF u
<1>3. u = [cells |-> u.cells, x |-> t.x + 1, y |-> t.y] /\ u.cells \in Grids
  BY <1>1 DEF IsDrawn
<1>4. u.x = t.x + 1
  BY <1>3
<1>5. CASE u.x + 1 > COLS + 1
  <2>1. Wrap(u) = [cells |-> u.cells, x |-> 1, y |-> t.y + 1]
    BY <1>3, <1>5, NewRowIs DEF Wrap
  <2>2. 1 \in 1..COLS /\ t.y + 1 \in 1..(ROWS + 1)
    BY <1>2
  <2> DEFINE w == Wrap(u)
  <2>3. w.cells = u.cells /\ w.x = 1 /\ w.y = t.y + 1
    BY <2>1
  <2>4. w = [cells |-> w.cells, x |-> w.x, y |-> w.y]
    BY <2>1, <2>3
  <2> HIDE DEF w
  <2>5. Tall(w)
    BY <1>3, <2>2, <2>3, <2>4 DEF Tall
  <2> QED
    BY <2>5 DEF w, u
<1>6. CASE ~(u.x + 1 > COLS + 1)
  <2>1. Wrap(u) = u
    BY <1>6 DEF Wrap
  <2>2. t.x + 1 \in 1..COLS /\ t.y \in 1..(ROWS + 1) /\ t.y # ROWS + 1
    BY <1>2, <1>4, <1>6
  <2>3. u.x = t.x + 1 /\ u.y = t.y
    BY <1>3
  <2>4. Tall(u)
    BY <1>3, <2>2, <2>3 DEF Tall
  <2> QED
    BY <2>1, <2>4 DEF u
<1> QED
  BY <1>5, <1>6

LEMMA PutcStands ==
  ASSUME NEW t, NEW ls, Agrees(t, ls), NEW c \in Chars,
         NEW s \in Seq(Keys), Stands(t, s)
  PROVE  Stands(Putc(t, c), Append(s, c))
<1> DEFINE u == Draw(t, c)
           z == Append(s, c)
<1>1. OnScreen(t)
  BY DEF Agrees, AgreesTall, OnScreen
<1>2. IsDrawn(t, c, u) /\ Tall(Wrap(u))
  BY <1>1, DrawIs, WrapTall
<1>3. Stands(u, z)
  BY DrawStands
<1>4. Putc(t, c) = Scroll(Wrap(u))
  <2>1. c # "NL" /\ c # "BS"
    BY PromptAssumption
  <2> QED
    BY <2>1 DEF Putc
<1>5. Len(z) \in Nat
  OBVIOUS
<1> HIDE DEF u, z
<1>6. u = [cells |-> u.cells, x |-> t.x + 1, y |-> t.y]
  BY <1>2 DEF IsDrawn
<1>7. t.x \in 1..COLS /\ t.y \in 1..ROWS /\ COLS \in Nat
  BY <1>1, SizeAssumption DEF OnScreen, Tall
<1>8. u.x = t.x + 1 /\ u.y = t.y
  BY <1>6
<1>9. u = [cells |-> u.cells, x |-> u.x, y |-> u.y] /\ u.y \in 1..ROWS /\ u.x \in 1..(COLS + 1)
  BY <1>6, <1>7, <1>8
<1>10. Stands(Wrap(u), z)
  BY <1>3, <1>9, WrapStands
<1>11. Stands(Scroll(Wrap(u)), z)
  BY <1>2, <1>5, <1>10, ScrollStands
<1> QED
  BY <1>4, <1>11 DEF z

LEMMA FrontIs ==
  ASSUME NEW s \in Seq(Keys), s # <<>>
  PROVE  /\ Front(s) \in Seq(Keys) /\ Len(Front(s)) = Len(s) - 1
         /\ \A i \in 1..(Len(s) - 1) : Front(s)[i] = s[i]
<1>1. PICK n \in Nat : n = Len(s) /\ n >= 1
  OBVIOUS
<1>2. SubSeq(s, 1, n - 1) \in Seq(Keys)
  BY <1>1
<1>3. Len(SubSeq(s, 1, n - 1)) = n - 1
  BY <1>1
<1>4. \A i \in 1..(n - 1) : SubSeq(s, 1, n - 1)[i] = s[i]
  BY <1>1
<1> QED
  BY <1>1, <1>2, <1>3, <1>4 DEF Front

\* The line without its last character is the prompt and the rest.
LEMMA FrontOfLine ==
  ASSUME NEW p \in Seq(Keys), NEW q \in Seq(Chars), q # <<>>
  PROVE  /\ Front(q) \in Seq(Chars) /\ Front(p \o q) = p \o Front(q)
         /\ p \o q \in Seq(Keys) /\ p \o q # <<>>
<1>1. q \in Seq(Keys)
  <2>1. Chars \subseteq Keys
    BY DEF Keys
  <2> QED
    BY <2>1
<1>2. PICK n \in Nat : n = Len(q) /\ n >= 1
  BY <1>1
<1>3. Front(q) \in Seq(Chars)
  <2>1. SubSeq(q, 1, n - 1) \in Seq(Chars)
    BY <1>2
  <2> QED
    BY <1>2, <2>1 DEF Front
<1>4. PICK f \in Seq(Keys) : f = Front(q) /\ Len(f) = n - 1 /\ \A i \in 1..(n - 1) : f[i] = q[i]
  BY <1>1, <1>2, FrontIs
<1>5. PICK w \in Seq(Keys) : w = p \o q /\ Len(w) = Len(p) + n /\ w # <<>>
  <2>1. p \o q \in Seq(Keys) /\ Len(p \o q) = Len(p) + n
    BY <1>1, <1>2
  <2>2. p \o q # <<>>
    BY <1>2, <2>1
  <2> QED
    BY <2>1, <2>2
<1>6. PICK g \in Seq(Keys) : g = Front(w) /\ Len(g) = Len(w) - 1 /\ \A i \in 1..(Len(w) - 1) : g[i] = w[i]
  BY <1>5, FrontIs
<1>7. PICK h \in Seq(Keys) : h = p \o f /\ Len(h) = Len(p) + (n - 1)
  <2>1. p \o f \in Seq(Keys) /\ Len(p \o f) = Len(p) + Len(f)
    BY <1>4, ConcatProperties
  <2> QED
    BY <1>4, <2>1
<1>8. Len(g) = Len(h)
  BY <1>2, <1>5, <1>6, <1>7
<1>9. ASSUME NEW i \in 1..Len(g) PROVE g[i] = h[i]
  <2>1. g[i] = w[i]
    BY <1>6
  <2>2. CASE i <= Len(p)
    <3>1. w[i] = p[i] /\ h[i] = p[i]
      BY <1>1, <1>4, <1>5, <1>7, <2>2
    <3> QED
      BY <2>1, <3>1
  <2>3. CASE i > Len(p)
    <3>1. PICK j \in 1..(n - 1) : i = Len(p) + j
      <4>1. PICK m \in Nat : m = Len(p)
        OBVIOUS
      <4>2. i \in 1..(m + (n - 1)) /\ i > m
        BY <1>7, <1>8, <2>3, <4>1
      <4>3. i - m \in 1..(n - 1) /\ i = m + (i - m)
        BY <4>2
      <4> QED
        BY <4>1, <4>3
    <3>2. w[i] = q[j] /\ h[i] = f[j]
      BY <1>1, <1>2, <1>4, <1>5, <1>7, <3>1
    <3> QED
      BY <1>4, <2>1, <3>1, <3>2
  <2> QED
    BY <2>2, <2>3
<1>10. g = h
  BY <1>8, <1>9, SeqEqual
<1> QED
  BY <1>3, <1>4, <1>5, <1>6, <1>7, <1>10

LEMMA EraseStands ==
  ASSUME NEW t, OnScreen(t), t.x > 1,
         NEW s \in Seq(Keys), s # <<>>, Stands(t, s)
  PROVE  Stands(Putc(t, "BS"), Front(s))
<1> DEFINE u == Erase(t)
           z == Front(s)
           n == Len(s)
<1>1. t.x \in 1..COLS /\ t.y \in 1..ROWS /\ COLS \in Nat /\ ROWS \in Nat
  BY SizeAssumption DEF OnScreen, Tall
<1>2. /\ u = [cells |-> u.cells, x |-> t.x - 1, y |-> t.y] /\ u.cells \in Grids
      /\ \A r \in 1..ROWS, k \in 1..COLS :
           u.cells[r][k] = IF r = t.y /\ k = t.x - 1 THEN {} ELSE t.cells[r][k]
  BY EraseIs
<1>3. n \in Nat /\ n >= 1 /\ Len(z) = n - 1 /\ \A i \in 1..(n - 1) : z[i] = s[i]
  <2>1. n \in Nat /\ n >= 1
    OBVIOUS
  <2> QED
    BY <2>1, FrontIs
<1> HIDE DEF u, z
<1>4. u.x = t.x - 1 /\ u.y = t.y
  BY <1>2
<1>5. Putc(t, "BS") = u
  <2>1. Putc(t, "BS") = Scroll(u)
    BY DEF Putc, u
  <2>2. t.x - 1 \in 1..COLS /\ t.y \in 1..(ROWS + 1) /\ t.y # ROWS + 1 /\ t.y <= ROWS
    BY <1>1
  <2>3. u = [cells |-> u.cells, x |-> u.x, y |-> u.y]
    BY <1>2, <1>4
  <2>4. Tall(u)
    BY <1>2, <1>4, <2>2, <2>3 DEF Tall
  <2> QED
    BY <1>4, <2>1, <2>2, <2>4, ScrollIs
<1>6. /\ t.y \in Nat \ {0} /\ t.x \in Nat /\ t.x - 1 \in 1..COLS
      /\ Pos(t.y, t.x - 1) = Pos(t.y, t.x) - 1 /\ Pos(t.y, t.x) \in Nat
  <2>1. t.y \in Nat \ {0} /\ t.x \in Nat /\ t.x - 1 \in 1..COLS /\ -1 \in Int /\ t.x + (-1) \in Nat
    BY <1>1
  <2>2. Pos(t.y, t.x + (-1)) = Pos(t.y, t.x) + (-1) /\ Pos(t.y, t.x) \in Nat
    BY <2>1, PosRight, PosType
  <2>3. t.x + (-1) = t.x - 1 /\ Pos(t.y, t.x) + (-1) = Pos(t.y, t.x) - 1
    BY <2>1, <2>2
  <2> QED
    BY <2>1, <2>2, <2>3
<1> SUFFICES ASSUME NEW r \in 1..ROWS, NEW k \in 1..COLS, NEW i \in 1..(n - 1),
                    Pos(r, k) + (n - 1) - i + 1 = Pos(u.y, u.x)
             PROVE  u.cells[r][k] = Ink(z[i])
  BY <1>3, <1>5 DEF Stands, z
<1>7. r \in Nat \ {0} /\ k \in Nat /\ Pos(r, k) \in Nat
  <2>1. r \in Nat \ {0} /\ k \in Nat
    BY <1>1
  <2> QED
    BY <2>1, PosType
<1>8. Pos(r, k) + n - i + 1 = Pos(t.y, t.x) /\ Pos(r, k) # Pos(t.y, t.x - 1)
  <2>1. PICK a \in Nat, b \in Nat : a = Pos(r, k) /\ b = Pos(t.y, t.x)
    BY <1>6, <1>7
  <2>2. a + (n - 1) - i + 1 = b - 1 /\ Pos(t.y, t.x - 1) = b - 1
    BY <1>4, <1>6, <2>1
  <2>3. a + n - i + 1 = b /\ a # b - 1
    BY <1>3, <2>2
  <2> QED
    BY <2>1, <2>2, <2>3
<1>9. t.cells[r][k] = Ink(s[i])
  <2>1. i \in 1..n
    BY <1>3
  <2> QED
    BY <1>8, <2>1 DEF Stands
<1>10. u.cells[r][k] = t.cells[r][k]
  <2>1. ~(r = t.y /\ k = t.x - 1)
    BY <1>8
  <2> QED
    BY <1>2, <2>1
<1> QED
  BY <1>3, <1>9, <1>10

LEMMA PrintStands ==
  ASSUME NEW t, NEW ls, Agrees(t, ls), NEW a \in Seq(Keys), NEW b \in Seq(Chars)
  PROVE  Stands(PrintText(t, a \o b), b)
<1> DEFINE m == Len(a)
<1>1. PICK s \in Seq(Keys) : /\ s = a \o b
                            /\ m \in Nat /\ Len(b) \in Nat /\ Len(s) = m + Len(b)
                            /\ \A i \in 1..Len(b) : s[m + i] = b[i]
  <2>1. b \in Seq(Keys)
    <3>1. Chars \subseteq Keys
      BY DEF Keys
    <3> QED
      BY <3>1
  <2>2. a \o b \in Seq(Keys)
    BY <2>1
  <2>3. Len(a \o b) = m + Len(b) /\ \A i \in 1..Len(b) : (a \o b)[m + i] = b[i]
    BY <2>1
  <2>4. m \in Nat /\ Len(b) \in Nat
    OBVIOUS
  <2> HIDE DEF m
  <2> QED
    BY <2>2, <2>3, <2>4, Zenon
<1>2. PICK f : PrintedBy(f, t, s)
  <2>1. Len(s) \in Nat
    BY <1>1
  <2> QED
    BY <2>1, PrintIs
<1> DEFINE Fine(u) == \E ms : Agrees(u, ms)
           N == {n \in Nat : n <= Len(s) => Fine(f[n])}
<1>3. 0 \in N
  BY <1>2 DEF PrintedBy
<1>4. \A n \in Nat : n \in N => n + 1 \in N
  <2> HIDE DEF Fine
  <2> SUFFICES ASSUME NEW n \in Nat, n \in N, n + 1 <= Len(s) PROVE Fine(f[n + 1])
    OBVIOUS
  <2> USE DEF Fine
  <2>1. PICK ms : Agrees(f[n], ms)
    BY <1>1
  <2>2. n + 1 \in 1..Len(s) /\ (n + 1) - 1 = n
    BY <1>1
  <2>3. s[n + 1] \in Keys /\ f[n + 1] = Putc(f[n], s[n + 1])
    BY <1>1, <1>2, <2>2 DEF PrintedBy
  <2>4. Agrees(f[n + 1], LayOut(ms, s[n + 1]))
    BY <2>1, <2>3, PutcAgrees
  <2> QED
    BY <2>4
<1>5. \A n \in 0..Len(s) : Fine(f[n])
  <2> HIDE DEF N
  <2>1. Nat \subseteq N
    BY <1>3, <1>4, Induction
  <2> QED
    BY <1>1, <2>1 DEF N
<1> DEFINE M == {n \in Nat : n <= Len(b) => Stands(f[m + n], SubSeq(b, 1, n))}
<1>6. 0 \in M
  <2>1. SubSeq(b, 1, 0) = <<>>
    OBVIOUS
  <2> QED
    BY <2>1 DEF Stands
<1>7. \A n \in Nat : n \in M => n + 1 \in M
  <2> SUFFICES ASSUME NEW n \in Nat, n \in M, n + 1 <= Len(b)
               PROVE  Stands(f[m + (n + 1)], SubSeq(b, 1, n + 1))
    OBVIOUS
  <2>1. Stands(f[m + n], SubSeq(b, 1, n))
    BY <1>1
  <2>2. m + n \in 0..Len(s) /\ m + (n + 1) \in 1..Len(s) /\ (m + (n + 1)) - 1 = m + n /\ n + 1 \in 1..Len(b)
    BY <1>1
  <2>3. PICK ms : Agrees(f[m + n], ms)
    BY <1>5, <2>2
  <2>4. b[n + 1] \in Chars /\ f[m + (n + 1)] = Putc(f[m + n], b[n + 1])
    BY <1>1, <1>2, <2>2 DEF PrintedBy
  <2>5. /\ SubSeq(b, 1, n) \in Seq(Chars)
        /\ SubSeq(b, 1, n + 1) = Append(SubSeq(b, 1, n), b[n + 1])
    BY <1>1, <2>2
  <2>6. SubSeq(b, 1, n) \in Seq(Keys)
    <3>1. Chars \subseteq Keys
      BY DEF Keys
    <3> QED
      BY <2>5, <3>1
  <2> QED
    BY <2>1, <2>3, <2>4, <2>5, <2>6, PutcStands
<1>8. Stands(f[m + Len(b)], SubSeq(b, 1, Len(b)))
  <2> HIDE DEF M
  <2>1. Nat \subseteq M
    BY <1>6, <1>7, Induction
  <2> QED
    BY <1>1, <2>1 DEF M
<1>9. SubSeq(b, 1, Len(b)) = b
  BY SubSeqFull
<1> QED
  BY <1>1, <1>2, <1>8, <1>9 DEF PrintedBy

-----------------------------------------------------------------------------
(* The invariant *)

\* What the properties of the terminal rest on: the grid is the layout of what
\* was printed, and its cells before the cursor end with the prompt and the line.
TerminalInv ==
  /\ cmd \in Seq(Chars)
  /\ Agrees(term, lines)
  /\ ~stuck => Stands(term, CommandLine)
  /\ pc \notin {"run", "halted"} => cmd = <<>>

LEMMA PrintOne == ASSUME NEW t, NEW c PROVE PrintText(t, <<c>>) = Putc(t, c)
<1> DEFINE s == <<c>>
<1>1. Len(s) = 1 /\ s[1] = c
  OBVIOUS
<1> HIDE DEF s
<1>2. PICK f : PrintedBy(f, t, s)
  <2>1. Len(s) \in Nat
    BY <1>1
  <2> QED
    BY <2>1, PrintIs
<1>3. f[1] = Putc(f[1 - 1], s[1]) /\ 1 - 1 = 0
  BY <1>1, <1>2 DEF PrintedBy
<1> QED
  BY <1>1, <1>2, <1>3 DEF s, PrintedBy

LEMMA ClearedAgrees ==
  /\ Agrees(Cleared, <<<<>>>>)
  /\ \A s : Len(s) \in Nat => Stands(Cleared, s)
<1> DEFINE g == [r \in 1..ROWS |-> Row]
           t == Cleared
           ls == <<<<>>>>
<1>1. ROWS \in Nat \ {0} /\ COLS \in Nat \ {0}
  BY SizeAssumption
<1>2. t = [cells |-> g, x |-> 1, y |-> 1]
  BY DEF Cleared
<1>3. Row \in [1..COLS -> SUBSET Glyphs] /\ \A k \in 1..COLS : Row[k] = {}
  BY DEF Row
<1>4. g \in Grids /\ \A r \in 1..ROWS, k \in 1..COLS : g[r][k] = {}
  BY <1>3 DEF Grids
<1>5. ls \in Seq(Seq(Keys)) /\ Len(ls) = 1 /\ ls[1] = <<>>
  OBVIOUS
<1> HIDE DEF g, t, ls
<1>6. t.cells = g /\ t.x = 1 /\ t.y = 1
  BY <1>2
<1>7. Tall(t)
  <2>1. 1 \in 1..COLS /\ 1 \in 1..(ROWS + 1)
    BY <1>1
  <2> QED
    BY <1>2, <1>4, <1>6, <2>1 DEF Tall
<1>8. \A r \in 1..ROWS, k \in 1..COLS : CellOf(ls, r, k) = {}
  <2> SUFFICES ASSUME NEW r \in 1..ROWS, NEW k \in 1..COLS PROVE CellOf(ls, r, k) = {}
    OBVIOUS
  <2>1. ~(r <= Len(ls) /\ k <= Len(ls[r]))
    BY <1>5
  <2> QED
    BY <2>1 DEF CellOf
<1>9. Agrees(t, ls)
  <2>1. t.y = Len(ls) /\ t.x = Len(ls[t.y]) + 1 /\ t.y <= ROWS
    BY <1>1, <1>5, <1>6
  <2>2. \A r \in 1..ROWS, k \in 1..COLS : t.cells[r][k] = CellOf(ls, r, k)
    BY <1>4, <1>6, <1>8
  <2> QED
    BY <1>5, <1>7, <2>1, <2>2 DEF Agrees, AgreesTall
<1>10. ASSUME NEW s, Len(s) \in Nat PROVE Stands(t, s)
  <2> SUFFICES ASSUME NEW r \in 1..ROWS, NEW k \in 1..COLS, NEW i \in 1..Len(s),
                      Pos(r, k) + Len(s) - i + 1 = Pos(t.y, t.x)
               PROVE  FALSE
    BY DEF Stands
  <2>1. Pos(1, 1) = 1
    BY <1>1 DEF Pos
  <2>2. Pos(r, k) \in Nat /\ Pos(r, k) >= k /\ k >= 1
    <3>1. r \in Nat \ {0} /\ k \in Nat /\ k >= 1
      BY <1>1
    <3> QED
      BY <3>1, PosType
  <2> QED
    BY <1>6, <1>10, <2>1, <2>2
<1> QED
  BY <1>9, <1>10 DEF t, ls

LEMMA TerminalInit == Init => TerminalInv
<1> SUFFICES ASSUME Init PROVE TerminalInv
  OBVIOUS
<1>1. term = Cleared /\ lines = <<<<>>>> /\ cmd = <<>> /\ stuck = FALSE
  BY DEF Init, TermInit
<1>2. Len(CommandLine) \in Nat
  BY <1>1, PromptAssumption DEF CommandLine
<1> QED
  BY <1>1, <1>2, ClearedAgrees DEF TerminalInv

LEMMA CharsAreKeys == \A s \in Seq(Chars) : s \in Seq(Keys)
<1>1. Chars \subseteq Keys
  BY DEF Keys
<1> QED
  BY <1>1

\* A text that ends with the prompt, for an empty line.
LEMMA PromptKeeps ==
  ASSUME NEW t, NEW ls, Agrees(t, ls), NEW a \in Seq(Keys),
         Shown(t, ls, a \o Prompt), cmd' = <<>>
  PROVE  TerminalInv'
<1>1. Prompt \in Seq(Chars) /\ Prompt \in Seq(Keys)
  BY PromptAssumption, CharsAreKeys
<1>2. a \o Prompt \in Seq(Keys)
  BY <1>1
<1>3. term' = PrintText(t, a \o Prompt) /\ lines' = LayOutText(ls, a \o Prompt)
  BY DEF Shown
<1>4. Agrees(term', lines')
  BY <1>2, <1>3, PrintAgrees
<1>5. Stands(term', Prompt)
  BY <1>1, <1>3, PrintStands
<1>6. CommandLine' = Prompt
  BY <1>1 DEF CommandLine
<1>7. cmd' \in Seq(Chars)
  OBVIOUS
<1> QED
  BY <1>4, <1>5, <1>6, <1>7 DEF TerminalInv, Agrees, AgreesTall, Tall, Stands, CellOf

LEMMA EnterKeeps == TerminalInv /\ Enter => TerminalInv'
<1> SUFFICES ASSUME TerminalInv, Enter PROVE TerminalInv'
  OBVIOUS
<1>1. Agrees(term, lines) /\ cmd \in Seq(Keys) /\ cmd' = <<>>
  BY CharsAreKeys DEF TerminalInv, Enter
<1>2. <<"NL">> \in Seq(Keys)
  BY DEF Keys
<1>3. CASE cmd = <<>>
  <2>1. Shown(term, lines, <<"NL">> \o Prompt)
    <3>1. cmd # ClearLine
      BY <1>3, TextAssumption
    <3> QED
      BY <1>3, <3>1 DEF Enter
  <2> QED
    BY <1>1, <1>2, <2>1, PromptKeeps
<1>4. CASE cmd # <<>> /\ cmd = ClearLine
  <2>1. Shown(Cleared, <<<<>>>>, Prompt)
    BY <1>4 DEF Enter
  <2>2. Prompt = <<>> \o Prompt /\ <<>> \in Seq(Keys)
    BY PromptAssumption
  <2>3. Shown(Cleared, <<<<>>>>, <<>> \o Prompt)
    BY <2>1, <2>2
  <2> QED
    BY <1>1, <2>2, <2>3, ClearedAgrees, PromptKeeps
<1>5. CASE cmd # <<>> /\ cmd # ClearLine
  <2>1. PICK a \in Answers : Shown(term, lines, <<"NL">> \o a \o Prompt)
    BY <1>5 DEF Enter
  <2>2. a \in Seq(Keys)
    <3>1. Unknown \in Seq(Keys) /\ Texts \subseteq Seq(Keys)
      BY TextAssumption
    <3>2. Unknown \o cmd \o <<"NL">> \in Seq(Keys)
      BY <1>1, <1>2, <3>1
    <3> QED
      BY <3>1, <3>2 DEF Answers
  <2>3. <<"NL">> \o a \in Seq(Keys)
    BY <1>2, <2>2
  <2> QED
    BY <1>1, <2>1, <2>3, PromptKeeps
<1> QED
  BY <1>3, <1>4, <1>5

LEMMA ShowOne ==
  ASSUME NEW c \in Keys, Agrees(term, lines), Shown(term, lines, <<c>>)
  PROVE  term' = Putc(term, c) /\ Agrees(term', lines')
<1>1. <<c>> \in Seq(Keys)
  OBVIOUS
<1> QED
  BY <1>1, PrintOne, PrintAgrees DEF Shown

LEMMA BackspaceKeeps == TerminalInv /\ Backspace /\ pc = "run" /\ pc' = pc => TerminalInv'
<1> SUFFICES ASSUME TerminalInv, Backspace, pc = "run", pc' = pc PROVE TerminalInv'
  OBVIOUS
<1>1. CASE cmd = <<>>
  BY <1>1 DEF Backspace, termVars, TerminalInv, CommandLine
<1>2. CASE cmd # <<>>
  <2>1. /\ Agrees(term, lines) /\ cmd \in Seq(Chars) /\ cmd \in Seq(Keys)
        /\ Shown(term, lines, <<"BS">>) /\ cmd' = Front(cmd) /\ stuck' = (stuck \/ term.x = 1)
    BY <1>2, CharsAreKeys DEF TerminalInv, Backspace
  <2>2. term' = Putc(term, "BS") /\ Agrees(term', lines')
    BY <2>1, ShowOne DEF Keys
  <2>3. Prompt \in Seq(Keys) /\ Prompt \in Seq(Chars)
    BY PromptAssumption, CharsAreKeys
  <2>4. Front(cmd) \in Seq(Chars) /\ Front(CommandLine) = Prompt \o Front(cmd) /\ CommandLine # <<>> /\ CommandLine \in Seq(Keys)
    BY <1>2, <2>1, <2>3, FrontOfLine DEF CommandLine
  <2>5. ~stuck' => Stands(term', Front(CommandLine))
    <3> SUFFICES ASSUME ~stuck' PROVE Stands(term', Front(CommandLine))
      OBVIOUS
    <3>1. ~stuck /\ term.x # 1
      BY <2>1
    <3>2. OnScreen(term) /\ term.x > 1
      BY <2>1, <3>1, SizeAssumption DEF Agrees, AgreesTall, OnScreen, Tall
    <3>3. Stands(term, CommandLine)
      BY <3>1 DEF TerminalInv
    <3> QED
      BY <2>2, <2>4, <3>2, <3>3, EraseStands
  <2>6. CommandLine' = Prompt \o Front(cmd)
    BY <2>1 DEF CommandLine
  <2> QED
    BY <2>1, <2>2, <2>4, <2>5, <2>6 DEF TerminalInv, Stands
<1> QED
  BY <1>1, <1>2

LEMMA TypeKeeps ==
  ASSUME NEW c \in Chars, TerminalInv, Type(c), pc = "run", pc' = pc
  PROVE  TerminalInv'
<1>1. CASE Len(cmd) < CMD_MAX_LEN - 1
  <2>1. /\ Agrees(term, lines) /\ cmd \in Seq(Chars)
        /\ Shown(term, lines, <<c>>) /\ cmd' = Append(cmd, c) /\ stuck' = stuck
    BY <1>1 DEF TerminalInv, Type
  <2>2. term' = Putc(term, c) /\ Agrees(term', lines')
    BY <2>1, ShowOne DEF Keys
  <2>3. /\ Prompt \in Seq(Keys) /\ cmd \in Seq(Keys) /\ c \in Keys
        /\ CommandLine \in Seq(Keys)
    BY <2>1, PromptAssumption, CharsAreKeys DEF CommandLine, Keys
  <2>4. CommandLine' = Append(CommandLine, c)
    BY <2>1, <2>3 DEF CommandLine
  <2>5. ~stuck => Stands(term', Append(CommandLine, c))
    BY <2>1, <2>2, <2>3, PutcStands DEF TerminalInv
  <2>6. cmd' \in Seq(Chars)
    BY <2>1
  <2> QED
    BY <2>1, <2>2, <2>4, <2>5, <2>6 DEF TerminalInv, Stands
<1>2. CASE ~(Len(cmd) < CMD_MAX_LEN - 1)
  BY <1>2 DEF Type, termVars, TerminalInv, CommandLine
<1> QED
  BY <1>1, <1>2

LEMMA TerminalNext == TerminalInv /\ [Next]_vars => TerminalInv'
<1> SUFFICES ASSUME TerminalInv, [Next]_vars PROVE TerminalInv'
  OBVIOUS
<1>1. CASE (InitTables \/ gpu_init \/ NoDisplay)
  <2>1. termVars' = termVars /\ pc \in {"reset", "probe"}
    BY <1>1 DEF InitTables, gpu_init, NoDisplay
  <2>2. cmd = <<>> /\ cmd' = cmd /\ term' = term /\ lines' = lines /\ stuck' = stuck
    BY <2>1 DEF termVars, TerminalInv
  <2> QED
    BY <2>2 DEF TerminalInv, CommandLine
<1>2. CASE ShellStart
  <2>1. CASE Start
    <3>1. Shown(Cleared, <<<<>>>>, Banner \o Prompt) /\ cmd' = cmd /\ cmd = <<>>
      BY <1>2, <2>1 DEF Start, ShellStart, TerminalInv
    <3>2. Banner \in Seq(Keys)
      BY TextAssumption
    <3> QED
      BY <3>1, <3>2, ClearedAgrees, PromptKeeps
  <2>2. CASE UNCHANGED termVars /\ pc' = "halted"
    BY <2>2 DEF termVars, TerminalInv, CommandLine
  <2> QED
    BY <1>2, <2>1, <2>2 DEF ShellStart
<1>3. CASE HandleKey
  <2>1. pc = "run" /\ pc' = pc /\ Key
    BY <1>3 DEF HandleKey, boot
  <2>2. CASE Enter
    BY <2>2, EnterKeeps
  <2>3. CASE Backspace
    BY <2>1, <2>3, BackspaceKeeps
  <2>4. ASSUME NEW c \in Chars, Type(c) PROVE TerminalInv'
    BY <2>1, <2>4, TypeKeeps
  <2> QED
    BY <2>1, <2>2, <2>3, <2>4 DEF Key
<1>4. CASE UNCHANGED vars
  BY <1>4 DEF vars, termVars, boot, TerminalInv, CommandLine
<1> QED
  BY <1>1, <1>2, <1>3, <1>4 DEF Next

LEMMA ShowsHere == TerminalInv => ScreenShowsOutput
<1> SUFFICES ASSUME TerminalInv PROVE ScreenShowsOutput
  OBVIOUS
<1>1. Agrees(term, lines) /\ ROWS \in Nat
  BY SizeAssumption DEF TerminalInv
<1>2. /\ term.y = Len(lines) /\ term.x = Len(lines[term.y]) + 1
      /\ term.x \in 1..COLS /\ term.y \in 1..ROWS
      /\ \A r \in 1..ROWS, k \in 1..COLS : term.cells[r][k] = CellOf(lines, r, k)
  BY <1>1 DEF Agrees, AgreesTall, Tall
<1>3. Last(lines) = lines[term.y]
  BY <1>2 DEF Last
<1> QED
  BY <1>2, <1>3 DEF ScreenShowsOutput, CellOf

LEMMA LineHere == TerminalInv => LineShown
<1> SUFFICES ASSUME TerminalInv, ~stuck PROVE LineShown
  BY DEF LineShown
<1>1. Agrees(term, lines) /\ Stands(term, CommandLine) /\ cmd \in Seq(Keys)
  BY CharsAreKeys DEF TerminalInv
<1>2. /\ COLS \in Nat \ {0} /\ ROWS \in Nat \ {0} /\ term.x \in 1..COLS /\ term.y \in 1..ROWS
      /\ term.y \in Nat \ {0} /\ term.x \in Nat
  BY <1>1, SizeAssumption DEF Agrees, AgreesTall, Tall
<1> DEFINE p == Pos(term.y, term.x) - 1
           l == Len(CommandLine)
<1>3. p \in Nat /\ l \in Nat
  <2>1. l \in Nat
    BY <1>1, PromptAssumption, CharsAreKeys DEF CommandLine
  <2>2. PICK a \in Nat : a = Pos(term.y, term.x) /\ a >= term.x
    BY <1>2, PosType
  <2>3. term.x >= 1 /\ term.x \in Nat
    BY <1>2
  <2>4. a - 1 \in Nat
    BY <2>2, <2>3
  <2> QED
    BY <2>1, <2>2, <2>4
<1>4. BeforeCursor = [i \in 1..p |-> term.cells[((i - 1) \div COLS) + 1][((i - 1) % COLS) + 1]]
  <2>1. Pos(term.y, term.x) = (term.y - 1) * COLS + term.x
    BY DEF Pos
  <2>2. (term.y - 1) * COLS + term.x - 1 = p
    <3>1. PICK a \in Nat : a = (term.y - 1) * COLS
      <4>1. term.y - 1 \in Nat
        BY <1>2
      <4> QED
        BY <1>2, <4>1
    <3>2. a + term.x - 1 = (a + term.x) - 1
      BY <1>2
    <3> QED
      BY <2>1, <3>1, <3>2
  <2> HIDE DEF p
  <2> QED
    BY <2>2 DEF BeforeCursor
<1> HIDE DEF p, l
<1>5. Len(BeforeCursor) = p
  BY <1>3, <1>4
<1>6. PICK n : n = Min({p, l}) /\ n \in Nat /\ n <= p /\ n <= l
  <2>1. \A a, b \in Nat : a <= b => Min({a, b}) = a /\ Min({b, a}) = a
    BY DEF Min
  <2> QED
    BY <1>3, <2>1
<1>7. ASSUME NEW i \in 1..n
      PROVE  BeforeCursor[p - n + i] = Ink(CommandLine[l - n + i])
  <2>1. PICK q \in 1..p : q = p - n + i
    BY <1>3, <1>6
  <2>2. PICK j \in 1..l : j = l - n + i
    BY <1>3, <1>6
  <2> DEFINE r == ((q - 1) \div COLS) + 1
             k == ((q - 1) % COLS) + 1
  <2>3. BeforeCursor[q] = term.cells[r][k]
    BY <1>4
  <2>4. r \in Nat \ {0} /\ k \in 1..COLS /\ Pos(r, k) = q
    <3>1. q - 1 \in Nat
      BY <1>3
    <3>2. /\ ((q - 1) \div COLS) \in Nat /\ ((q - 1) % COLS) \in 0..(COLS - 1)
          /\ q - 1 = COLS * ((q - 1) \div COLS) + ((q - 1) % COLS)
      BY <1>2, <3>1
    <3>3. (r - 1) * COLS = COLS * ((q - 1) \div COLS)
      BY <1>2, <3>2
    <3> QED
      BY <1>2, <1>3, <3>2, <3>3 DEF Pos
  <2> HIDE DEF r, k
  <2>5. r \in 1..ROWS
    <3>1. ~(term.y < r)
      <4>1. term.y < r => Pos(term.y, term.x) < Pos(r, k)
        BY <1>2, <2>4, PosOrder
      <4>2. Pos(term.y, term.x) = p + 1
        <5>1. Pos(term.y, term.x) \in Nat
          BY <1>2, PosType
        <5> QED
          BY <5>1 DEF p
      <4> QED
        BY <1>3, <2>4, <4>1, <4>2
    <3> QED
      BY <1>2, <2>4, <3>1
  <2>6. Pos(r, k) + l - j + 1 = Pos(term.y, term.x)
    <3>1. Pos(term.y, term.x) = p + 1
      <4>1. Pos(term.y, term.x) \in Nat
        BY <1>2, PosType
      <4> QED
        BY <4>1 DEF p
    <3> QED
      <4>1. p \in Nat /\ l \in Nat /\ n \in Nat /\ i \in Nat /\ q = p - n + i /\ j = l - n + i
        BY <1>3, <1>6, <2>1, <2>2
      <4>2. (p - n + i) + l - (l - n + i) + 1 = p + 1
        BY <4>1
      <4>3. q + l - j + 1 = p + 1
        BY <4>1, <4>2
      <4> QED
        BY <2>4, <3>1, <4>3
  <2>7. term.cells[r][k] = Ink(CommandLine[j])
    BY <1>1, <2>2, <2>4, <2>5, <2>6 DEF Stands, l
  <2> QED
    BY <2>1, <2>2, <2>3, <2>7
<1> QED
  BY <1>5, <1>6, <1>7 DEF LineShown, l

-----------------------------------------------------------------------------
\* The screen shows the latest rows of what was printed, for every size of the
\* screen, every text and every sequence of keys.
THEOREM ScreenShowsOutputCorrect == Spec => []ScreenShowsOutput
<1> QED
  BY TerminalInit, TerminalNext, ShowsHere, PTL DEF Spec

\* What stands before the cursor is the prompt and the line that Enter will
\* execute, unless a backspace had to reach the row above.
THEOREM LineShownCorrect == Spec => []LineShown
<1> QED
  BY TerminalInit, TerminalNext, LineHere, PTL DEF Spec


(***************************************************************************)
(* The keyboard: ReadAsTyped.                                              *)
(***************************************************************************)
-----------------------------------------------------------------------------
(* The keyboard *)

KeyMap(shift) == IF shift THEN keymap_us_upper ELSE keymap_us_lower
Characters ==
  {NUL} \cup {keymap_us_lower[c] : c \in DOMAIN keymap_us_lower}
        \cup {keymap_us_upper[c] : c \in DOMAIN keymap_us_upper}
Events == [type : {0, 1}, code : Nat, value : {0, 1, 2}, meant : Characters, doubt : BOOLEAN]

ShiftEvent(e) == e.type = 1 /\ e.code \in Shifts
CharEvent(e) == e.type = 1 /\ e.code \notin Shifts /\ e.value \in {1, 2}
ShiftHeld == down \cap Shifts # {}

\* shift is what the flag will be when the events before index i are decoded.
FlagAt(i, shift) ==
  \/ \E j \in 1..(i - 1) :
       /\ ShiftEvent(queue[j]) /\ (shift <=> queue[j].value = 1)
       /\ \A k \in 1..(i - 1) : k > j => ~ShiftEvent(queue[k])
  \/ (shift <=> shift_active) /\ \A k \in 1..(i - 1) : ~ShiftEvent(queue[k])

\* What an event means by itself, in one case or the other.
MeantOf(e) ==
  /\ ~CharEvent(e) => e.meant = NUL
  /\ CharEvent(e) => e.meant \in {Map(KeyMap(shift), e.code) : shift \in BOOLEAN}

\* An event that is not in doubt meant the case that the flag will give it, and
\* the flag behind the whole queue is what the user holds, unless in doubt.
KeyboardInv ==
  /\ queue \in Seq(Events) /\ down \subseteq Codes \cup Shifts
  /\ shift_active \in BOOLEAN /\ doubt \in BOOLEAN
  /\ \A i \in 1..Len(queue) : MeantOf(queue[i])
  /\ \A i \in 1..Len(queue), shift \in BOOLEAN :
       CharEvent(queue[i]) /\ ~queue[i].doubt /\ FlagAt(i, shift)
         => queue[i].meant = Map(KeyMap(shift), queue[i].code)
  /\ \A shift \in BOOLEAN : ~doubt /\ FlagAt(Len(queue) + 1, shift) => (shift <=> ShiftHeld)
  /\ ReadAsTyped

LEMMA MapValue == 
  ASSUME NEW shift \in BOOLEAN, NEW code
  PROVE  Map(KeyMap(shift), code) \in Characters
BY DEF Map, KeyMap, Characters

LEMMA SynEvent == Syn \in Events /\ ~CharEvent(Syn) /\ ~ShiftEvent(Syn) /\ MeantOf(Syn)
BY DEF Syn, Events, CharEvent, ShiftEvent, MeantOf, Characters

LEMMA KeyboardInit == KeyboardStart => KeyboardInv
<1> SUFFICES ASSUME KeyboardStart PROVE KeyboardInv
  OBVIOUS
<1>1. queue = <<>> /\ queue \in Seq(Events) /\ Len(queue) = 0 /\ Len(queue) + 1 = 1
  BY DEF KeyboardStart
<1>2. \A shift \in BOOLEAN : FlagAt(1, shift) => (shift <=> ShiftHeld)
  BY DEF FlagAt, KeyboardStart, ShiftHeld
<1>3. ReadAsTyped
  BY DEF KeyboardStart, ReadAsTyped, Syn
<1>4. down \subseteq Codes \cup Shifts /\ shift_active \in BOOLEAN /\ doubt \in BOOLEAN
  BY DEF KeyboardStart
<1>5. \A i \in 1..Len(queue) : FALSE
  BY <1>1
<1> QED
  BY <1>1, <1>2, <1>3, <1>4, <1>5 DEF KeyboardInv

\* The keyboard sends what its user means with the key and what he holds.
LEMMA ChangeKeeps ==
  ASSUME KeyboardInv, NEW code \in Codes \cup Shifts, NEW value \in {0, 1, 2},
         NEW now \in SUBSET (Codes \cup Shifts), Change(code, value, now),
         code \notin Shifts => (now \cap Shifts = down \cap Shifts)
  PROVE  KeyboardInv'
<1>0. PICK n \in Nat : n = Len(queue)
  BY DEF KeyboardInv
<1> DEFINE e == [type |-> 1, code |-> code, value |-> value, doubt |-> doubt,
                 meant |-> IF code \in Shifts \/ value = 0 THEN NUL ELSE Meant(code)]
<1>1. /\ queue \in Seq(Events) /\ doubt \in BOOLEAN /\ shift_active \in BOOLEAN
      /\ n \in Nat /\ \A i \in 1..n : queue[i] \in Events
  BY <1>0 DEF KeyboardInv
<1>2. /\ down' = now /\ UNCHANGED <<shift_active, ascii, polled>>
  BY DEF Change
<1>3. ReadAsTyped'
  BY <1>2 DEF KeyboardInv, ReadAsTyped
<1>4. Meant(code) = Map(KeyMap(ShiftHeld), code) /\ ShiftHeld \in BOOLEAN
  BY DEF Meant, KeyMap, ShiftHeld
<1>5. CASE Len(queue) + 2 <= QUEUE_SIZE
  <2>1. /\ queue' = queue \o <<e, Syn>>
        /\ doubt' = IF code \in Shifts THEN (value = 1) # (now \cap Shifts # {}) ELSE doubt
    BY <1>5 DEF Change
  <2>2. e \in Events
    <3>1. NUL \in Characters /\ Meant(code) \in Characters
      BY <1>4, MapValue DEF Characters
    <3>2. code \in Nat
      BY CodeAssumption DEF Shifts
    <3> QED
      BY <1>1, <3>1, <3>2 DEF Events
  <2>3. /\ ShiftEvent(e) <=> code \in Shifts
        /\ CharEvent(e) <=> code \notin Shifts /\ value # 0
        /\ CharEvent(e) => e.meant = Meant(code)
        /\ ~CharEvent(e) => e.meant = NUL
        /\ e.code = code /\ e.value = value /\ (e.doubt <=> doubt)
    BY DEF ShiftEvent, CharEvent
  <2>4. MeantOf(e)
    BY <1>4, <2>3 DEF MeantOf
  <2> HIDE DEF e
  <2>5. /\ queue' \in Seq(Events) /\ Len(queue') = n + 2
        /\ \A i \in 1..n : queue'[i] = queue[i]
        /\ queue'[n + 1] = e /\ queue'[n + 2] = Syn
    BY <1>1, <2>1, <2>2, SynEvent, <1>0
  <2>6. \A i \in 1..(n + 2) : i \in 1..n \/ i = n + 1 \/ i = n + 2
    BY <1>1
  <2>7. \A i \in 1..(n + 2) : MeantOf(queue'[i])
    BY <2>4, <2>5, <2>6, SynEvent, <1>0 DEF KeyboardInv
  <2>8. \A i \in 1..(n + 1), shift \in BOOLEAN : FlagAt(i, shift)' => FlagAt(i, shift)
    <3> SUFFICES ASSUME NEW i \in 1..(n + 1), NEW shift \in BOOLEAN, FlagAt(i, shift)' PROVE FlagAt(i, shift)
      OBVIOUS
    <3>1. \A j \in 1..(i - 1) : queue'[j] = queue[j]
      BY <1>1, <2>5
    <3> QED
      BY <1>2, <3>1 DEF FlagAt
  <2>9. ASSUME NEW shift \in BOOLEAN, ~doubt, FlagAt(n + 1, shift) PROVE shift <=> ShiftHeld
    BY <2>9, <1>0 DEF KeyboardInv
  <2>10. ASSUME NEW i \in 1..(n + 2), NEW shift \in BOOLEAN,
                CharEvent(queue'[i]), ~queue'[i].doubt, FlagAt(i, shift)'
         PROVE  queue'[i].meant = Map(KeyMap(shift), queue'[i].code)
    <3>1. CASE i \in 1..n
      <4>1. queue'[i] = queue[i] /\ FlagAt(i, shift)
        BY <1>1, <2>5, <2>8, <2>10, <3>1
      <4> QED
        BY <2>10, <3>1, <4>1, <1>0 DEF KeyboardInv
    <3>2. CASE i = n + 1
      <4>1. FlagAt(n + 1, shift) /\ queue'[i] = e
        BY <1>1, <2>5, <2>8, <2>10, <3>2
      <4>2. ~doubt
        BY <2>3, <2>10, <4>1
      <4>3. shift <=> ShiftHeld
        BY <2>9, <4>1, <4>2
      <4>4. e.meant = Map(KeyMap(ShiftHeld), code) /\ e.code = code
        BY <1>4, <2>3, <2>10, <4>1
      <4>5. KeyMap(shift) = KeyMap(ShiftHeld)
        BY <4>3 DEF KeyMap
      <4> QED
        BY <4>1, <4>4, <4>5
    <3>3. CASE i = n + 2
      BY <2>5, <2>10, <3>3, SynEvent
    <3> QED
      BY <2>6, <3>1, <3>2, <3>3
  <2>11. ASSUME NEW shift \in BOOLEAN, ~doubt', FlagAt(n + 3, shift)'
         PROVE  shift <=> ShiftHeld'
    <3>1. (n + 3) - 1 = n + 2 /\ (n + 1) - 1 = n /\ n + 1 \in 1..(n + 2)
      BY <1>1
    <3>2. ~ShiftEvent(queue'[n + 2])
      BY <2>5, SynEvent
    <3>3. CASE code \in Shifts
      <4>1. ShiftEvent(queue'[n + 1]) /\ queue'[n + 1].value = value
        BY <2>3, <2>5, <3>3
      <4>2. PICK j \in 1..(n + 2) :
              /\ ShiftEvent(queue'[j]) /\ (shift <=> queue'[j].value = 1)
              /\ \A k \in 1..(n + 2) : k > j => ~ShiftEvent(queue'[k])
        BY <2>11, <3>1, <4>1 DEF FlagAt
      <4>3. j = n + 1
        BY <1>1, <2>6, <3>1, <3>2, <4>1, <4>2
      <4>4. shift <=> value = 1
        BY <4>1, <4>2, <4>3
      <4>5. (value = 1) <=> (now \cap Shifts # {})
        BY <2>1, <2>11, <3>3
      <4> QED
        BY <1>2, <4>4, <4>5 DEF ShiftHeld
    <3>4. CASE code \notin Shifts
      <4>1. ~ShiftEvent(queue'[n + 1])
        BY <2>3, <2>5, <3>4
      <4>2. FlagAt(n + 1, shift)'
        <5>1. \A k \in 1..n : k \in 1..(n + 2)
          BY <1>1
        <5>2. CASE \E j \in 1..(n + 2) :
                     /\ ShiftEvent(queue'[j]) /\ (shift <=> queue'[j].value = 1)
                     /\ \A k \in 1..(n + 2) : k > j => ~ShiftEvent(queue'[k])
          <6>1. PICK j \in 1..(n + 2) :
                     /\ ShiftEvent(queue'[j]) /\ (shift <=> queue'[j].value = 1)
                     /\ \A k \in 1..(n + 2) : k > j => ~ShiftEvent(queue'[k])
            BY <5>2
          <6>2. j \in 1..n
            BY <2>6, <3>2, <4>1, <6>1
          <6> QED
            BY <3>1, <5>1, <6>1, <6>2 DEF FlagAt
        <5>3. CASE (shift <=> shift_active') /\ \A k \in 1..(n + 2) : ~ShiftEvent(queue'[k])
          BY <3>1, <5>1, <5>3 DEF FlagAt
        <5> QED
          BY <2>11, <3>1, <5>2, <5>3 DEF FlagAt
      <4>3. FlagAt(n + 1, shift) /\ ~doubt
        BY <1>1, <2>1, <2>8, <2>11, <3>4, <4>2
      <4>4. shift <=> ShiftHeld
        BY <2>9, <4>3
      <4> QED
        BY <1>2, <3>4, <4>4 DEF ShiftHeld
    <3> QED
      BY <3>3, <3>4
  <2>12. doubt' \in BOOLEAN
    BY <1>1, <2>1
  <2>13. Len(queue') + 1 = n + 3
    BY <1>1, <2>5
  <2> QED
    BY <1>1, <1>2, <1>3, <2>5, <2>7, <2>10, <2>11, <2>12, <2>13 DEF KeyboardInv
<1>6. CASE ~(Len(queue) + 2 <= QUEUE_SIZE)
  <2>1. queue' = queue /\ doubt' = (doubt \/ code \in Shifts)
    BY <1>6 DEF Change
  <2>2. \A i, shift : FlagAt(i, shift)' <=> FlagAt(i, shift)
    BY <1>2, <2>1 DEF FlagAt
  <2>3. ~doubt' => ~doubt /\ (ShiftHeld' <=> ShiftHeld)
    BY <1>2, <2>1 DEF ShiftHeld
  <2> QED
    BY <1>1, <1>2, <1>3, <2>1, <2>2, <2>3 DEF KeyboardInv
<1> QED
  BY <1>5, <1>6

\* The driver takes an event, and the flag is what its index foretold.
LEMMA PollKeeps ==
  ASSUME KeyboardInv, Poll
  PROVE  KeyboardInv'
<1>0. PICK n \in Nat : n = Len(queue)
  BY DEF KeyboardInv
<1> DEFINE e == queue[1]
<1>1. queue \in Seq(Events) /\ queue # <<>> /\ shift_active \in BOOLEAN
  BY DEF KeyboardInv, Poll
<1>2. n \in Nat /\ n > 0 /\ e \in Events /\ Head(queue) = e
  BY <1>0, <1>1
<1>3. /\ queue' = Tail(queue) /\ polled' = e
      /\ shift_active' = IF ShiftEvent(e) THEN e.value = 1 ELSE shift_active
      /\ ascii' = IF CharEvent(e) THEN Map(KeyMap(shift_active), e.code) ELSE NUL
      /\ UNCHANGED <<down, doubt>>
  BY <1>2 DEF Poll, ShiftAfter, ShiftEvent, CharEvent, KeyMap
<1> HIDE DEF e
<1>4. /\ queue' \in Seq(Events) /\ Len(queue') = n - 1
      /\ \A i \in 1..(n - 1) : queue'[i] = queue[i + 1]
  BY <1>1, <1>2, <1>3, <1>0
<1>5. shift_active' \in BOOLEAN
  BY <1>1, <1>3
<1>6. ASSUME NEW i \in 1..n, NEW shift \in BOOLEAN, FlagAt(i, shift)' PROVE FlagAt(i + 1, shift)
  <2>1. (i + 1) - 1 = i /\ i \in Nat
    OBVIOUS
  <2>2. \A j \in 1..(i - 1) : queue'[j] = queue[j + 1] /\ j + 1 \in 1..i
    BY <1>2, <1>4
  <2>3. \A k \in 1..i : k # 1 => k - 1 \in 1..(i - 1) /\ queue[k] = queue'[k - 1]
    <3> SUFFICES ASSUME NEW k \in 1..i, k # 1 PROVE k - 1 \in 1..(i - 1) /\ queue[k] = queue'[k - 1]
      OBVIOUS
    <3>1. k - 1 \in 1..(i - 1) /\ (k - 1) + 1 = k
      OBVIOUS
    <3> QED
      BY <2>2, <3>1
  <2>4. CASE \E j \in 1..(i - 1) :
               /\ ShiftEvent(queue'[j]) /\ (shift <=> queue'[j].value = 1)
               /\ \A k \in 1..(i - 1) : k > j => ~ShiftEvent(queue'[k])
    <3>1. PICK j \in 1..(i - 1) :
               /\ ShiftEvent(queue'[j]) /\ (shift <=> queue'[j].value = 1)
               /\ \A k \in 1..(i - 1) : k > j => ~ShiftEvent(queue'[k])
      BY <2>4
    <3>2. j + 1 \in 1..i /\ ShiftEvent(queue[j + 1]) /\ (shift <=> queue[j + 1].value = 1)
      BY <2>2, <3>1
    <3>3. \A k \in 1..i : k > j + 1 => ~ShiftEvent(queue[k])
      <4> SUFFICES ASSUME NEW k \in 1..i, k > j + 1 PROVE ~ShiftEvent(queue[k])
        OBVIOUS
      <4>1. k # 1 /\ k - 1 > j
        OBVIOUS
      <4> QED
        BY <2>3, <3>1, <4>1
    <3> QED
      BY <2>1, <3>2, <3>3 DEF FlagAt
  <2>5. CASE (shift <=> shift_active') /\ \A k \in 1..(i - 1) : ~ShiftEvent(queue'[k])
    <3>1. \A k \in 1..i : k # 1 => ~ShiftEvent(queue[k])
      BY <2>3, <2>5
    <3>2. CASE ShiftEvent(e)
      <4>1. shift <=> queue[1].value = 1
        BY <1>3, <2>5, <3>2 DEF e
      <4>2. 1 \in 1..i /\ \A k \in 1..i : k > 1 => k # 1
        OBVIOUS
      <4> QED
        BY <2>1, <3>1, <3>2, <4>1, <4>2 DEF FlagAt, e
    <3>3. CASE ~ShiftEvent(e)
      <4>1. (shift <=> shift_active) /\ \A k \in 1..i : ~ShiftEvent(queue[k])
        BY <1>3, <2>5, <3>1, <3>3 DEF e
      <4> QED
        BY <2>1, <4>1 DEF FlagAt
    <3> QED
      BY <3>2, <3>3
  <2> QED
    BY <1>6, <2>4, <2>5 DEF FlagAt
<1>7. \A i \in 1..(n - 1) : i + 1 \in 1..n /\ i \in 1..n /\ queue'[i] = queue[i + 1]
  BY <1>2, <1>4
<1>8. \A i \in 1..(n - 1) : MeantOf(queue'[i])
  BY <1>7, <1>0 DEF KeyboardInv
<1>9. ASSUME NEW i \in 1..(n - 1), NEW shift \in BOOLEAN,
             CharEvent(queue'[i]), ~queue'[i].doubt, FlagAt(i, shift)'
      PROVE  queue'[i].meant = Map(KeyMap(shift), queue'[i].code)
  <2>1. FlagAt(i + 1, shift) /\ i + 1 \in 1..n /\ queue'[i] = queue[i + 1]
    BY <1>6, <1>7, <1>9
  <2> QED
    BY <1>9, <2>1, <1>0 DEF KeyboardInv
<1>10. ASSUME NEW shift \in BOOLEAN, ~doubt', FlagAt(n, shift)' PROVE shift <=> ShiftHeld'
  <2>1. FlagAt(n + 1, shift)
    BY <1>2, <1>6, <1>10
  <2>2. shift <=> ShiftHeld
    BY <1>3, <1>10, <2>1, <1>0 DEF KeyboardInv
  <2> QED
    BY <1>3, <2>2 DEF ShiftHeld
<1>11. ReadAsTyped'
  <2>1. MeantOf(e)
    BY <1>2, <1>0 DEF KeyboardInv, e
  <2>2. CASE ~CharEvent(e)
    BY <1>3, <2>1, <2>2 DEF MeantOf, ReadAsTyped
  <2>3. CASE CharEvent(e) /\ ~e.doubt
    <3>1. FlagAt(1, shift_active)
      BY DEF FlagAt
    <3>2. 1 \in 1..n
      BY <1>2
    <3>3. e.meant = Map(KeyMap(shift_active), e.code)
      BY <1>1, <2>3, <3>1, <3>2, <1>0 DEF KeyboardInv, e
    <3> QED
      BY <1>3, <2>3, <3>3 DEF ReadAsTyped
  <2>4. CASE CharEvent(e) /\ e.doubt
    <3>1. ascii' \in {Map(keymap_us_lower, e.code), Map(keymap_us_upper, e.code)}
      BY <1>3, <2>4 DEF KeyMap
    <3> QED
      BY <1>3, <2>4, <3>1 DEF ReadAsTyped
  <2> QED
    BY <2>2, <2>3, <2>4
<1>12. (n - 1) + 1 = n
  BY <1>2
<1>13. down' \subseteq Codes \cup Shifts /\ doubt' \in BOOLEAN
  BY <1>3 DEF KeyboardInv
<1> QED
  BY <1>4, <1>5, <1>8, <1>9, <1>10, <1>11, <1>12, <1>13 DEF KeyboardInv

LEMMA KeyboardNext == KeyboardInv /\ [KeyboardStep]_keyboardVars => KeyboardInv'
<1> SUFFICES ASSUME KeyboardInv, [KeyboardStep]_keyboardVars PROVE KeyboardInv'
  OBVIOUS
<1>1. down \subseteq Codes \cup Shifts
  BY DEF KeyboardInv
<1>2. CASE Press
  <2>1. PICK c \in (Codes \cup Shifts) \ down : Change(c, 1, down \cup {c})
    BY <1>2 DEF Press
  <2>2. c \notin Shifts => ((down \cup {c}) \cap Shifts = down \cap Shifts)
    OBVIOUS
  <2> QED
    BY <1>1, <2>1, <2>2, ChangeKeeps
<1>3. CASE Release
  <2>1. PICK c \in down : Change(c, 0, down \ {c})
    BY <1>3 DEF Release
  <2>2. c \notin Shifts => ((down \ {c}) \cap Shifts = down \cap Shifts)
    OBVIOUS
  <2> QED
    BY <1>1, <2>1, <2>2, ChangeKeeps
<1>4. CASE Repeat
  <2>1. PICK c \in down, v \in {1, 2} : Change(c, v, down)
    BY <1>4 DEF Repeat
  <2> QED
    BY <1>1, <2>1, ChangeKeeps
<1>5. CASE Poll
  BY <1>5, PollKeeps
<1>6. CASE PollNothing
  <2>1. UNCHANGED <<queue, down, doubt, shift_active>> /\ ascii' = NUL /\ polled' = Syn
    BY <1>6 DEF PollNothing
  <2>2. ReadAsTyped'
    BY <2>1 DEF ReadAsTyped, Syn
  <2>3. \A i, shift : FlagAt(i, shift)' <=> FlagAt(i, shift)
    BY <2>1 DEF FlagAt
  <2> QED
    BY <2>1, <2>2, <2>3 DEF KeyboardInv, ShiftHeld
<1>7. CASE UNCHANGED keyboardVars
  <2>1. UNCHANGED <<queue, down, doubt, shift_active, ascii, polled>>
    BY <1>7 DEF keyboardVars
  <2>2. \A i, shift : FlagAt(i, shift)' <=> FlagAt(i, shift)
    BY <2>1 DEF FlagAt
  <2> QED
    BY <2>1, <2>2 DEF KeyboardInv, ShiftHeld, ReadAsTyped
<1> QED
  BY <1>2, <1>3, <1>4, <1>5, <1>6, <1>7 DEF KeyboardStep

\* Every poll returns the character that the user meant, whatever the keymaps,
\* the keys and the size of the queue; only its case may be wrong, and only
\* while the driver has not been told what is held.
THEOREM ReadAsTypedCorrect == KeyboardSpec => []ReadAsTyped
<1>1. KeyboardInv => ReadAsTyped
  BY DEF KeyboardInv
<1> QED
  BY KeyboardInit, KeyboardNext, <1>1, PTL DEF KeyboardSpec


(***************************************************************************)
(* The mailbox ring: it implements a bounded FIFO mailbox, for every       *)
(* number of slots and every set of messages.                              *)
(***************************************************************************)
USE QueueAssumption, NoMessageAssumption

-----------------------------------------------------------------------------
(* Indices, without modulo *)

\* An index in the first or second lap is reduced by at most one lap.
LEMMA ModLap ==
  ASSUME NEW i \in 0..(2 * IPC_QUEUE_SIZE - 1)
  PROVE  i % IPC_QUEUE_SIZE = IF i < IPC_QUEUE_SIZE THEN i ELSE i - IPC_QUEUE_SIZE
<1>1. CASE i < IPC_QUEUE_SIZE
  BY <1>1, SMT
<1>2. CASE i >= IPC_QUEUE_SIZE
  BY <1>2, SMTT(30)
<1>3. QED
  BY <1>1, <1>2

LEMMA ModBelowLap ==
  ASSUME NEW i \in (1 - IPC_QUEUE_SIZE)..(IPC_QUEUE_SIZE - 1)
  PROVE  i % IPC_QUEUE_SIZE = IF i >= 0 THEN i ELSE i + IPC_QUEUE_SIZE
<1>1. CASE i >= 0
  BY <1>1, SMT
<1>2. CASE i < 0
  BY <1>2, SMTT(30)
<1>3. QED
  BY <1>1, <1>2

LEMMA NextSlotWraps ==
  ASSUME NEW i \in RingSlots
  PROVE  /\ NextSlot(i) = IF i + 1 = IPC_QUEUE_SIZE THEN 0 ELSE i + 1
         /\ NextSlot(i) \in RingSlots
<1>1. PICK j \in 0..(2 * IPC_QUEUE_SIZE - 1) : j = i + 1
  BY DEF RingSlots
<1>2. QED
  BY <1>1, ModLap DEF NextSlot, RingSlots

Array == [RingSlots -> Messages \cup {NoMessage}]

\* The slot i places behind a head h.
At(h, i) == IF h + i < IPC_QUEUE_SIZE THEN h + i ELSE h + i - IPC_QUEUE_SIZE

LEMMA SizeValue ==
  ASSUME NEW h \in RingSlots, NEW t \in RingSlots
  PROVE  /\ Size(h, t) = IF h <= t THEN t - h ELSE t - h + IPC_QUEUE_SIZE
         /\ Size(h, t) \in 0..(IPC_QUEUE_SIZE - 1)
<1>1. PICK d \in (1 - IPC_QUEUE_SIZE)..(IPC_QUEUE_SIZE - 1) : d = t - h
  BY DEF RingSlots
<1>2. Size(h, t) = IF d >= 0 THEN d ELSE d + IPC_QUEUE_SIZE
  BY <1>1, ModBelowLap DEF Size
<1>3. QED
  BY <1>1, <1>2 DEF RingSlots

\* What the refinement mapping reads, message by message.
LEMMA QueuedValue ==
  ASSUME NEW q \in Array, NEW h \in RingSlots, NEW t \in RingSlots
  PROVE  /\ Queued(q, h, t) = [i \in 1..Size(h, t) |-> q[At(h, i - 1)]]
         /\ \A i \in 1..Size(h, t) : At(h, i - 1) \in RingSlots
<1>1. Size(h, t) \in 0..(IPC_QUEUE_SIZE - 1)
  BY SizeValue
<1>2. ASSUME NEW i \in 1..Size(h, t)
      PROVE  (h + i - 1) % IPC_QUEUE_SIZE = At(h, i - 1) /\ At(h, i - 1) \in RingSlots
  <2>1. PICK j \in 0..(2 * IPC_QUEUE_SIZE - 1) : j = h + i - 1
    BY <1>1, <1>2 DEF RingSlots
  <2>2. j % IPC_QUEUE_SIZE = IF j < IPC_QUEUE_SIZE THEN j ELSE j - IPC_QUEUE_SIZE
    BY <2>1, ModLap
  <2>3. (h + i - 1) % IPC_QUEUE_SIZE = j % IPC_QUEUE_SIZE
    BY <2>1
  <2>4. QED
    BY <1>1, <1>2, <2>1, <2>2, <2>3 DEF At, RingSlots
<1>3. QED
  BY <1>2 DEF Queued

LEMMA LengthOfQueued ==
  ASSUME NEW q \in Array, NEW h \in RingSlots, NEW t \in RingSlots, Queued(q, h, t) \in Seq(Messages)
  PROVE  Len(Queued(q, h, t)) = Size(h, t)
<1>1. DOMAIN Queued(q, h, t) = 1..Size(h, t) /\ Size(h, t) \in Nat
  BY QueuedValue, SizeValue
<1>2. QED
  BY <1>1

\* One slot stays empty: the ring is full at IPC_QUEUE_SIZE - 1 messages.
LEMMA FullIsLastSlot ==
  ASSUME NEW h \in RingSlots, NEW t \in RingSlots
  PROVE  /\ NextSlot(t) = h <=> Size(h, t) = IPC_QUEUE_SIZE - 1
         /\ h = t <=> Size(h, t) = 0
<1>1. NextSlot(t) = IF t + 1 = IPC_QUEUE_SIZE THEN 0 ELSE t + 1
  BY NextSlotWraps
<1>2. Size(h, t) = IF h <= t THEN t - h ELSE t - h + IPC_QUEUE_SIZE
  BY SizeValue
<1>3. QED
  BY <1>1, <1>2 DEF RingSlots

-----------------------------------------------------------------------------
(* One more message, one less *)

\* Writing the tail slot and advancing the tail appends to the queue.
LEMMA EnqueueAppends ==
  ASSUME NEW q \in Array, NEW h \in RingSlots, NEW t \in RingSlots, NEW m \in Messages,
         Queued(q, h, t) \in Seq(Messages), NextSlot(t) # h
  PROVE  Queued([q EXCEPT ![t] = m], h, NextSlot(t)) = Append(Queued(q, h, t), m)
<1> DEFINE q2 == [q EXCEPT ![t] = m]
           t2 == NextSlot(t)
<1>1. t2 \in RingSlots /\ t2 = IF t + 1 = IPC_QUEUE_SIZE THEN 0 ELSE t + 1
  BY NextSlotWraps
<1>2. q2 \in Array
  BY DEF Array
<1>3. PICK n \in 0..(IPC_QUEUE_SIZE - 2) :
        /\ n = Size(h, t)
        /\ n = IF h <= t THEN t - h ELSE t - h + IPC_QUEUE_SIZE
  BY SizeValue, FullIsLastSlot
<1>4. Size(h, t2) = n + 1
  <2>1. Size(h, t2) = IF h <= t2 THEN t2 - h ELSE t2 - h + IPC_QUEUE_SIZE
    BY <1>1, SizeValue
  <2>2. QED
    BY <1>1, <1>3, <2>1 DEF RingSlots
<1>5. At(h, n) = t
  BY <1>3 DEF At, RingSlots
<1>6. \A i \in 1..n : At(h, i - 1) \in RingSlots /\ At(h, i - 1) # t
  BY <1>3 DEF At, RingSlots
<1>7. Queued(q2, h, t2) = [i \in 1..(n + 1) |-> q2[At(h, i - 1)]]
  <2>1. Queued(q2, h, t2) = [i \in 1..Size(h, t2) |-> q2[At(h, i - 1)]]
    BY <1>1, <1>2, QueuedValue
  <2>2. QED
    BY <2>1, <1>4
<1>8. Queued(q, h, t) = [i \in 1..n |-> q[At(h, i - 1)]]
  <2>1. n = Size(h, t)
    BY <1>3
  <2>2. QED
    BY <2>1, QueuedValue
<1>9. \A i \in 1..n : q2[At(h, i - 1)] = q[At(h, i - 1)]
  BY <1>6 DEF Array
<1>10. q2[At(h, n)] = m
  BY <1>5 DEF Array
<1>11. Len(Queued(q, h, t)) = n
  BY <1>3, LengthOfQueued
<1> HIDE DEF q2, t2
<1>12. Append(Queued(q, h, t), m) = [i \in 1..(n + 1) |-> q2[At(h, i - 1)]]
  <2> DEFINE s == Queued(q, h, t)
  <2>1. s \in Seq(Messages) /\ Len(s) = n /\ n \in Nat
    BY <1>3, <1>11
  <2>2. \A i \in 1..n : s[i] = q2[At(h, i - 1)]
    BY <1>8, <1>9
  <2> HIDE DEF s
  <2>3. /\ Append(s, m) \in [1..(n + 1) -> Messages]
        /\ \A i \in 1..n : Append(s, m)[i] = s[i]
        /\ Append(s, m)[n + 1] = m
    <3>1. /\ Append(s, m) \in Seq(Messages) /\ Len(Append(s, m)) = n + 1
          /\ \A i \in 1..n : Append(s, m)[i] = s[i]
          /\ Append(s, m)[n + 1] = m
      BY <2>1, AppendProperties
    <3>2. Append(s, m) \in [1..Len(Append(s, m)) -> Messages]
      BY <3>1, LenProperties
    <3>3. QED
      BY <3>1, <3>2
  <2>4. \A i \in 1..(n + 1) : Append(s, m)[i] = q2[At(h, i - 1)]
    <3>1. \A i \in 1..(n + 1) : i \in 1..n \/ i = n + 1
      BY <2>1
    <3>2. At(h, (n + 1) - 1) = At(h, n)
      BY <2>1
    <3>3. QED
      BY <2>2, <2>3, <1>10, <3>1, <3>2
  <2>5. QED
    BY <2>3, <2>4 DEF s
<1>13. QED
  BY <1>7, <1>12 DEF q2, t2

\* Advancing the head takes the oldest message off the queue.
LEMMA DequeueTails ==
  ASSUME NEW q \in Array, NEW h \in RingSlots, NEW t \in RingSlots,
         Queued(q, h, t) \in Seq(Messages), h # t
  PROVE  /\ Queued(q, h, t) # <<>>
         /\ Queued(q, NextSlot(h), t) = Tail(Queued(q, h, t))
         /\ q[h] = Head(Queued(q, h, t))
<1> DEFINE h2 == NextSlot(h)
<1>1. h2 \in RingSlots /\ h2 = IF h + 1 = IPC_QUEUE_SIZE THEN 0 ELSE h + 1
  BY NextSlotWraps
<1>2. PICK n \in 1..(IPC_QUEUE_SIZE - 1) :
        /\ n = Size(h, t)
        /\ n = IF h <= t THEN t - h ELSE t - h + IPC_QUEUE_SIZE
  BY SizeValue, FullIsLastSlot
<1>3. Size(h2, t) = n - 1
  <2>1. Size(h2, t) = IF h2 <= t THEN t - h2 ELSE t - h2 + IPC_QUEUE_SIZE
    BY <1>1, SizeValue
  <2>2. QED
    BY <1>1, <1>2, <2>1 DEF RingSlots
<1>4. \A i \in 1..(n - 1) : At(h2, i - 1) = At(h, i)
  BY <1>1, <1>2 DEF At, RingSlots
<1>5. Queued(q, h2, t) = [i \in 1..(n - 1) |-> q[At(h, i)]]
  BY <1>1, <1>3, <1>4, QueuedValue
<1>6. Queued(q, h, t) = [i \in 1..n |-> q[At(h, i - 1)]]
  <2>1. n = Size(h, t)
    BY <1>2
  <2>2. QED
    BY <2>1, QueuedValue
<1>7. Len(Queued(q, h, t)) = n /\ Queued(q, h, t) # <<>>
  <2>1. Len(Queued(q, h, t)) = n
    BY <1>2, LengthOfQueued
  <2>2. QED
    BY <2>1, EmptySeq
<1>8. Tail(Queued(q, h, t)) = [i \in 1..(n - 1) |-> Queued(q, h, t)[i + 1]]
  <2> DEFINE s == Queued(q, h, t)
  <2>1. s \in Seq(Messages) /\ Len(s) = n
    BY <1>7
  <2> HIDE DEF s
  <2>2. /\ Tail(s) \in Seq(Messages) /\ Len(Tail(s)) = n - 1
        /\ \A i \in 1..(n - 1) : Tail(s)[i] = s[i + 1]
    BY <1>7, <2>1, HeadTailProperties DEF s
  <2>3. Tail(s) \in [1..(n - 1) -> Messages]
    BY <2>2, LenProperties
  <2>4. Tail(s) = [i \in 1..(n - 1) |-> s[i + 1]]
    BY <2>2, <2>3
  <2>5. QED
    BY <2>4 DEF s
<1>9. \A i \in 1..(n - 1) : Queued(q, h, t)[i + 1] = q[At(h, i)]
  BY <1>2, <1>6
<1>10. Head(Queued(q, h, t)) = q[h]
  BY <1>2, <1>6, <1>7 DEF At, RingSlots
<1>11. QED
  BY <1>5, <1>7, <1>8, <1>9, <1>10

-----------------------------------------------------------------------------
(* The type invariant *)

\* RingTypeOK, with the operators the lemmas are about.
LEMMA TypeOKForm ==
  RingTypeOK <=> /\ ipc_queue \in Array /\ ipc_head \in RingSlots /\ ipc_tail \in RingSlots
             /\ msg \in Messages \cup {NoMessage}
             /\ Queued(ipc_queue, ipc_head, ipc_tail) \in Seq(Messages)
             /\ drops \in 0..MaxDrops
BY DEF RingTypeOK, Array, Contents

LEMMA InitEmpty == RingStart => RingTypeOK /\ Contents = <<>>
<1> SUFFICES ASSUME RingStart PROVE RingTypeOK /\ Contents = <<>>
  OBVIOUS
<1>1. /\ ipc_queue \in Array /\ ipc_head = 0 /\ ipc_tail = 0 /\ 0 \in RingSlots
      /\ msg \in Messages \cup {NoMessage} /\ drops \in 0..MaxDrops
  BY DropsAssumption DEF RingStart, Array, RingSlots
<1>2. Size(0, 0) = 0
  BY <1>1, SizeValue
<1>3. Contents = <<>>
  BY <1>1, <1>2 DEF Contents, Queued
<1>4. QED
  BY <1>1, <1>3, TypeOKForm, EmptySeq DEF Contents

\* A send with room left appends, one without is counted and changes nothing
\* else.
LEMMA SendStep ==
  ASSUME RingTypeOK, NEW m \in Messages, Send(m)
  PROVE  RingTypeOK' /\ Mailbox!MailSend(m)
<1> DEFINE q == ipc_queue
           h == ipc_head
           t == ipc_tail
<1>1. /\ q \in Array /\ h \in RingSlots /\ t \in RingSlots /\ Contents = Queued(q, h, t)
      /\ Contents \in Seq(Messages) /\ msg \in Messages \cup {NoMessage}
  BY TypeOKForm DEF Contents
<1>2. Len(Contents) = Size(h, t) /\ Size(h, t) \in 0..(IPC_QUEUE_SIZE - 1)
  BY <1>1, LengthOfQueued, SizeValue
<1>3. Full <=> Size(h, t) = IPC_QUEUE_SIZE - 1
  BY <1>1, FullIsLastSlot DEF Full
<1>4. CASE Enqueue(m)
  <2>1. /\ q' = [q EXCEPT ![t] = m] /\ t' = NextSlot(t) /\ h' = h /\ msg' = msg
        /\ NextSlot(t) # h /\ drops' = drops
    BY <1>4 DEF Enqueue, Full
  <2>2. Contents' = Append(Contents, m)
    BY <1>1, <2>1, EnqueueAppends DEF Contents
  <2>3. RingTypeOK'
    <3>1. q' \in Array /\ t' \in RingSlots
      BY <1>1, <2>1, NextSlotWraps DEF Array
    <3>2. Contents' \in Seq(Messages)
      BY <1>1, <2>2, AppendProperties
    <3>3. QED
      BY <1>1, <2>1, <3>1, <3>2 DEF RingTypeOK, Array
  <2>4. Len(Contents) < IPC_QUEUE_SIZE - 1
    BY <1>2, <1>3, <1>4 DEF Enqueue
  <2>5. QED
    <3>1. drops' = drops + Mailbox!Dropped(Contents)
      BY <2>1, <2>4, TypeOKForm DEF Mailbox!Dropped
    <3>2. QED
      BY <2>1, <2>2, <2>3, <2>4, <3>1 DEF Mailbox!MailSend, Mailbox!Sent
<1>5. CASE Drop
  <2>1. /\ UNCHANGED <<ipc_queue, ipc_head, ipc_tail, msg>> /\ Contents' = Contents
        /\ drops < MaxDrops /\ drops' = drops + 1
    BY <1>5 DEF Drop, ring, Contents
  <2>2. ~(Len(Contents) < IPC_QUEUE_SIZE - 1)
    BY <1>2, <1>3, <1>5 DEF Drop
  <2>3. QED
    BY <2>1, <2>2, DropsAssumption
    DEF RingTypeOK, Mailbox!MailSend, Mailbox!Sent, Mailbox!Dropped
<1>6. QED
  BY <1>4, <1>5 DEF Send

\* A receive delivers the oldest message, or none when none is queued.
LEMMA ReceiveStep ==
  ASSUME RingTypeOK, Dequeue \/ ReceiveNone
  PROVE  RingTypeOK' /\ Mailbox!MailReceive
<1> DEFINE q == ipc_queue
           h == ipc_head
           t == ipc_tail
<1>1. /\ q \in Array /\ h \in RingSlots /\ t \in RingSlots /\ Contents = Queued(q, h, t)
      /\ Contents \in Seq(Messages) /\ msg \in Messages \cup {NoMessage}
  BY TypeOKForm DEF Contents
<1>2. CASE Dequeue
  <2>1. q' = q /\ t' = t /\ h' = NextSlot(h) /\ msg' = q[h] /\ h # t /\ drops' = drops
    BY <1>2 DEF Dequeue
  <2>2. Contents # <<>> /\ Contents' = Tail(Contents) /\ msg' = Head(Contents)
    BY <1>1, <2>1, DequeueTails DEF Contents
  <2>3. Contents' \in Seq(Messages) /\ msg' \in Messages
    BY <1>1, <2>2, HeadTailProperties
  <2>4. RingTypeOK'
    BY <1>1, <2>1, <2>3, NextSlotWraps DEF RingTypeOK, Array
  <2>5. QED
    BY <2>1, <2>2, <2>4 DEF Mailbox!MailReceive, Mailbox!Delivered, Mailbox!Remaining
<1>3. CASE ReceiveNone
  <2>1. UNCHANGED <<ipc_queue, ipc_head, ipc_tail, drops>> /\ msg' = NoMessage /\ h = t
    BY <1>3 DEF ReceiveNone, ring
  <2>2. Contents' = Contents
    BY <2>1 DEF Contents
  <2>3. Contents = <<>>
    <3>1. Len(Contents) = 0
      BY <1>1, <2>1, LengthOfQueued, FullIsLastSlot
    <3>2. QED
      BY <1>1, <3>1
  <2>4. QED
    BY <2>1, <2>2, <2>3
    DEF RingTypeOK, Mailbox!MailReceive, Mailbox!Delivered, Mailbox!Remaining
<1>4. QED
  BY <1>2, <1>3

LEMMA RingStep == RingTypeOK /\ [RingNext]_ringVars => RingTypeOK' /\ [Mailbox!MailNext]_(Mailbox!mailVars)
<1> SUFFICES ASSUME RingTypeOK, [RingNext]_ringVars
             PROVE  RingTypeOK' /\ (Mailbox!MailNext \/ UNCHANGED <<Contents, msg, drops>>)
  BY DEF Mailbox!mailVars
<1>1. ASSUME NEW m \in Messages, Send(m)
      PROVE  RingTypeOK' /\ Mailbox!MailNext
  BY <1>1, SendStep DEF Mailbox!MailNext
<1>2. CASE Dequeue \/ ReceiveNone
  BY <1>2, ReceiveStep DEF Mailbox!MailNext
<1>3. CASE UNCHANGED ringVars
  BY <1>3 DEF ringVars, ring, RingTypeOK, Contents
<1>4. QED
  BY <1>1, <1>2, <1>3 DEF RingNext

-----------------------------------------------------------------------------
\* Every slot between the indices holds a message, for every size of the ring.
THEOREM RingTypeCorrect == RingSpec => []RingTypeOK
<1>1. QED
  BY InitEmpty, RingStep, PTL DEF RingSpec

\* The array and its two indices are a bounded FIFO mailbox: each message is
\* delivered once, in order, and a message is turned away, which the ghost drops
\* counts, only when it finds IPC_QUEUE_SIZE - 1 others queued.
THEOREM ImplementsMailbox == RingSpec => MailboxSpec
<1>1. RingStart => Mailbox!MailInit
  BY InitEmpty DEF RingStart, Mailbox!MailInit
<1>2. QED
  BY <1>1, InitEmpty, RingStep, PTL DEF RingSpec, MailboxSpec, Mailbox!MailSpec
=============================================================================
