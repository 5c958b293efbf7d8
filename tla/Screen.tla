------------------------------- MODULE Screen -------------------------------
(***************************************************************************)
(* From the start of the machine to the terminal (kernel/main.c,           *)
(* gpu_init): the translation tables are made, the screen's memory is put  *)
(* into the window at 0x20000000 with the size the display reports, and    *)
(* the shell, in EL0, draws through the window as if the display had its   *)
(* own fixed size.  An access that is not mapped for it halts the machine  *)
(* (fatal_exception_handler).                                              *)
(***************************************************************************)
EXTENDS PageTables, Terminal

CONSTANTS
  Displays,    \* sizes a display may report, in characters; <<0, 0>> is unknown
  fb_phys,     \* page that bump_allocate finds for the screen's memory
  MaxKeys      \* bound: keys typed

ASSUME DisplayAssumption == Displays \subseteq Nat \X Nat /\ fb_phys \in Nat \ {0}

VARIABLES
  pc,          \* "reset", "probe", "drop", "run" or "halted"
  fb_pages,    \* pages of the screen's memory, 0 without a display
  display,     \* ghost: the size that the display reported
  typed        \* ghost: keys typed

boot == <<pc, fb_pages, display>>
vars == <<tables, termVars, boot, typed>>

\* Four bytes a pixel, 256 pixels a character, 4096 bytes a page
Pages(w, h) == (w * h + 3) \div 4
\* What the shell draws on fits in the two tables of the window (1000 pages).
ASSUME WindowAssumption == Pages(COLS, ROWS) <= 2 * ENTRIES

\* The tables before mmu_init_tables: nothing is translated.
Init ==
  /\ l2 = <<>> /\ l3 = [mmio |-> NoPages, fb_0 |-> NoPages, fb_1 |-> NoPages]
  /\ TermInit
  /\ pc = "reset" /\ fb_pages = 0 /\ display = <<>> /\ typed = 0

InitTables ==
  /\ pc = "reset" /\ pc' = "probe"
  /\ mmu_init_tables
  /\ UNCHANGED <<termVars, fb_pages, display, typed>>

\* A display of unknown size is taken for one of 1280 by 800.
DisplayUnknown(d) == <<0, 0>>  \* mutant: no default
Display(d) == IF d[1] = 0 \/ d[2] = 0 THEN <<COLS, ROWS>> ELSE d

gpu_init ==
  /\ pc = "probe" /\ pc' = "drop"
  /\ \E d \in Displays :
       /\ display' = d
       /\ fb_pages' = Pages(Display(d)[1], Display(d)[2])
       /\ mmu_map_framebuffer(fb_phys, fb_pages')
  /\ UNCHANGED <<termVars, typed>>

NoDisplay ==
  /\ pc = "probe" /\ pc' = "drop"
  /\ UNCHANGED <<tables, termVars, fb_pages, display, typed>>

\* The first thing the shell does is to paint over its whole screen.
Drawn == {WINDOW * ENTRIES + i : i \in 0..(Pages(COLS, ROWS) - 1)}

ShellStart ==
  /\ pc = "drop"
  /\ IF \A p \in Drawn : El0May(p) THEN pc' = "run" /\ Start
                                   ELSE pc' = "halted" /\ UNCHANGED termVars
  /\ UNCHANGED <<tables, fb_pages, display, typed>>

HandleKey ==
  /\ pc = "run" /\ typed < MaxKeys
  /\ Key
  /\ typed' = typed + 1
  /\ UNCHANGED <<tables, boot>>

Next == InitTables \/ gpu_init \/ NoDisplay \/ ShellStart \/ HandleKey
Spec == Init /\ [][Next]_vars

-----------------------------------------------------------------------------
(* Properties *)

\* EL0 reaches its own region and the pages of the screen's memory, and no
\* page of the kernel, its tables, the devices or the rest of the DMA heap;
\* every page outside the window is translated to itself, which the drivers
\* rely on as they hand their pointers to devices (virtio.c 92, 145, 351).
Confined ==
  pc # "reset" =>
    \A p \in MappedPages :
      /\ El0May(p) <=> \/ el0_start <= p /\ p < el0_end
                       \/ InWindow(p)
      /\ Physical(p) \in IF InWindow(p) THEN fb_phys..(fb_phys + fb_pages - 1) ELSE {p}

\* The shell runs unless there is no display or one that says it needs less
\* memory than the shell paints; then each page it draws on is the page of the
\* screen's memory at the same place.  (With rows of another length than the
\* shell's, the display shows a skewed picture: main.c 275-277.)
DrawsOnScreen ==
  pc \in {"run", "halted"} =>
    /\ pc = "run" <=> /\ display # <<>>
                      /\ \/ display[1] = 0 \/ display[2] = 0
                         \/ Pages(display[1], display[2]) >= Pages(COLS, ROWS)
    /\ pc = "run" => \A p \in Drawn : Physical(p) = fb_phys + (p - WINDOW * ENTRIES)
=============================================================================
