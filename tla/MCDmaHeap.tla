----------------------------- MODULE MCDmaHeap -----------------------------
(* A small heap with every kind of caller.                                   *)
EXTENDS DmaHeap, Bitwise

SmallDisplays == {<<3, 3>>, <<8, 8>>}
MCLayouts == {Use(24, 8), Use(5, 1)}

\* For the powers of two that are asked for, rounding up is the code's
\* (addr + align - 1) & ~(align - 1).
ASSUME \A addr \in 0..70, align \in {1, 2, 4, 8, 16} :
  AlignUp(addr, align) = (addr + align - 1) - ((addr + align - 1) & (align - 1))
=============================================================================
