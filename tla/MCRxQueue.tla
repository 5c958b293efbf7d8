----------------------------- MODULE MCRxQueue -----------------------------
(* Two buffers, indices that wrap after two rounds, events of two kinds.     *)
EXTENDS RxQueue
CONSTANTS e1, e2, none
MCEvents == {e1, e2}
=============================================================================
