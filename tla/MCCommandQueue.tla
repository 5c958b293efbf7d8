--------------------------- MODULE MCCommandQueue ---------------------------
(* Tables of four descriptors, so that a chain of three wraps and meets what *)
(* earlier chains left, and counters of eight values, which wrap as well.    *)
EXTENDS CommandQueue
=============================================================================
