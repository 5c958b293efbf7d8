----------------------------- MODULE MCIpcRing -----------------------------
(* The mailbox ring with four slots and three distinguishable messages. *)
EXTENDS IpcRing

CONSTANTS m1, m2, m3
MCMessages == {m1, m2, m3}
=============================================================================
