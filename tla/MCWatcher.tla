----------------------------- MODULE MCWatcher -----------------------------
(* Small instances of the watcher for TLC. *)
EXTENDS Watcher

MCAccess == {"FS_READ"}
=============================================================================
