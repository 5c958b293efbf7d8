------------------------------ MODULE MCFat32 ------------------------------
(* Six FAT entries, so clusters 2..5, three directory entries and sectors of *)
(* three bytes.  The host's disk is fresh, or has a deleted entry and a log  *)
(* of two clusters, which may be linked in a circle.                         *)
EXTENDS Fat32

Sector(b) == [i \in 1..SECTOR_SIZE |-> b]
FreshData == [c \in 0..(FAT_ENTRIES - 1) |-> Sector(Stale)]
Deleted == [name |-> "deleted", clus |-> 3, size |-> 1]
HostFile(name, c, n) == [name |-> name, clus |-> c, size |-> n]
HostLog == Byte("LOG", 0)

Fresh == [fat |-> (0 :> 6 @@ 1 :> 6 @@ 2 :> 6 @@ 3 :> 0 @@ 4 :> 0 @@ 5 :> 0),
          dir |-> <<End, End, End>>,
          data |-> FreshData]
Used == [fat |-> (0 :> 6 @@ 1 :> 6 @@ 2 :> 6 @@ 3 :> 0 @@ 4 :> 5 @@ 5 :> 6),
         dir |-> <<Deleted, HostFile("LOG", 4, 4), End>>,
         data |-> [FreshData EXCEPT ![4] = Sector(HostLog), ![5] = <<HostLog, Stale, Stale>>]]
Circular == [Used EXCEPT !.fat = [@ EXCEPT ![5] = 4]]

HostDisks == {Fresh, Used, Circular}
FreshDisk == {Fresh}

\* What the proofs suppose of the disks
ASSUME HostAssumption == EndedDirs /\ HostFiles
=============================================================================
