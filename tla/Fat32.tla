------------------------------- MODULE Fat32 -------------------------------
(***************************************************************************)
(* modules/fs/fat32.c: writing and appending to the files of the root      *)
(* directory, one step per disk access.  The kernel does nothing else in   *)
(* between, but an access may fail and power may be lost.                  *)
(*                                                                         *)
(* A cluster is one sector of SECTOR_SIZE bytes (with larger clusters the  *)
(* code uses the first sector only).  The n-th operation writes the byte   *)
(* [file, n] over and over; Stale is what a free cluster is left with.     *)
(* A write that reports an error but reached the disk is a write that      *)
(* succeeded, since no caller looks at the result.                         *)
(***************************************************************************)
EXTENDS Integers, Sequences, SequencesExt

CONSTANTS
  FAT_ENTRIES,         \* entries of the FAT sector (128 in the code)
  DIR_ENTRIES,         \* entries of the root directory sector (16)
  SECTOR_SIZE,         \* bytes of a sector (512)
  root_dir_cluster,    \* the cluster of the root directory
  max_valid_clusters,  \* the limit of the cycle guard
  Names,               \* file names, as format_fat_name writes them
  Lengths,             \* lengths of the data of an operation
  Disks,               \* what the host may have put on the disk
  MaxOps, MaxFailures  \* bounds: operations; accesses that fail

FREE == 0
EOF == FAT_ENTRIES
Clusters == 2..(FAT_ENTRIES - 1)
Entries == 1..DIR_ENTRIES

Byte(name, n) == [file |-> name, op |-> n]
Stale == Byte("stale", 0)
Zero == Byte("zero", 0)
NoName == {"end", "deleted"}
End == [name |-> "end", clus |-> 0, size |-> 0]

ASSUME GeometryAssumption ==
  /\ FAT_ENTRIES \in Nat /\ FAT_ENTRIES > 2 /\ DIR_ENTRIES \in Nat \ {0}
  /\ root_dir_cluster \in Clusters
  /\ SECTOR_SIZE \in Nat \ {0} /\ max_valid_clusters \in Nat
ASSUME InputAssumption ==
  /\ Names \cap NoName = {}
  /\ Lengths \subseteq 0..SECTOR_SIZE
  /\ MaxOps \in Nat /\ MaxFailures \in Nat

Fat == [0..(FAT_ENTRIES - 1) -> 0..FAT_ENTRIES]
Entry == [name : Names \cup NoName, clus : 0..(FAT_ENTRIES - 1), size : Nat]
Bytes == [file : Names \cup {"stale", "zero"}, op : Nat]
Data == [0..(FAT_ENTRIES - 1) -> [1..SECTOR_SIZE -> Bytes]]
ASSUME DiskAssumption ==
  \A d \in Disks : d.fat \in Fat /\ d.dir \in [Entries -> Entry] /\ d.data \in Data

VARIABLES
  fat, dir, data,   \* the disk: the FAT, the root directory, the clusters
  pc,               \* the disk access the operation does next
  op,               \* its parameters
  clus, file_idx,   \* free_cluster or current_cluster; free_idx or file_idx
  cycle_guard,
  holds,            \* the sector that is in disk_buffer
  write_buffer,
  reply,            \* what SYS_IPC_SEND answered last
  ops, failures,
  fat_suspect,      \* ghost: the host's FAT is unsound, or a write of it failed
  lost_data,        \* ghost: a write of a data sector failed
  overrun           \* ghost: an append to a file whose last sector was full

disk == <<fat, dir, data>>
local == <<op, clus, file_idx, cycle_guard, holds, write_buffer>>
ghosts == <<ops, failures, fat_suspect, lost_data, overrun>>
vars == <<fat, dir, data, pc, op, clus, file_idx, cycle_guard, holds,
          write_buffer, reply, ops, failures, fat_suspect, lost_data, overrun>>

\* The entries of a directory that are files.
LiveIn(d) == {i \in Entries : d[i].name \in Names}

\* The parts of a sound FAT: f is the FAT, d the directory, L its live entries.
\* The clusters that files start with, and those they go on with, are in use,
\* and no cluster is part of two files or of a file and the root directory.
HeadsInUse(f, d, L) == \A i \in L : d[i].clus \in Clusters /\ f[d[i].clus] # FREE
HeadsDistinct(d, L) == \A i, j \in L : d[i].clus = d[j].clus => i = j
LinksInUse(f) == \A c \in Clusters : f[c] \in Clusters => f[f[c]] # FREE
LinksDistinct(f) ==
  \A b, c \in Clusters : (f[b] \in Clusters /\ f[b] = f[c]) => b = c
HeadsNotLinked(f, d, L) == \A c \in Clusters : \A i \in L : f[c] # d[i].clus
RootAlone(f, d, L) ==
  /\ f[root_dir_cluster] # FREE
  /\ \A c \in Clusters : f[c] # root_dir_cluster
  /\ \A i \in L : d[i].clus # root_dir_cluster
Consistent(f, d, L) ==
  /\ HeadsInUse(f, d, L) /\ HeadsDistinct(d, L)
  /\ LinksInUse(f) /\ LinksDistinct(f)
  /\ HeadsNotLinked(f, d, L) /\ RootAlone(f, d, L)

\* Where a scan of the entries stops.
LastOf(x, S) == x \in S /\ \A y \in S : y <= x  \* mutant
FirstOf(x, S) == x \in S /\ \A y \in S : x <= y

NoOp == [kind |-> "none", name |-> "end", len |-> 0]
NoData == <<>>

Init ==
  /\ \E d \in Disks : fat = d.fat /\ dir = d.dir /\ data = d.data
  /\ pc = "idle" /\ op = NoOp /\ clus = 0 /\ file_idx = 1 /\ cycle_guard = 0
  /\ holds = "none" /\ write_buffer = NoData /\ reply = "none"
  /\ ops = 0 /\ failures = 0
  /\ fat_suspect = ~Consistent(fat, dir, LiveIn(dir))
  /\ lost_data = FALSE /\ overrun = FALSE

Payload == [i \in 1..op.len |-> Byte(op.name, ops)]

-----------------------------------------------------------------------------
(* Calls, disk accesses and their failure *)

\* fs_write_file_content for FS_WRITE_REQ, fs_append_file_content for the
\* watcher's synchronisation.
Call(kind, first) ==
  /\ pc = "idle" /\ ops < MaxOps
  /\ \E name \in Names, len \in Lengths : op' = [kind |-> kind, name |-> name, len |-> len]
  /\ ops' = ops + 1
  /\ pc' = first /\ reply' = "none"
  /\ UNCHANGED <<disk, clus, file_idx, cycle_guard, holds, write_buffer,
                 failures, fat_suspect, lost_data, overrun>>

fs_write_file_content == Call("write", "find_cluster")
fs_append_file_content == Call("append", "find_file")

\* However the operation ends, the caller answers in the same way.
Return ==
  /\ pc' = "idle"
  /\ reply' = IF op.kind = "write" THEN "committed" ELSE "persisted"

Fails == failures < MaxFailures /\ failures' = failures + 1

\* A sector cannot be read: the operation returns.
ReadFails ==
  /\ pc \in {"find_cluster", "find_slot", "find_file", "load_fat", "load_last", "reload_dir"}
  /\ Fails
  /\ Return
  /\ UNCHANGED <<disk, local, ops, fat_suspect, lost_data, overrun>>

\* virtio_blk_read_sector into disk_buffer.
Load(sector) == holds' = sector

-----------------------------------------------------------------------------
(* fs_write_file_content *)

FreeClustersLoose == {c \in Clusters : fat[c] \in {FREE, EOF}}  \* mutant
FreeClusters == {c \in Clusters : fat[c] = FREE}

\* The FAT is read and searched; no free cluster ends the operation.
FindCluster ==
  /\ pc = "find_cluster"
  /\ Load("fat")
  /\ \/ FreeClusters = {} /\ Return /\ UNCHANGED clus
     \/ \E c \in Clusters :
          FirstOf(c, FreeClusters) /\ clus' = c /\ pc' = "record" /\ UNCHANGED reply
  /\ UNCHANGED <<disk, op, file_idx, cycle_guard, write_buffer, ghosts>>

\* The FAT is written back with the cluster marked as the end of a file.
RecordCluster ==
  /\ pc = "record"
  /\ \/ /\ fat' = [fat EXCEPT ![clus] = EOF]
        /\ UNCHANGED <<failures, fat_suspect>>
     \/ Fails /\ fat_suspect' = TRUE /\ UNCHANGED fat
  /\ write_buffer' = [i \in 1..SECTOR_SIZE |-> IF i <= op.len THEN Payload[i] ELSE Zero]
  /\ pc' = "fill"
  /\ UNCHANGED <<dir, data, op, clus, file_idx, cycle_guard, holds, reply, ops, lost_data, overrun>>

WriteData ==
  /\ \/ data' = [data EXCEPT ![clus] = write_buffer] /\ UNCHANGED <<failures, lost_data>>
     \/ Fails /\ lost_data' = TRUE /\ UNCHANGED data
  /\ UNCHANGED <<fat, dir, local, reply, ops, fat_suspect, overrun>>

FillCluster == pc = "fill" /\ WriteData /\ pc' = "find_slot"

FreeSlots == {i \in Entries : dir[i].name \in NoName}

\* The directory is read and searched; a full one ends the operation.
FindSlot ==
  /\ pc = "find_slot"
  /\ Load("dir")
  /\ \/ FreeSlots = {} /\ Return /\ UNCHANGED file_idx
     \/ \E i \in Entries :
          FirstOf(i, FreeSlots) /\ file_idx' = i /\ pc' = "enter" /\ UNCHANGED reply
  /\ UNCHANGED <<disk, op, clus, cycle_guard, write_buffer, ghosts>>

WriteDir(entry) ==
  /\ \/ dir' = [dir EXCEPT ![file_idx] = entry] /\ UNCHANGED failures
     \/ Fails /\ UNCHANGED dir
  /\ Return
  /\ UNCHANGED <<fat, data, local, ops, fat_suspect, lost_data, overrun>>

EnterFile ==
  /\ pc = "enter"
  /\ WriteDir([name |-> op.name, clus |-> clus, size |-> op.len])

-----------------------------------------------------------------------------
(* fs_append_file_content *)

Matches(name) == {i \in Entries : dir[i].name = name}

\* A file that does not exist is written instead.
FindFile ==
  /\ pc = "find_file"
  /\ Load("dir")
  /\ \/ Matches(op.name) = {} /\ pc' = "find_cluster" /\ UNCHANGED <<file_idx, clus>>
     \/ \E i \in Entries :
          /\ FirstOf(i, Matches(op.name)) /\ file_idx' = i
          /\ clus' = dir[i].clus /\ pc' = "load_fat"
  /\ UNCHANGED <<disk, op, cycle_guard, write_buffer, reply, ghosts>>

LoadFat ==
  /\ pc = "load_fat"
  /\ Load("fat")
  /\ cycle_guard' = 0
  /\ pc' = "walk"
  /\ UNCHANGED <<disk, op, clus, file_idx, write_buffer, reply, ghosts>>

HasNext == fat[clus] \in Clusters

\* mutant: no cycle guard
WalkUnguarded ==
  /\ pc = "walk" /\ HasNext
  /\ clus' = fat[clus]
  /\ UNCHANGED <<disk, pc, op, file_idx, cycle_guard, holds, write_buffer, reply, ghosts>>

\* One hop of the chain; too many end the operation.
Walk ==
  /\ pc = "walk"
  /\ HasNext
  /\ clus' = fat[clus]
  /\ cycle_guard' = cycle_guard + 1
  /\ IF cycle_guard' > max_valid_clusters THEN Return ELSE UNCHANGED <<pc, reply>>
  /\ UNCHANGED <<disk, op, file_idx, holds, write_buffer, ghosts>>

WalkEnd ==
  /\ pc = "walk"
  /\ ~HasNext
  /\ pc' = "load_last"
  /\ UNCHANGED <<disk, local, reply, ghosts>>

Size == dir[file_idx].size
OffsetZero == 0  \* mutant
Offset == Size % SECTOR_SIZE
SpaceLeft == SECTOR_SIZE - Offset
to_copy_all == op.len  \* mutant: the size grows by what did not fit
to_copy == IF op.len < SpaceLeft THEN op.len ELSE SpaceLeft

\* The last sector is read and extended in write_buffer, at the file's size
\* modulo the sector size: a full last sector is written from its start.
LoadLast ==
  /\ pc = "load_last"
  /\ write_buffer' = [i \in 1..SECTOR_SIZE |->
       IF i - Offset \in 1..to_copy THEN Payload[i - Offset] ELSE data[clus][i]]
  /\ overrun' = (overrun \/ (Size > 0 /\ Size % SECTOR_SIZE = 0))
  /\ pc' = "extend"
  /\ UNCHANGED <<disk, op, clus, file_idx, cycle_guard, holds, reply, ops, failures,
                 fat_suspect, lost_data>>

\* mutant: the directory is not read again
ExtendNoReload == pc = "extend" /\ WriteData /\ pc' = "grow"
Extend == pc = "extend" /\ WriteData /\ pc' = "reload_dir"

ReloadDir ==
  /\ pc = "reload_dir"
  /\ Load("dir")
  /\ pc' = "grow"
  /\ UNCHANGED <<disk, op, clus, file_idx, cycle_guard, write_buffer, reply, ghosts>>

Grow == pc = "grow" /\ WriteDir([dir[file_idx] EXCEPT !.size = Size + to_copy])

-----------------------------------------------------------------------------
(* fs_get_dir_list and fs_read_file_content change nothing but disk_buffer;  *)
(* a failed access leaves it as it was.  What they copy to the caller is     *)
(* left out.                                                                 *)

\* The entries up to the first one never used.
Visible(i) == \A j \in 1..i : dir[j].name # "end"
ReadMatches(name) == {i \in Matches(name) : Visible(i)}

fs_get_dir_list ==
  /\ pc = "idle" /\ Load("dir") /\ reply' = "none"
  /\ UNCHANGED <<disk, pc, op, clus, file_idx, cycle_guard, write_buffer, ghosts>>

\* The first cluster of the file is read if the name is found and has one.
Readable(name) == \E i \in Entries : FirstOf(i, ReadMatches(name)) /\ dir[i].clus # 0

fs_read_file_content ==
  /\ pc = "idle" /\ reply' = "none"
  /\ \E name \in Names :
       \/ ~Readable(name) /\ Load("dir") /\ UNCHANGED failures
       \/ Readable(name) /\ Load("data") /\ UNCHANGED failures
       \/ Readable(name) /\ Load("dir") /\ Fails
  /\ UNCHANGED <<disk, pc, op, clus, file_idx, cycle_guard, write_buffer,
                 ops, fat_suspect, lost_data, overrun>>

-----------------------------------------------------------------------------
\* Power is lost in the middle of an operation.
PowerLoss ==
  /\ pc # "idle"
  /\ pc' = "idle" /\ op' = NoOp /\ clus' = 0 /\ file_idx' = 1 /\ cycle_guard' = 0
  /\ holds' = "none" /\ write_buffer' = NoData /\ reply' = "none"
  /\ UNCHANGED <<disk, ghosts>>

FsStep ==
  \/ FindCluster \/ RecordCluster \/ FillCluster \/ FindSlot \/ EnterFile
  \/ FindFile \/ LoadFat \/ Walk \/ WalkEnd \/ LoadLast \/ Extend \/ ReloadDir \/ Grow

Next ==
  \/ fs_write_file_content \/ fs_append_file_content
  \/ fs_get_dir_list \/ fs_read_file_content
  \/ FsStep \/ ReadFails \/ PowerLoss

Spec == Init /\ [][Next]_vars

\* The operations are straight-line code, and the disk answers.
FairSpec == Spec /\ WF_vars(FsStep)

-----------------------------------------------------------------------------
(* Properties *)

Live == LiveIn(dir)

TypeOK ==
  /\ fat \in Fat /\ dir \in [Entries -> Entry] /\ data \in Data
  /\ pc \in {"fill", "extend"} => write_buffer \in [1..SECTOR_SIZE -> Bytes]
  /\ clus \in 0..(FAT_ENTRIES - 1) /\ file_idx \in Entries
  /\ cycle_guard \in 0..(max_valid_clusters + 1)
  /\ pc \in {"idle", "find_cluster", "record", "fill", "find_slot", "enter", "find_file",
             "load_fat", "walk", "load_last", "extend", "reload_dir", "grow"}
  /\ op \in [kind : {"none", "write", "append"}, name : Names \cup {"end"}, len : Nat]
  /\ holds \in {"none", "fat", "dir", "data"}
  /\ reply \in {"none", "committed", "persisted"}
  /\ ops \in 0..MaxOps /\ failures \in 0..MaxFailures
  /\ fat_suspect \in BOOLEAN /\ lost_data \in BOOLEAN /\ overrun \in BOOLEAN

\* Whatever operations run, fail half-way or are cut short by a loss of power,
\* on a sound disk no cluster comes to belong to two files and no file uses a
\* cluster the FAT calls free: unless a write of the FAT itself failed, which
\* the code ignores.
NoCrossLink == ~fat_suspect => Consistent(fat, dir, Live)

\* The clusters of a file in order, and its bytes, as a FAT32 driver reads them:
\* f is the FAT, b the data, e the entry of the file.
Hop(f, c) == IF c \in Clusters THEN f[c] ELSE EOF
Chain(f, start) ==
  LET chain[k \in 0..FAT_ENTRIES] == IF k = 0 THEN start ELSE Hop(f, chain[k - 1])
  IN chain
ByteOf(f, b, e, p) ==
  LET c == Chain(f, e.clus)[p \div SECTOR_SIZE]
  IN  IF c \in Clusters THEN b[c][(p % SECTOR_SIZE) + 1] ELSE Stale
Contents(i) == [p \in 1..dir[i].size |-> ByteOf(fat, data, dir[i], p - 1)]

\* At every moment, a crash included, the bytes of a file are bytes written to
\* that file: neither what an earlier owner left in the cluster nor padding.
NoForeignBytes ==
  ~(fat_suspect \/ lost_data \/ overrun) =>
    \A i \in Live : \A p \in 1..dir[i].size : Contents(i)[p].file = dir[i].name

\* No step takes a byte from any file: what was there stays as a prefix of what
\* is there afterwards, until an append meets a file whose last sector is full.
FilesOnlyGrow ==
  [][~(fat_suspect' \/ overrun') =>
       \A i \in Live : dir'[i].name = dir[i].name /\ IsPrefix(Contents(i), Contents(i)')]_vars

\* fs_read_file_content and fs_get_dir_list stop at the first entry never used,
\* fs_append_file_content does not: they find the same files all the same.
LookupsAgree == \A i \in Live : Visible(i)

\* What is written back to a sector was read from that sector, although the
\* FAT and the directory share disk_buffer.
WritesBackWhatItRead ==
  [][(fat' # fat => holds = "fat") /\ (dir' # dir => holds = "dir")]_vars

\* Every operation returns, on a circular chain as well.
FsReturns == (pc # "idle") ~> (pc = "idle")

-----------------------------------------------------------------------------
(* What the messages and comments of the repository promise *)

\* "Load existing last sector, append data, and write back": an append adds
\* bytes and changes none of those before.
AppendOnlyAdds ==
  [][\A i \in Live : dir'[i].name = dir[i].name /\ IsPrefix(Contents(i), Contents(i)')]_vars

-----------------------------------------------------------------------------
(* The inductive invariant behind the properties, proved in Fat32_proofs.    *)

\* The disks a host writes: nothing is behind the end of the directory.
EndedDirs ==
  \A d \in Disks : \A i \in LiveIn(d.dir) : \A j \in 1..i : d.dir[j].name # "end"

\* A file has the clusters that its size needs, and one if it is empty.
LastIndex(e) == IF e.size = 0 THEN 0 ELSE (e.size - 1) \div SECTOR_SIZE
Laid(f, e) ==
  /\ LastIndex(e) <= FAT_ENTRIES
  /\ \A k \in 0..LastIndex(e) : Chain(f, e.clus)[k] \in Clusters
  /\ f[Chain(f, e.clus)[LastIndex(e)]] \notin Clusters
Own(f, b, e) == \A p \in 0..(e.size - 1) : ByteOf(f, b, e, p).file = e.name

\* The files a host writes to a disk with a sound FAT: as long as their chains
\* say, and, as a label for its bytes, its own.
HostFiles ==
  \A d \in Disks : Consistent(d.fat, d.dir, LiveIn(d.dir)) =>
    \A i \in LiveIn(d.dir) : Laid(d.fat, d.dir[i]) /\ Own(d.fat, d.data, d.dir[i])

\* A cluster taken but not yet entered: in use, and not part of anything.
Unclaimed(f, d, L, c) ==
  /\ c \in Clusters /\ c # root_dir_cluster /\ f[c] # FREE /\ f[c] \notin Clusters
  /\ \A b \in Clusters : f[b] # c
  /\ \A i \in L : d[i].clus # c

ClusterInv ==
  ~fat_suspect =>
    /\ Consistent(fat, dir, Live)
    /\ pc = "record" => clus \in Clusters /\ fat[clus] = FREE
    /\ pc \in {"fill", "find_slot", "enter"} => Unclaimed(fat, dir, Live, clus)

SlotInv ==
  /\ LookupsAgree
  /\ pc = "enter" => FirstOf(file_idx, FreeSlots)

BufferInv ==
  /\ pc = "record" => holds = "fat"
  /\ pc \in {"enter", "grow"} => holds = "dir"

FsInv ==
  /\ TypeOK /\ ClusterInv /\ SlotInv /\ BufferInv
  /\ pc # "idle" => op.name \in Names
  /\ pc = "walk" => cycle_guard <= max_valid_clusters

\* The append in progress: the file it found, and where it is in its chain.
AppendPcs == {"load_fat", "walk", "load_last", "extend", "reload_dir", "grow"}
FileFound == file_idx \in Live /\ dir[file_idx].name = op.name
Found == dir[file_idx]
InPlace ==
  /\ pc = "load_fat" => clus = Found.clus
  /\ pc = "walk" => \E k \in 0..LastIndex(Found) : clus = Chain(fat, Found.clus)[k]
  /\ pc \in {"load_last", "extend", "reload_dir", "grow"} =>
       clus = Chain(fat, Found.clus)[LastIndex(Found)]
  /\ pc \in {"extend", "reload_dir", "grow"} => Size = 0 \/ Size % SECTOR_SIZE # 0

\* The bytes an append writes, and those it writes back.
LayoutInv ==
  /\ pc \in AppendPcs => FileFound
  /\ op.len \in 0..SECTOR_SIZE
  /\ ~(fat_suspect \/ overrun) =>
       /\ \A i \in Live : Laid(fat, dir[i])
       /\ InPlace
       /\ pc = "extend" => \A q \in 1..Offset : write_buffer[q] = data[clus][q]

\* Where the bytes of the operation in progress are, from the moment they are
\* in the buffer to the one at which the directory speaks of them.
PayloadAt(sector) ==
  IF pc \in {"fill", "find_slot", "enter"}
  THEN \A q \in 1..op.len : sector[q].file = op.name
  ELSE \A q \in (Offset + 1)..(Offset + to_copy) : sector[q].file = op.name
OwnInv ==
  ~(fat_suspect \/ lost_data \/ overrun) =>
    /\ \A i \in Live : Own(fat, data, dir[i])
    /\ pc \in {"fill", "extend"} => PayloadAt(write_buffer)
    /\ pc \in {"find_slot", "enter", "reload_dir", "grow"} => PayloadAt(data[clus])

FilesInv == FsInv /\ LayoutInv /\ OwnInv
=============================================================================
