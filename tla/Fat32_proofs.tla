---------------------------- MODULE Fat32_proofs ----------------------------
(* Proofs about Fat32, for every geometry, every set of names and every disk  *)
(* the host may hand over, in whose directory nothing is behind the end.      *)
EXTENDS Fat32, FiniteSetTheorems, SequenceTheorems, TLAPS

USE DEF FREE, EOF

-----------------------------------------------------------------------------
(* The two writes that change what belongs to whom *)

\* Marking a free cluster keeps the FAT sound and leaves the cluster unclaimed.
LEMMA RecordKeeps ==
  ASSUME NEW f \in Fat, NEW d \in [Entries -> Entry], NEW L, L \subseteq Entries,
         NEW c \in Clusters, f[c] = FREE, Consistent(f, d, L)
  PROVE  /\ [f EXCEPT ![c] = EOF] \in Fat
         /\ Consistent([f EXCEPT ![c] = EOF], d, L)
         /\ Unclaimed([f EXCEPT ![c] = EOF], d, L, c)
  <1> DEFINE g == [f EXCEPT ![c] = EOF]
  <1>1. /\ Clusters \subseteq 0..(FAT_ENTRIES - 1) /\ EOF \in 0..FAT_ENTRIES
        /\ EOF \notin Clusters /\ FREE \notin Clusters /\ EOF # FREE
    BY GeometryAssumption DEF Clusters
  <1>2. g \in Fat
    BY <1>1 DEF Fat
  <1>3. g[c] = EOF /\ \A b \in Clusters \ {c} : g[b] = f[b]
    BY <1>1 DEF Fat
  <1> HIDE DEF g
  <1>4. c # root_dir_cluster /\ (\A b \in Clusters : f[b] # c) /\ (\A i \in L : d[i].clus # c)
    BY DEF Consistent, RootAlone, LinksInUse, HeadsInUse
  <1>5. HeadsInUse(g, d, L)
    BY <1>3, <1>4 DEF Consistent, HeadsInUse
  <1>6. LinksInUse(g) /\ LinksDistinct(g)
    BY <1>1, <1>3, <1>4 DEF Consistent, LinksInUse, LinksDistinct
  <1>7. HeadsNotLinked(g, d, L)
    BY <1>1, <1>3 DEF Consistent, HeadsNotLinked, HeadsInUse
  <1>8. RootAlone(g, d, L)
    BY <1>1, <1>3, <1>4, GeometryAssumption DEF Consistent, RootAlone
  <1>9. Consistent(g, d, L) /\ Unclaimed(g, d, L, c)
    BY <1>1, <1>3, <1>4, <1>5, <1>6, <1>7, <1>8 DEF Consistent, Unclaimed
  <1> QED
    BY <1>2, <1>9 DEF g

\* Entering a file that starts with an unclaimed cluster keeps the FAT sound.
LEMMA EnterKeeps ==
  ASSUME NEW f \in Fat, NEW d \in [Entries -> Entry], NEW L, L \subseteq Entries,
         NEW e \in [Entries -> Entry], NEW k \in Entries,
         k \notin L, \A i \in Entries \ {k} : e[i] = d[i],
         Consistent(f, d, L), Unclaimed(f, d, L, e[k].clus)
  PROVE  Consistent(f, e, L \cup {k})
  <1>1. HeadsInUse(f, e, L \cup {k}) /\ HeadsDistinct(e, L \cup {k})
    BY DEF Consistent, HeadsInUse, HeadsDistinct, Unclaimed
  <1>2. HeadsNotLinked(f, e, L \cup {k}) /\ RootAlone(f, e, L \cup {k})
    BY DEF Consistent, HeadsNotLinked, RootAlone, Unclaimed
  <1> QED
    BY <1>1, <1>2 DEF Consistent

\* Only where the files start matters.
LEMMA SameHeads ==
  ASSUME NEW f, NEW d, NEW e, NEW L, \A i \in L : e[i].clus = d[i].clus, Consistent(f, d, L)
  PROVE  Consistent(f, e, L)
  BY DEF Consistent, HeadsInUse, HeadsDistinct, HeadsNotLinked, RootAlone

-----------------------------------------------------------------------------
(* The invariant *)

LEMMA InitInv == ASSUME EndedDirs, Init PROVE FsInv
  <1>1. PICK d \in Disks : fat = d.fat /\ dir = d.dir /\ data = d.data
    BY DEF Init
  <1>2. fat \in Fat /\ dir \in [Entries -> Entry] /\ data \in Data
    BY <1>1, DiskAssumption
  <1>3. LookupsAgree
    BY <1>1 DEF EndedDirs, LookupsAgree, Visible, Live
  <1>4. fat_suspect \in BOOLEAN /\ (~fat_suspect => Consistent(fat, dir, Live))
    BY Zenon DEF Init, Live
  <1>5. TypeOK
    <2>1. /\ 0 \in 0..(FAT_ENTRIES - 1) /\ 1 \in Entries
          /\ 0 \in 0..(max_valid_clusters + 1) /\ 0 \in 0..MaxOps /\ 0 \in 0..MaxFailures
      BY GeometryAssumption, InputAssumption DEF Entries
    <2>2. NoOp \in [kind : {"none", "write", "append"}, name : Names \cup {"end"}, len : Nat]
      BY DEF NoOp
    <2>3. /\ pc = "idle" /\ op = NoOp /\ clus = 0 /\ file_idx = 1 /\ cycle_guard = 0
          /\ holds = "none" /\ write_buffer = NoData /\ reply = "none"
          /\ ops = 0 /\ failures = 0 /\ lost_data = FALSE /\ overrun = FALSE
      BY DEF Init
    <2> QED
      BY <1>2, <1>4, <2>1, <2>2, <2>3 DEF TypeOK
  <1> QED
    BY <1>3, <1>4, <1>5 DEF FsInv, ClusterInv, SlotInv, BufferInv, Init

\* The steps that write neither the FAT nor the directory keep what is said of
\* them, whatever they do to the rest.
LEMMA DiskKept ==
  ASSUME FsInv, UNCHANGED <<fat, dir, fat_suspect>>
  PROVE  /\ Live' = Live /\ LookupsAgree' /\ FreeSlots' = FreeSlots
         /\ ~fat_suspect' => Consistent(fat, dir, Live)'
  <1>1. Live' = Live /\ FreeSlots' = FreeSlots
    BY DEF Live, FreeSlots
  <1>2. LookupsAgree'
    BY <1>1 DEF FsInv, SlotInv, LookupsAgree, Visible
  <1>3. ~fat_suspect' => Consistent(fat, dir, Live)'
    BY <1>1 DEF FsInv, ClusterInv, Consistent, HeadsInUse, HeadsDistinct,
                LinksInUse, LinksDistinct, HeadsNotLinked, RootAlone
  <1> QED
    BY <1>1, <1>2, <1>3

\* A step that writes neither, and is not in the middle of entering a file.
LEMMA CalmStep ==
  ASSUME FsInv, UNCHANGED <<fat, dir, fat_suspect>>, TypeOK',
         pc' \notin {"record", "fill", "find_slot", "enter"},
         pc' = "grow" => holds' = "dir",
         pc' # "idle" => op'.name \in Names,
         pc' = "walk" => cycle_guard' <= max_valid_clusters
  PROVE  FsInv'
  BY DiskKept DEF FsInv, ClusterInv, SlotInv, BufferInv

LEMMA ReturnTypes ==
  ASSUME Return
  PROVE  pc' = "idle" /\ reply' \in {"none", "committed", "persisted"}
  BY DEF Return

LEMMA FailsTypes ==
  ASSUME TypeOK, Fails
  PROVE  failures' \in 0..MaxFailures
  BY InputAssumption DEF TypeOK, Fails

LEMMA CallKeeps ==
  ASSUME FsInv, fs_write_file_content \/ fs_append_file_content
  PROVE  FsInv'
  <1>1. PICK kind \in {"write", "append"}, first \in {"find_cluster", "find_file"} :
          Call(kind, first)
    BY DEF fs_write_file_content, fs_append_file_content
  <1>2. PICK name \in Names, len \in Lengths : op' = [kind |-> kind, name |-> name, len |-> len]
    BY <1>1 DEF Call
  <1>3. ops' \in 0..MaxOps
    BY <1>1, InputAssumption DEF Call, FsInv, TypeOK
  <1>4. op' \in [kind : {"none", "write", "append"}, name : Names \cup {"end"}, len : Nat]
        /\ op'.name \in Names
    BY <1>2, InputAssumption
  <1>5. pc' = first /\ reply' = "none"
        /\ UNCHANGED <<disk, clus, file_idx, cycle_guard, holds, write_buffer,
                       failures, fat_suspect, lost_data, overrun>>
    BY <1>1 DEF Call
  <1>6. TypeOK'
    BY <1>3, <1>4, <1>5 DEF FsInv, TypeOK, disk
  <1> QED
    BY <1>4, <1>5, <1>6, CalmStep DEF disk

LEMMA ReadFailsKeeps ==
  ASSUME FsInv, ReadFails
  PROVE  FsInv'
  <1>1. pc' = "idle" /\ reply' \in {"none", "committed", "persisted"}
        /\ failures' \in 0..MaxFailures
        /\ UNCHANGED <<disk, local, ops, fat_suspect, lost_data, overrun>>
    BY ReturnTypes, FailsTypes DEF ReadFails, FsInv
  <1>2. TypeOK'
    BY <1>1 DEF FsInv, TypeOK, disk, local
  <1> QED
    BY <1>1, <1>2, CalmStep DEF disk

LEMMA FindClusterKeeps ==
  ASSUME FsInv, FindCluster
  PROVE  FsInv'
  <1>1. /\ pc = "find_cluster" /\ holds' = "fat"
        /\ UNCHANGED <<disk, op, file_idx, cycle_guard, write_buffer, ghosts>>
    BY DEF FindCluster, Load
  <1>2. CASE Return /\ UNCHANGED clus
    <2>1. TypeOK' /\ pc' = "idle"
      BY <1>1, <1>2, ReturnTypes DEF FsInv, TypeOK, disk, ghosts
    <2> QED
      BY <1>1, <2>1, CalmStep DEF disk, ghosts
  <1>3. CASE \E c \in Clusters :
          FirstOf(c, FreeClusters) /\ clus' = c /\ pc' = "record" /\ UNCHANGED reply
    <2>1. clus' \in Clusters /\ fat[clus'] = FREE /\ pc' = "record" /\ reply' = reply
      BY <1>3 DEF FirstOf, FreeClusters
    <2>2. clus' \in 0..(FAT_ENTRIES - 1)
      BY <2>1, GeometryAssumption DEF Clusters
    <2>3. TypeOK'
      BY <1>1, <2>1, <2>2 DEF FsInv, TypeOK, disk, ghosts
    <2>4. UNCHANGED <<fat, dir, fat_suspect>>
      BY <1>1 DEF disk, ghosts
    <2> QED
      BY <1>1, <2>1, <2>3, <2>4, DiskKept DEF FsInv, ClusterInv, SlotInv, BufferInv
  <1> QED
    BY <1>2, <1>3 DEF FindCluster

\* How much an append copies.
LEMMA CopyTypes ==
  ASSUME FsInv
  PROVE  /\ Size \in Nat /\ Offset \in 0..(SECTOR_SIZE - 1)
         /\ to_copy \in Nat /\ to_copy <= op.len /\ Offset + to_copy <= SECTOR_SIZE
  <1>1. Size \in Nat /\ op.len \in Nat
    BY DEF FsInv, TypeOK, Size, Entry
  <1>2. Offset \in 0..(SECTOR_SIZE - 1)
    BY <1>1, GeometryAssumption, SMTT(30) DEF Offset
  <1> QED
    BY <1>1, <1>2, GeometryAssumption DEF to_copy, SpaceLeft

\* What the operation in progress writes are bytes.
LEMMA PayloadBytes ==
  ASSUME FsInv, pc # "idle"
  PROVE  /\ Zero \in Bytes
         /\ \A i \in 1..op.len : Payload[i] = Byte(op.name, ops) /\ Payload[i] \in Bytes
  BY DEF FsInv, TypeOK, Payload, Byte, Bytes, Zero

LEMMA RecordBuffer ==
  ASSUME FsInv, RecordCluster
  PROVE  write_buffer' \in [1..SECTOR_SIZE -> Bytes]
  <1>1. write_buffer' = [i \in 1..SECTOR_SIZE |-> IF i <= op.len THEN Payload[i] ELSE Zero]
        /\ pc # "idle"
    BY DEF RecordCluster
  <1>2. \A i \in 1..SECTOR_SIZE : i <= op.len => i \in 1..op.len
    BY GeometryAssumption DEF FsInv, TypeOK
  <1> QED
    BY <1>1, <1>2, PayloadBytes

LEMMA LoadBuffer ==
  ASSUME FsInv, LoadLast
  PROVE  write_buffer' \in [1..SECTOR_SIZE -> Bytes]
  <1>1. /\ write_buffer' = [i \in 1..SECTOR_SIZE |->
              IF i - Offset \in 1..to_copy THEN Payload[i - Offset] ELSE data[clus][i]]
        /\ pc # "idle"
    BY DEF LoadLast
  <1>2. to_copy \in Nat /\ to_copy <= op.len /\ op.len \in Nat
    BY CopyTypes DEF FsInv, TypeOK
  <1>3. \A k \in 1..to_copy : k \in 1..op.len
    BY <1>2
  <1>4. \A i \in 1..SECTOR_SIZE : data[clus][i] \in Bytes
    BY DEF FsInv, TypeOK, Data
  <1> QED
    BY <1>1, <1>3, <1>4, PayloadBytes

LEMMA RecordClusterKeeps ==
  ASSUME FsInv, RecordCluster
  PROVE  FsInv'
  <1>1. /\ pc = "record" /\ pc' = "fill"
        /\ UNCHANGED <<dir, data, op, clus, file_idx, cycle_guard, holds, reply, ops,
                       lost_data, overrun>>
    BY DEF RecordCluster
  <1>2. Live' = Live /\ LookupsAgree'
    BY <1>1 DEF Live, FsInv, SlotInv, LookupsAgree, Visible
  <1>3. CASE fat' = [fat EXCEPT ![clus] = EOF] /\ UNCHANGED <<failures, fat_suspect>>
    <2>1. fat' \in Fat
      <3>1. EOF \in 0..FAT_ENTRIES
        BY GeometryAssumption
      <3> QED
        BY <1>3, <3>1 DEF FsInv, TypeOK, Fat
    <2>2. TypeOK'
      BY <1>1, <1>3, <2>1, RecordBuffer DEF FsInv, TypeOK
    <2>3. ~fat_suspect => Consistent(fat', dir, Live) /\ Unclaimed(fat', dir, Live, clus)
      BY <1>1, <1>3, RecordKeeps DEF FsInv, TypeOK, ClusterInv, Live, LiveIn
    <2>4. ClusterInv'
      BY <1>1, <1>2, <1>3, <2>3
      DEF ClusterInv, Consistent, HeadsInUse, HeadsDistinct, LinksInUse,
          LinksDistinct, HeadsNotLinked, RootAlone, Unclaimed
    <2> QED
      BY <1>1, <1>2, <2>2, <2>4 DEF FsInv, SlotInv, BufferInv
  <1>4. CASE Fails /\ fat_suspect' = TRUE /\ UNCHANGED fat
    <2>1. TypeOK'
      BY <1>1, <1>4, FailsTypes, RecordBuffer DEF FsInv, TypeOK
    <2> QED
      BY <1>1, <1>2, <1>4, <2>1 DEF FsInv, ClusterInv, SlotInv, BufferInv
  <1> QED
    BY <1>3, <1>4 DEF RecordCluster

LEMMA WriteDataKeeps ==
  ASSUME TypeOK, WriteData, pc \in {"fill", "extend"}
  PROVE  /\ data' \in Data
         /\ failures' \in 0..MaxFailures /\ lost_data' \in BOOLEAN
         /\ UNCHANGED <<fat, dir, local, reply, ops, fat_suspect, overrun>>
  <1>1. data' \in Data
    BY DEF WriteData, TypeOK, Data
  <1> QED
    BY <1>1, FailsTypes DEF WriteData, TypeOK

LEMMA FillClusterKeeps ==
  ASSUME FsInv, FillCluster
  PROVE  FsInv'
  <1>1. /\ pc = "fill" /\ pc' = "find_slot" /\ data' \in Data
        /\ failures' \in 0..MaxFailures /\ lost_data' \in BOOLEAN
        /\ UNCHANGED <<fat, dir, local, reply, ops, fat_suspect, overrun>>
    BY WriteDataKeeps DEF FillCluster, FsInv
  <1>2. TypeOK'
    BY <1>1 DEF FsInv, TypeOK, local
  <1> QED
    BY <1>1, <1>2, DiskKept DEF FsInv, ClusterInv, SlotInv, BufferInv, Unclaimed, local

LEMMA FindSlotKeeps ==
  ASSUME FsInv, FindSlot
  PROVE  FsInv'
  <1>1. /\ pc = "find_slot" /\ holds' = "dir"
        /\ UNCHANGED <<disk, op, clus, cycle_guard, write_buffer, ghosts>>
    BY DEF FindSlot, Load
  <1>2. CASE Return /\ UNCHANGED file_idx
    <2>1. TypeOK' /\ pc' = "idle"
      BY <1>1, <1>2, ReturnTypes DEF FsInv, TypeOK, disk, ghosts
    <2> QED
      BY <1>1, <2>1, CalmStep DEF disk, ghosts
  <1>3. CASE \E i \in Entries :
          FirstOf(i, FreeSlots) /\ file_idx' = i /\ pc' = "enter" /\ UNCHANGED reply
    <2>1. /\ file_idx' \in Entries /\ FirstOf(file_idx', FreeSlots)
          /\ pc' = "enter" /\ reply' = reply
      BY <1>3
    <2>2. TypeOK'
      BY <1>1, <2>1 DEF FsInv, TypeOK, disk, ghosts
    <2>3. FreeSlots' = FreeSlots /\ FirstOf(file_idx, FreeSlots)'
      BY <1>1, <2>1 DEF FreeSlots, FirstOf, disk
    <2>4. UNCHANGED <<fat, dir, fat_suspect>>
      BY <1>1 DEF disk, ghosts
    <2> QED
      BY <1>1, <2>1, <2>2, <2>3, <2>4, DiskKept
      DEF FsInv, ClusterInv, SlotInv, BufferInv, Unclaimed
  <1> QED
    BY <1>2, <1>3 DEF FindSlot

LEMMA WriteDirTypes ==
  ASSUME FsInv, NEW e \in Entry, WriteDir(e)
  PROVE  /\ dir' \in [Entries -> Entry]
         /\ dir' = dir \/ dir' = [dir EXCEPT ![file_idx] = e]
         /\ pc' = "idle" /\ TypeOK'
         /\ UNCHANGED <<fat, data, local, ops, fat_suspect, lost_data, overrun>>
  <1>1. /\ dir' = dir \/ dir' = [dir EXCEPT ![file_idx] = e]
        /\ pc' = "idle" /\ reply' \in {"none", "committed", "persisted"}
        /\ failures' \in 0..MaxFailures
        /\ UNCHANGED <<fat, data, local, ops, fat_suspect, lost_data, overrun>>
    BY ReturnTypes, FailsTypes DEF WriteDir, FsInv, TypeOK
  <1>2. dir' \in [Entries -> Entry]
    BY <1>1 DEF FsInv, TypeOK
  <1> QED
    BY <1>1, <1>2 DEF FsInv, TypeOK, local

LEMMA EnterFileKeeps ==
  ASSUME FsInv, EnterFile
  PROVE  FsInv'
  <1> DEFINE e == [name |-> op.name, clus |-> clus, size |-> op.len]
  <1>1. /\ e \in Entry /\ e.name \in Names /\ e.clus = clus
        /\ pc = "enter" /\ WriteDir(e)
    BY DEF EnterFile, FsInv, TypeOK, Entry
  <1> HIDE DEF e
  <1>2. /\ dir' = dir \/ dir' = [dir EXCEPT ![file_idx] = e]
        /\ dir' \in [Entries -> Entry] /\ pc' = "idle" /\ TypeOK'
        /\ UNCHANGED <<fat, data, local, ops, fat_suspect, lost_data, overrun>>
    BY <1>1, WriteDirTypes
  <1>3. CASE dir' = dir
    BY <1>2, <1>3, CalmStep
  <1>4. CASE dir' = [dir EXCEPT ![file_idx] = e]
    <2>1. /\ file_idx \in Entries /\ dir[file_idx].name \in NoName /\ file_idx \in FreeSlots
          /\ \A i \in FreeSlots : file_idx <= i
      BY <1>1 DEF FsInv, TypeOK, SlotInv, FirstOf, FreeSlots
    <2>2. dir'[file_idx] = e /\ \A i \in Entries \ {file_idx} : dir'[i] = dir[i]
      BY <1>4, <2>1 DEF FsInv, TypeOK
    <2>3. file_idx \notin Live /\ Live' = Live \cup {file_idx} /\ Live \subseteq Entries
      BY <1>1, <2>1, <2>2, InputAssumption DEF Live, LiveIn, NoName
    <2>4. ~fat_suspect => Consistent(fat, dir', Live \cup {file_idx})
      BY <1>1, <1>2, <2>1, <2>2, <2>3, EnterKeeps DEF FsInv, TypeOK, ClusterInv
    <2>5. ~fat_suspect' => Consistent(fat, dir, Live)'
      BY <1>2, <2>3, <2>4
      DEF Consistent, HeadsInUse, HeadsDistinct, LinksInUse,
          LinksDistinct, HeadsNotLinked, RootAlone
    <2>6. LookupsAgree'
      <3> SUFFICES ASSUME NEW i \in Live', NEW j \in 1..i PROVE dir'[j].name # "end"
        BY DEF LookupsAgree, Visible
      <3>1. i \in Entries /\ j \in Entries
        <4>1. i \in Entries
          BY <2>1, <2>3
        <4> QED
          BY <4>1, GeometryAssumption DEF Entries
      <3>2. CASE j = file_idx
        BY <1>1, <2>2, <3>2, InputAssumption DEF NoName
      <3>3. CASE j # file_idx /\ i # file_idx
        <4>1. i \in Live /\ dir'[j] = dir[j]
          BY <2>2, <2>3, <3>1, <3>3
        <4> QED
          BY <4>1 DEF FsInv, SlotInv, LookupsAgree, Visible
      <3>4. CASE j # file_idx /\ i = file_idx
        <4>1. j < file_idx /\ dir'[j] = dir[j]
          BY <2>1, <2>2, <3>1, <3>4 DEF Entries
        <4>2. j \notin FreeSlots
          BY <2>1, <3>1, <4>1 DEF Entries
        <4> QED
          BY <3>1, <4>1, <4>2 DEF FreeSlots, NoName
      <3> QED
        BY <3>2, <3>3, <3>4
    <2> QED
      BY <1>2, <2>5, <2>6 DEF FsInv, ClusterInv, SlotInv, BufferInv
  <1> QED
    BY <1>2, <1>3, <1>4

\* The steps of an append up to the update of the size.
LEMMA AppendKeeps ==
  ASSUME FsInv,
         FindFile \/ LoadFat \/ Walk \/ WalkEnd \/ LoadLast \/ Extend \/ ReloadDir
  PROVE  FsInv'
  <1>1. pc # "idle" /\ op.name \in Names
    BY DEF FsInv, FindFile, LoadFat, Walk, WalkEnd, LoadLast, Extend, ReloadDir
  <1>2. CASE FindFile
    <2>1. /\ UNCHANGED <<disk, op, cycle_guard, write_buffer, reply, ghosts>>
          /\ holds' = "dir" /\ pc' \in {"find_cluster", "load_fat"}
          /\ file_idx' \in Entries /\ (clus' = clus \/ clus' = dir[file_idx'].clus)
      BY <1>2 DEF FindFile, Load, FsInv, TypeOK
    <2>2. clus' \in 0..(FAT_ENTRIES - 1)
      BY <2>1 DEF FsInv, TypeOK, Entry
    <2>3. TypeOK'
      BY <2>1, <2>2 DEF FsInv, TypeOK, disk, ghosts
    <2> QED
      BY <1>1, <2>1, <2>3, CalmStep DEF disk, ghosts
  <1>3. CASE LoadFat
    <2>1. 0 \in 0..(max_valid_clusters + 1) /\ 0 <= max_valid_clusters
      BY GeometryAssumption
    <2>2. TypeOK' /\ cycle_guard' <= max_valid_clusters /\ pc' = "walk"
      BY <1>3, <2>1 DEF LoadFat, Load, FsInv, TypeOK, disk, ghosts
    <2> QED
      BY <1>1, <1>3, <2>2, CalmStep DEF LoadFat, disk, ghosts
  <1>4. CASE Walk
    <2>1. /\ clus' \in Clusters /\ cycle_guard' = cycle_guard + 1
          /\ cycle_guard \in Nat /\ cycle_guard <= max_valid_clusters
          /\ UNCHANGED <<disk, op, file_idx, holds, write_buffer, ghosts>>
      BY <1>4 DEF Walk, HasNext, FsInv, TypeOK
    <2>2. clus' \in 0..(FAT_ENTRIES - 1) /\ cycle_guard' \in 0..(max_valid_clusters + 1)
      BY <2>1, GeometryAssumption DEF Clusters
    <2>3. /\ pc' \in {"walk", "idle"} /\ reply' \in {"none", "committed", "persisted"}
          /\ pc' = "walk" => ~(cycle_guard' > max_valid_clusters)
      BY <1>4, ReturnTypes DEF Walk, FsInv, TypeOK
    <2>4. TypeOK'
      BY <2>1, <2>2, <2>3 DEF FsInv, TypeOK, disk, ghosts
    <2>5. pc' = "walk" => cycle_guard' <= max_valid_clusters
      BY <2>2, <2>3, GeometryAssumption
    <2> QED
      BY <1>1, <2>1, <2>3, <2>4, <2>5, CalmStep DEF disk, ghosts
  <1>5. CASE WalkEnd
    <2>1. TypeOK' /\ pc' = "load_last" /\ UNCHANGED <<disk, local, reply, ghosts>>
      BY <1>5 DEF WalkEnd, FsInv, TypeOK, disk, local, ghosts
    <2> QED
      BY <1>1, <2>1, CalmStep DEF disk, local, ghosts
  <1>6. CASE LoadLast
    <2>1. overrun' \in BOOLEAN /\ pc' = "extend"
          /\ UNCHANGED <<disk, op, clus, file_idx, cycle_guard, holds, reply, ops, failures,
                         fat_suspect, lost_data>>
      BY <1>6 DEF LoadLast, FsInv, TypeOK
    <2>2. TypeOK'
      BY <1>6, <2>1, LoadBuffer DEF FsInv, TypeOK, disk
    <2> QED
      BY <1>1, <2>1, <2>2, CalmStep DEF disk
  <1>7. CASE Extend
    <2>1. /\ pc' = "reload_dir" /\ data' \in Data /\ failures' \in 0..MaxFailures /\ lost_data' \in BOOLEAN
          /\ UNCHANGED <<fat, dir, local, reply, ops, fat_suspect, overrun>>
      BY <1>7, WriteDataKeeps DEF Extend, FsInv
    <2>2. TypeOK'
      BY <2>1 DEF FsInv, TypeOK, local
    <2> QED
      BY <1>1, <2>1, <2>2, CalmStep DEF local
  <1>8. CASE ReloadDir
    <2>1. TypeOK' /\ pc' = "grow" /\ holds' = "dir"
          /\ UNCHANGED <<disk, op, clus, file_idx, cycle_guard, write_buffer, reply, ghosts>>
      BY <1>8 DEF ReloadDir, Load, FsInv, TypeOK, disk, ghosts
    <2> QED
      BY <1>1, <2>1, CalmStep DEF disk, ghosts
  <1> QED
    BY <1>2, <1>3, <1>4, <1>5, <1>6, <1>7, <1>8

LEMMA GrowKeeps ==
  ASSUME FsInv, Grow
  PROVE  FsInv'
  <1> DEFINE e == [dir[file_idx] EXCEPT !.size = Size + to_copy]
  <1>1. file_idx \in Entries /\ dir[file_idx] \in Entry /\ Size \in Nat
    BY DEF FsInv, TypeOK, Size, Entry
  <1>2. to_copy \in Nat
    BY CopyTypes
  <1>3. /\ e \in Entry /\ e.clus = dir[file_idx].clus /\ e.name = dir[file_idx].name
        /\ WriteDir(e)
    BY <1>1, <1>2 DEF Grow, Entry
  <1> HIDE DEF e
  <1>4. /\ dir' = dir \/ dir' = [dir EXCEPT ![file_idx] = e]
        /\ dir' \in [Entries -> Entry] /\ pc' = "idle" /\ TypeOK'
        /\ UNCHANGED <<fat, data, local, ops, fat_suspect, lost_data, overrun>>
    BY <1>3, WriteDirTypes
  <1>5. \A i \in Entries : dir'[i].name = dir[i].name /\ dir'[i].clus = dir[i].clus
    BY <1>1, <1>3, <1>4 DEF FsInv, TypeOK
  <1>6. Live' = Live /\ Live \subseteq Entries
    BY <1>5 DEF Live, LiveIn
  <1>7. LookupsAgree'
    <2> SUFFICES ASSUME NEW i \in Live, NEW j \in 1..i PROVE dir'[j].name # "end"
      BY <1>6 DEF LookupsAgree, Visible
    <2>1. j \in Entries
      <3>1. i \in Entries
        BY <1>6
      <3> QED
        BY <3>1, GeometryAssumption DEF Entries
    <2> QED
      BY <1>5, <2>1 DEF FsInv, SlotInv, LookupsAgree, Visible
  <1>8. ~fat_suspect => Consistent(fat, dir', Live)
    BY <1>5, <1>6, SameHeads DEF FsInv, ClusterInv
  <1>9. ~fat_suspect' => Consistent(fat, dir, Live)'
    BY <1>4, <1>6, <1>8
    DEF Consistent, HeadsInUse, HeadsDistinct, LinksInUse,
        LinksDistinct, HeadsNotLinked, RootAlone
  <1> QED
    BY <1>4, <1>7, <1>9 DEF FsInv, ClusterInv, SlotInv, BufferInv

LEMMA OtherKeeps ==
  ASSUME FsInv, fs_get_dir_list \/ fs_read_file_content \/ PowerLoss
  PROVE  FsInv'
  <1>1. CASE fs_get_dir_list \/ fs_read_file_content
    <2>1. /\ pc' = pc /\ pc = "idle" /\ holds' \in {"dir", "data"} /\ reply' = "none"
          /\ failures' \in 0..MaxFailures
          /\ UNCHANGED <<disk, op, clus, file_idx, cycle_guard, write_buffer, ops, fat_suspect,
                         lost_data, overrun>>
      <3>1. failures \in 0..MaxFailures /\ (Fails => failures' \in 0..MaxFailures)
        BY FailsTypes DEF FsInv, TypeOK
      <3> QED
        BY <1>1, <3>1 DEF fs_get_dir_list, fs_read_file_content, Load, ghosts
    <2>2. TypeOK'
      BY <2>1 DEF FsInv, TypeOK, disk
    <2> QED
      BY <2>1, <2>2, CalmStep DEF disk
  <1>2. CASE PowerLoss
    <2>1. 0 \in 0..(FAT_ENTRIES - 1) /\ 1 \in Entries /\ 0 \in 0..(max_valid_clusters + 1)
      BY GeometryAssumption DEF Entries
    <2>2. NoOp \in [kind : {"none", "write", "append"}, name : Names \cup {"end"}, len : Nat]
      BY DEF NoOp
    <2>3. TypeOK' /\ pc' = "idle"
      BY <1>2, <2>1, <2>2 DEF PowerLoss, FsInv, TypeOK, disk, ghosts
    <2> QED
      BY <1>2, <2>3, CalmStep DEF PowerLoss, disk, ghosts
  <1> QED
    BY <1>1, <1>2

LEMMA StutterKeeps ==
  ASSUME FsInv, UNCHANGED vars
  PROVE  FsInv'
  <1>1. TypeOK'
    BY DEF vars, FsInv, TypeOK
  <1>2. FirstOf(file_idx, FreeSlots)' <=> FirstOf(file_idx, FreeSlots)
    BY DEF vars, FirstOf, FreeSlots
  <1>3. UNCHANGED <<fat, dir, fat_suspect, pc, clus, op, holds, cycle_guard>>
    BY DEF vars
  <1> QED
    BY <1>1, <1>2, <1>3, DiskKept DEF FsInv, ClusterInv, SlotInv, BufferInv, Unclaimed

\* The invariant behind everything that is proved of the FAT and the directory:
\* every operation of fat32.c keeps it, whichever accesses to the disk fail.
THEOREM Invariance ==
  ASSUME EndedDirs
  PROVE  Spec => []FsInv
  <1>1. Init => FsInv
    BY InitInv
  <1>2. FsInv /\ [Next]_vars => FsInv'
    BY CallKeeps, ReadFailsKeeps, FindClusterKeeps, RecordClusterKeeps, FillClusterKeeps,
       FindSlotKeeps, EnterFileKeeps, AppendKeeps, GrowKeeps, OtherKeeps, StutterKeeps
    DEF Next, FsStep
  <1> QED
    BY <1>1, <1>2, PTL DEF Spec

\* Clusters, entries and what the operation of fat32.c in progress holds of them
\* keep their types, for every geometry.
THEOREM TypeCorrect ==
  ASSUME EndedDirs
  PROVE  Spec => []TypeOK
  <1>1. FsInv => TypeOK
    BY DEF FsInv
  <1> QED
    BY <1>1, Invariance, PTL

\* A FAT that is sound at the start stays sound, through failed reads, failed writes
\* of data and directory, and losses of power at any disk access.
THEOREM NoCrossLinkCorrect ==
  ASSUME EndedDirs
  PROVE  Spec => []NoCrossLink
  <1>1. FsInv => NoCrossLink
    BY DEF FsInv, ClusterInv, NoCrossLink
  <1> QED
    BY <1>1, Invariance, PTL

\* The two ways of looking a file up find the same files.
THEOREM LookupsCorrect ==
  ASSUME EndedDirs
  PROVE  Spec => []LookupsAgree
  <1>1. FsInv => LookupsAgree
    BY DEF FsInv, SlotInv
  <1> QED
    BY <1>1, Invariance, PTL

\* No sector is overwritten with the contents of another one.
THEOREM WriteBackCorrect ==
  ASSUME EndedDirs
  PROVE  Spec => WritesBackWhatItRead
  <1>1. FsInv /\ [Next]_vars =>
          (fat' # fat => holds = "fat") /\ (dir' # dir => holds = "dir")
    <2> SUFFICES ASSUME FsInv, [Next]_vars
                 PROVE  (fat' # fat => holds = "fat") /\ (dir' # dir => holds = "dir")
      OBVIOUS
    <2>1. CASE RecordCluster
      BY <2>1 DEF RecordCluster, FsInv, BufferInv
    <2>2. CASE EnterFile
      BY <2>2 DEF EnterFile, WriteDir, FsInv, BufferInv
    <2>3. CASE Grow
      BY <2>3 DEF Grow, WriteDir, FsInv, BufferInv
    <2>4. CASE FillCluster \/ Extend
      BY <2>4 DEF FillCluster, Extend, WriteData
    <2>5. CASE FindCluster \/ FindSlot \/ FindFile \/ LoadFat \/ Walk \/ WalkEnd
               \/ LoadLast \/ ReloadDir \/ ReadFails \/ PowerLoss
      BY <2>5 DEF FindCluster, FindSlot, FindFile, LoadFat, Walk, WalkEnd, LoadLast,
                  ReloadDir, ReadFails, PowerLoss, disk
    <2>6. CASE fs_write_file_content \/ fs_append_file_content \/ fs_get_dir_list
               \/ fs_read_file_content \/ UNCHANGED vars
      BY <2>6 DEF fs_write_file_content, fs_append_file_content, Call, fs_get_dir_list,
                  fs_read_file_content, vars, disk
    <2> QED
      BY <2>1, <2>2, <2>3, <2>4, <2>5, <2>6 DEF Next, FsStep
  <1> QED
    BY <1>1, Invariance, PTL DEF Spec, WritesBackWhatItRead

-----------------------------------------------------------------------------
(* Induction, over sets of numbers: the set of all m for which a formula     *)
(* holds.  The least number of a set comes from the well-founded order of    *)
(* the finite subsets of Nat, among them the intervals 1..n.                 *)

LEMMA Least ==
  ASSUME NEW T, T \subseteq Nat, T # {}
  PROVE  \E m \in T : \A k \in T : m <= k
  <1> DEFINE R == StrictSubsetOrdering(Nat)
             U == {1..n : n \in T}
  <1>1. IsWellFoundedOn(R, FiniteSubsetsOf(Nat))
    BY FS_StrictSubsetOrderingWellFounded
  <1>2. U \subseteq FiniteSubsetsOf(Nat) /\ U # {}
    <2>1. ASSUME NEW n \in T PROVE 1..n \in FiniteSubsetsOf(Nat)
      <3>1. IsFiniteSet(1..n)
        BY FS_Interval
      <3> QED
        BY <3>1 DEF FiniteSubsetsOf
    <2> QED
      BY <2>1
  <1>3. \A j, k \in T : k < j => <<1..k, 1..j>> \in R
    BY DEF StrictSubsetOrdering
  <1> HIDE DEF R, U
  <1>4. PICK V \in U : \A W \in U : ~ (<<W, V>> \in R)
    BY <1>1, <1>2, WFMin
  <1>5. PICK m \in T : V = 1..m
    BY DEF U
  <1>6. \A k \in T : 1..k \in U
    BY DEF U
  <1>7. \A k \in T : ~(k < m)
    BY <1>3, <1>4, <1>5, <1>6
  <1>8. m \in Nat /\ \A k \in T : k \in Nat
    OBVIOUS
  <1>9. \A k \in T : m <= k
    BY <1>7, <1>8
  <1> QED
    BY <1>9

LEMMA Induction ==
  ASSUME NEW S, 0 \in S, \A n \in Nat : n \in S => n + 1 \in S
  PROVE  Nat \subseteq S
  <1> SUFFICES ASSUME Nat \ S # {} PROVE FALSE
    OBVIOUS
  <1>1. PICK m \in Nat \ S : \A k \in Nat \ S : m <= k
    BY Least
  <1>2. m # 0 /\ m - 1 \in Nat
    BY <1>1
  <1>3. m - 1 \in S
    BY <1>1, <1>2
  <1>4. (m - 1) + 1 \in S /\ (m - 1) + 1 = m
    BY <1>2, <1>3
  <1> QED
    BY <1>1, <1>4

-----------------------------------------------------------------------------
(* Places in sectors *)

LEMMA DivMod ==
  ASSUME NEW S \in Nat \ {0}, NEW a \in Nat
  PROVE  /\ (a \div S) \in Nat /\ (a % S) \in 0..(S - 1)
         /\ a = S * (a \div S) + (a % S)
  OBVIOUS

LEMMA DivUnique ==
  ASSUME NEW S \in Nat \ {0}, NEW a \in Nat, NEW q \in Nat, NEW r \in 0..(S - 1),
         a = S * q + r
  PROVE  (a \div S) = q /\ (a % S) = r
  <1>1. (a \div S) \in Nat /\ (a % S) \in 0..(S - 1) /\ a = S * (a \div S) + (a % S)
    BY DivMod
  <1>2. ~((a \div S) < q)
    <2>1. ASSUME (a \div S) + 1 <= q PROVE FALSE
      <3>1. S * ((a \div S) + 1) <= S * q
        BY <1>1, <2>1
      <3>2. S * ((a \div S) + 1) = S * (a \div S) + S
        BY <1>1
      <3> QED
        BY <1>1, <3>1, <3>2
    <2> QED
      BY <2>1, <1>1
  <1>3. ~(q < (a \div S))
    <2>1. ASSUME q + 1 <= (a \div S) PROVE FALSE
      <3>1. S * (q + 1) <= S * (a \div S)
        BY <1>1, <2>1
      <3>2. S * (q + 1) = S * q + S
        OBVIOUS
      <3> QED
        BY <1>1, <3>1, <3>2
    <2> QED
      BY <2>1, <1>1
  <1> QED
    BY <1>1, <1>2, <1>3

LEMMA DivMonotone ==
  ASSUME NEW S \in Nat \ {0}, NEW a \in Nat, NEW b \in Nat, a <= b
  PROVE  (a \div S) <= (b \div S)
  OBVIOUS

\* m bytes behind the n-th are in the same sector, if it has room for them.
LEMMA DivAbove ==
  ASSUME NEW S \in Nat \ {0}, NEW n \in Nat, NEW m \in Nat, (n % S) + m < S
  PROVE  ((n + m) \div S) = (n \div S) /\ ((n + m) % S) = (n % S) + m
  <1>1. (n \div S) \in Nat /\ (n % S) \in 0..(S - 1) /\ n = S * (n \div S) + (n % S)
    BY DivMod
  <1>2. (n % S) + m \in 0..(S - 1) /\ n + m \in Nat /\ n + m = S * (n \div S) + ((n % S) + m)
    BY <1>1
  <1> QED
    BY <1>1, <1>2, DivUnique

\* The last byte before a place inside a sector is in that sector.
LEMMA DivBelow ==
  ASSUME NEW S \in Nat \ {0}, NEW n \in Nat, (n % S) # 0
  PROVE  n - 1 \in Nat /\ ((n - 1) \div S) = (n \div S)
  <1>1. (n \div S) \in Nat /\ (n % S) \in 0..(S - 1) /\ n = S * (n \div S) + (n % S)
    BY DivMod
  <1>2. S * (n \div S) \in Nat
    BY <1>1
  <1>3. (n % S) - 1 \in 0..(S - 1) /\ n - 1 \in Nat /\ n - 1 = S * (n \div S) + ((n % S) - 1)
    BY <1>1, <1>2
  <1> QED
    BY <1>1, <1>3, DivUnique

\* Of two places in one sector the lower one has the lower offset.
LEMMA ModBelow ==
  ASSUME NEW S \in Nat \ {0}, NEW a \in Nat, NEW b \in Nat, a < b,
         (a \div S) = (b \div S)
  PROVE  (a % S) < (b % S)
  <1>1. /\ (a % S) \in Int /\ (b % S) \in Int /\ S * (a \div S) \in Int
        /\ a = S * (a \div S) + (a % S) /\ b = S * (b \div S) + (b % S)
    BY DivMod
  <1> QED
    BY <1>1

-----------------------------------------------------------------------------
(* Chains of clusters *)

LEMMA ClusterTypes ==
  /\ Clusters \subseteq 0..(FAT_ENTRIES - 1) /\ FREE \notin Clusters /\ EOF \notin Clusters
  /\ FAT_ENTRIES \in Nat
  BY GeometryAssumption DEF Clusters

IsChain(f, start, g, n) ==
  g = [k \in 0..n |-> IF k = 0 THEN start ELSE Hop(f, g[k - 1])]

LEMMA ChainExists ==
  ASSUME NEW f, NEW start
  PROVE  IsChain(f, start, Chain(f, start), FAT_ENTRIES)
  <1> DEFINE S == {n \in Nat : \E g : IsChain(f, start, g, n)}
  <1>1. 0 \in S
    <2>1. IsChain(f, start, [k \in 0..0 |-> start], 0)
      BY DEF IsChain
    <2> QED
      BY <2>1
  <1>2. ASSUME NEW n \in Nat, n \in S PROVE n + 1 \in S
    <2>1. PICK g : IsChain(f, start, g, n)
      BY <1>2
    <2> DEFINE h == [k \in 0..(n + 1) |-> IF k = 0 THEN start ELSE Hop(f, g[k - 1])]
    <2>2. \A k \in 0..n : h[k] = g[k]
      BY <2>1 DEF IsChain
    <2>3. h = [k \in 0..(n + 1) |-> IF k = 0 THEN start ELSE Hop(f, g[k - 1])]
      OBVIOUS
    <2> HIDE DEF h
    <2>4. ASSUME NEW k \in 0..(n + 1), k # 0 PROVE h[k - 1] = g[k - 1]
      <3>1. k - 1 \in 0..n
        BY <2>4
      <3> QED
        BY <2>2, <3>1
    <2>5. IsChain(f, start, h, n + 1)
      BY <2>3, <2>4 DEF IsChain
    <2> QED
      BY <2>5
  <1>3. Nat \subseteq S
    <2> HIDE DEF S
    <2> QED
      BY <1>1, <1>2, Induction
  <1>4. \E g : IsChain(f, start, g, FAT_ENTRIES)
    BY <1>3, GeometryAssumption
  <1>5. Chain(f, start) = CHOOSE g : IsChain(f, start, g, FAT_ENTRIES)
    BY DEF Chain, IsChain
  <1> QED
    BY <1>4, <1>5

\* Chain is what its recursive definition says.
LEMMA ChainDef ==
  ASSUME NEW f, NEW start
  PROVE  /\ Chain(f, start)[0] = start
         /\ \A k \in 0..FAT_ENTRIES : k # 0 =>
              k - 1 \in 0..FAT_ENTRIES /\ Chain(f, start)[k] = Hop(f, Chain(f, start)[k - 1])
  BY ChainExists, ClusterTypes DEF IsChain

\* A cluster in a chain is the first one or follows one in the chain.
LEMMA ChainBack ==
  ASSUME NEW f, NEW start, NEW k \in 0..FAT_ENTRIES, k # 0, Chain(f, start)[k] \in Clusters
  PROVE  /\ k - 1 \in 0..FAT_ENTRIES /\ Chain(f, start)[k - 1] \in Clusters
         /\ f[Chain(f, start)[k - 1]] = Chain(f, start)[k]
  BY ChainDef, ClusterTypes DEF Hop

\* A cluster that nothing starts with and nothing leads to is in no chain.
LEMMA ChainAvoids ==
  ASSUME NEW f, NEW start, NEW c \in Clusters, start # c, \A b \in Clusters : f[b] # c,
         NEW k \in 0..FAT_ENTRIES
  PROVE  Chain(f, start)[k] # c
  BY ChainDef, ChainBack

\* What becomes of the FAT entry of such a cluster does not matter to a chain.
LEMMA ChainSame ==
  ASSUME NEW f, NEW g, NEW start, NEW c \in Clusters, start # c,
         \A b \in Clusters : f[b] # c, \A b \in Clusters \ {c} : g[b] = f[b]
  PROVE  \A k \in 0..FAT_ENTRIES : Chain(g, start)[k] = Chain(f, start)[k]
  <1> DEFINE S == {k \in Nat : k <= FAT_ENTRIES => Chain(g, start)[k] = Chain(f, start)[k]}
  <1>1. 0 \in S
    BY ChainDef
  <1>2. ASSUME NEW n \in Nat, n \in S PROVE n + 1 \in S
    <2> SUFFICES ASSUME n + 1 <= FAT_ENTRIES
                 PROVE  Chain(g, start)[n + 1] = Chain(f, start)[n + 1]
      OBVIOUS
    <2>1. n \in 0..FAT_ENTRIES /\ n + 1 \in 0..FAT_ENTRIES /\ n + 1 # 0 /\ (n + 1) - 1 = n
      BY ClusterTypes
    <2>2. Chain(g, start)[n] = Chain(f, start)[n] /\ Chain(f, start)[n] # c
      BY <1>2, <2>1, ChainAvoids
    <2>3. Hop(g, Chain(f, start)[n]) = Hop(f, Chain(f, start)[n])
      BY <2>2 DEF Hop
    <2> QED
      BY <2>1, <2>2, <2>3, ChainDef
  <1>3. Nat \subseteq S
    <2> HIDE DEF S
    <2> QED
      BY <1>1, <1>2, Induction
  <1> QED
    BY <1>3, ClusterTypes

\* In a sound FAT the chains of two files have no cluster in common, and no
\* chain comes back to a cluster: by induction on the place in one of them.
LEMMA ChainsApart ==
  ASSUME NEW f, NEW d, NEW L, Consistent(f, d, L)
  PROVE  \A m, n \in 0..FAT_ENTRIES : \A i, j \in L :
           Chain(f, d[i].clus)[m] = Chain(f, d[j].clus)[n] /\ Chain(f, d[i].clus)[m] \in Clusters
             => i = j /\ m = n
  <1> DEFINE P(i, j, m, n) ==
               Chain(f, d[i].clus)[m] = Chain(f, d[j].clus)[n] /\ Chain(f, d[i].clus)[m] \in Clusters
                 => i = j /\ m = n
             S == {m \in Nat : m <= FAT_ENTRIES =>
                     \A n \in 0..FAT_ENTRIES : \A i, j \in L : P(i, j, m, n)}
  <1>0. /\ HeadsDistinct(d, L) /\ LinksDistinct(f) /\ HeadsNotLinked(f, d, L)
    BY DEF Consistent
  <1>1. 0 \in S
    <2> SUFFICES ASSUME NEW n \in 0..FAT_ENTRIES, NEW i \in L, NEW j \in L,
                        Chain(f, d[i].clus)[0] = Chain(f, d[j].clus)[n],
                        Chain(f, d[i].clus)[0] \in Clusters
                 PROVE  i = j /\ 0 = n
      OBVIOUS
    <2>1. Chain(f, d[i].clus)[0] = d[i].clus /\ Chain(f, d[j].clus)[0] = d[j].clus
      BY ChainDef
    <2>2. Chain(f, d[j].clus)[n] = d[i].clus /\ d[i].clus \in Clusters
      BY <2>1
    <2>3. CASE n = 0
      <3>1. d[i].clus = d[j].clus
        BY <2>1, <2>2, <2>3
      <3> QED
        BY <1>0, <2>3, <3>1 DEF HeadsDistinct
    <2>4. CASE n # 0
      <3>1. Chain(f, d[j].clus)[n - 1] \in Clusters
            /\ f[Chain(f, d[j].clus)[n - 1]] = d[i].clus
        BY <2>2, <2>4, ChainBack
      <3> QED
        BY <1>0, <3>1 DEF HeadsNotLinked
    <2> QED
      BY <2>3, <2>4
  <1>2. ASSUME NEW m \in Nat, m \in S PROVE m + 1 \in S
    <2> SUFFICES ASSUME m + 1 <= FAT_ENTRIES,
                        NEW n \in 0..FAT_ENTRIES, NEW i \in L, NEW j \in L,
                        Chain(f, d[i].clus)[m + 1] = Chain(f, d[j].clus)[n],
                        Chain(f, d[i].clus)[m + 1] \in Clusters
                 PROVE  i = j /\ m + 1 = n
      OBVIOUS
    <2>1. m \in 0..FAT_ENTRIES /\ m + 1 \in 0..FAT_ENTRIES /\ m + 1 # 0 /\ (m + 1) - 1 = m
      BY ClusterTypes
    <2>2. Chain(f, d[i].clus)[m] \in Clusters
          /\ f[Chain(f, d[i].clus)[m]] = Chain(f, d[i].clus)[m + 1]
      BY <2>1, ChainBack
    <2>3. CASE n = 0
      <3>1. Chain(f, d[i].clus)[m + 1] = d[j].clus
        BY <2>3, ChainDef
      <3> QED
        BY <1>0, <2>2, <3>1 DEF HeadsNotLinked
    <2>4. CASE n # 0
      <3>1. /\ n - 1 \in 0..FAT_ENTRIES /\ Chain(f, d[j].clus)[n - 1] \in Clusters
            /\ f[Chain(f, d[j].clus)[n - 1]] = Chain(f, d[j].clus)[n]
        BY <2>4, ChainBack
      <3>2. Chain(f, d[i].clus)[m] = Chain(f, d[j].clus)[n - 1]
        BY <1>0, <2>2, <3>1 DEF LinksDistinct
      <3>3. i = j /\ m = n - 1
        BY <1>2, <2>1, <2>2, <3>1, <3>2
      <3> QED
        BY <3>3
    <2> QED
      BY <2>3, <2>4
  <1>3. Nat \subseteq S
    <2> HIDE DEF S
    <2> QED
      BY <1>1, <1>2, Induction
  <1>4. \A m \in 0..FAT_ENTRIES : m \in S /\ m <= FAT_ENTRIES
    BY <1>3, ClusterTypes
  <1> QED
    BY <1>4

-----------------------------------------------------------------------------
(* Where the bytes of a file are *)

LEMMA LastTypes ==
  ASSUME NEW e \in Entry
  PROVE  e.size \in Nat /\ LastIndex(e) \in Nat
  <1>1. e.size \in Nat
    BY DEF Entry
  <1>2. CASE e.size = 0
    BY <1>1, <1>2 DEF LastIndex
  <1>3. CASE e.size # 0
    <2>1. e.size - 1 \in Nat
      BY <1>1, <1>3
    <2>2. ((e.size - 1) \div SECTOR_SIZE) \in Nat
      BY <2>1, GeometryAssumption, DivMod
    <2> QED
      BY <1>1, <1>3, <2>2 DEF LastIndex
  <1> QED
    BY <1>2, <1>3

\* A byte below the size of a file is in a cluster of its chain.
LEMMA Place ==
  ASSUME NEW f, NEW e \in Entry, Laid(f, e), NEW p \in 0..(e.size - 1)
  PROVE  /\ (p \div SECTOR_SIZE) \in 0..LastIndex(e)
         /\ (p \div SECTOR_SIZE) \in 0..FAT_ENTRIES
         /\ Chain(f, e.clus)[p \div SECTOR_SIZE] \in Clusters
         /\ (p % SECTOR_SIZE) \in 0..(SECTOR_SIZE - 1)
         /\ \A b : ByteOf(f, b, e, p) =
                     b[Chain(f, e.clus)[p \div SECTOR_SIZE]][(p % SECTOR_SIZE) + 1]
  <1>1. /\ e.size \in Nat /\ e.size # 0 /\ p \in Nat /\ e.size - 1 \in Nat /\ p <= e.size - 1
        /\ SECTOR_SIZE \in Nat \ {0} /\ LastIndex(e) \in Nat /\ LastIndex(e) <= FAT_ENTRIES
    BY LastTypes, GeometryAssumption DEF Laid
  <1>2. (p \div SECTOR_SIZE) \in Nat /\ (p % SECTOR_SIZE) \in 0..(SECTOR_SIZE - 1)
    BY <1>1, DivMod
  <1>3. (p \div SECTOR_SIZE) <= LastIndex(e)
    BY <1>1, DivMonotone DEF LastIndex
  <1>4. (p \div SECTOR_SIZE) \in 0..LastIndex(e) /\ (p \div SECTOR_SIZE) \in 0..FAT_ENTRIES
    BY <1>1, <1>2, <1>3, GeometryAssumption
  <1>5. Chain(f, e.clus)[p \div SECTOR_SIZE] \in Clusters
    BY <1>4 DEF Laid
  <1> QED
    BY <1>2, <1>4, <1>5 DEF ByteOf

\* The FAT entry of a cluster that is part of nothing does not matter to a file.
LEMMA FileSame ==
  ASSUME NEW f, NEW g, NEW e \in Entry, NEW c \in Clusters, e.clus # c,
         \A b \in Clusters : f[b] # c, \A b \in Clusters \ {c} : g[b] = f[b],
         Laid(f, e)
  PROVE  /\ Laid(g, e)
         /\ \A b : \A p \in 0..(e.size - 1) : ByteOf(g, b, e, p) = ByteOf(f, b, e, p)
  <1>1. \A k \in 0..FAT_ENTRIES : Chain(g, e.clus)[k] = Chain(f, e.clus)[k]
    BY ChainSame
  <1>2. \A k \in 0..FAT_ENTRIES : Chain(f, e.clus)[k] # c
    BY ChainAvoids
  <1>3. /\ LastIndex(e) \in 0..FAT_ENTRIES /\ 0..LastIndex(e) \subseteq 0..FAT_ENTRIES
        /\ LastIndex(e) \in 0..LastIndex(e)
    BY LastTypes, ClusterTypes DEF Laid
  <1>4. \A k \in 0..LastIndex(e) : Chain(g, e.clus)[k] \in Clusters
    BY <1>1, <1>3 DEF Laid
  <1>5. g[Chain(g, e.clus)[LastIndex(e)]] \notin Clusters
    <2>1. Chain(f, e.clus)[LastIndex(e)] \in Clusters \ {c}
      BY <1>2, <1>3 DEF Laid
    <2> QED
      BY <1>1, <1>3, <2>1 DEF Laid
  <1>6. Laid(g, e)
    BY <1>4, <1>5 DEF Laid
  <1>7. ASSUME NEW b, NEW p \in 0..(e.size - 1)
        PROVE  ByteOf(g, b, e, p) = ByteOf(f, b, e, p)
    BY <1>1, Place DEF ByteOf
  <1> QED
    BY <1>6, <1>7

-----------------------------------------------------------------------------
(* The files, step by step *)

\* The entries of the files are entries.
LEMMA LiveTypes ==
  ASSUME FsInv
  PROVE  /\ Live \subseteq Entries /\ \A i \in Live : dir[i] \in Entry /\ dir[i].name \in Names
  BY DEF FsInv, TypeOK, Live, LiveIn

FilesLaid == \A i \in Live : Laid(fat, dir[i])
FilesOwn == \A i \in Live : Own(fat, data, dir[i])
BytesKept(i) ==
  \A p \in 0..(dir[i].size - 1) :
    ByteOf(fat', data', dir'[i], p) = ByteOf(fat, data, dir[i], p)
FilesSame ==
  \A i \in Live : /\ i \in Live' /\ dir'[i].name = dir[i].name
                  /\ dir[i].size <= dir'[i].size /\ BytesKept(i)
FilesKept ==
  /\ LayoutInv' /\ OwnInv'
  /\ ~(fat_suspect' \/ overrun') => FilesSame

\* A step that does not write to the disk.
LEMMA DiskSame ==
  ASSUME FilesInv, UNCHANGED <<fat, dir, data, fat_suspect, lost_data>>, overrun => overrun'
  PROVE  /\ Live' = Live /\ FilesSame
         /\ ~(fat_suspect' \/ overrun') => FilesLaid'
         /\ ~(fat_suspect' \/ lost_data' \/ overrun') => FilesOwn'
  <1>1. Live' = Live
    BY DEF Live
  <1>2. \A i \in Live : dir[i].size <= dir[i].size
    BY LiveTypes, LastTypes DEF FilesInv
  <1>3. FilesSame
    BY <1>1, <1>2 DEF FilesSame, BytesKept
  <1> QED
    BY <1>1, <1>3 DEF FilesInv, LayoutInv, OwnInv, FilesLaid, FilesOwn

CalmPcs == {"idle", "find_cluster", "record", "find_file"}

\* Such a step, to where nothing is said of the operation in progress.
LEMMA CalmFiles ==
  ASSUME FilesInv, UNCHANGED <<disk, fat_suspect, lost_data, overrun>>,
         pc' \in CalmPcs, op'.len \in 0..SECTOR_SIZE
  PROVE  FilesKept
  <1>1. /\ Live' = Live /\ FilesSame
        /\ ~(fat_suspect' \/ overrun') => FilesLaid'
        /\ ~(fat_suspect' \/ lost_data' \/ overrun') => FilesOwn'
    BY DiskSame DEF disk
  <1>2. LayoutInv'
    BY <1>1 DEF LayoutInv, AppendPcs, CalmPcs, InPlace, FilesLaid
  <1>3. OwnInv'
    BY <1>1 DEF OwnInv, CalmPcs, FilesOwn
  <1> QED
    BY <1>1, <1>2, <1>3 DEF FilesKept

LEMMA CallFiles ==
  ASSUME FilesInv, fs_write_file_content \/ fs_append_file_content
  PROVE  FilesKept
  <1>1. PICK kind \in {"write", "append"}, first \in {"find_cluster", "find_file"} :
          Call(kind, first)
    BY DEF fs_write_file_content, fs_append_file_content
  <1>2. PICK name \in Names, len \in Lengths : op' = [kind |-> kind, name |-> name, len |-> len]
    BY <1>1 DEF Call
  <1>3. op'.len \in 0..SECTOR_SIZE
    BY <1>2, InputAssumption
  <1>4. pc' \in CalmPcs /\ UNCHANGED <<disk, fat_suspect, lost_data, overrun>>
    BY <1>1 DEF Call, CalmPcs, disk
  <1> QED
    BY <1>3, <1>4, CalmFiles

\* The steps after which nothing is in progress, or nothing yet.
LEMMA QuietFiles ==
  ASSUME FilesInv,
         \/ ReadFails \/ FindCluster \/ fs_get_dir_list \/ fs_read_file_content \/ PowerLoss
         \/ (FindSlot /\ Return) \/ (Walk /\ Return) \/ (FindFile /\ pc' = "find_cluster")
  PROVE  FilesKept
  <1>1. op.len \in 0..SECTOR_SIZE
    BY DEF FilesInv, LayoutInv
  <1>2. CASE ReadFails
    BY <1>1, <1>2, CalmFiles DEF ReadFails, Return, CalmPcs, disk, local
  <1>3. CASE FindCluster
    BY <1>1, <1>3, CalmFiles DEF FindCluster, Return, CalmPcs, disk, ghosts
  <1>4. CASE fs_get_dir_list \/ fs_read_file_content
    BY <1>1, <1>4, CalmFiles DEF fs_get_dir_list, fs_read_file_content, CalmPcs, disk, ghosts
  <1>5. CASE PowerLoss
    <2>1. 0 \in 0..SECTOR_SIZE
      BY GeometryAssumption
    <2> QED
      BY <2>1, <1>5, CalmFiles DEF PowerLoss, NoOp, CalmPcs, disk, ghosts
  <1>6. CASE FindSlot /\ Return
    BY <1>1, <1>6, CalmFiles DEF FindSlot, Return, CalmPcs, disk, ghosts
  <1>7. CASE Walk /\ Return
    BY <1>1, <1>7, CalmFiles DEF Walk, Return, CalmPcs, disk, ghosts
  <1>8. CASE FindFile /\ pc' = "find_cluster"
    BY <1>1, <1>8, CalmFiles DEF FindFile, CalmPcs, disk, ghosts
  <1> QED
    BY <1>2, <1>3, <1>4, <1>5, <1>6, <1>7, <1>8

\* A cluster that is part of nothing is in no file.
LEMMA UnclaimedApart ==
  ASSUME FilesInv, NEW c, Unclaimed(fat, dir, Live, c), NEW i \in Live,
         NEW k \in 0..FAT_ENTRIES
  PROVE  Chain(fat, dir[i].clus)[k] # c
  BY ChainAvoids DEF Unclaimed

LEMMA RecordFiles ==
  ASSUME FilesInv, RecordCluster
  PROVE  FilesKept
  <1>1. /\ pc = "record" /\ pc' = "fill"
        /\ UNCHANGED <<dir, data, op, clus, file_idx, lost_data, overrun>>
        /\ op.len \in 0..SECTOR_SIZE /\ Live' = Live
    BY DEF RecordCluster, FilesInv, LayoutInv, Live
  <1>2. \A q \in 1..op.len : write_buffer'[q] = Payload[q] /\ Payload[q].file = op.name
    <2>1. write_buffer' = [i \in 1..SECTOR_SIZE |-> IF i <= op.len THEN Payload[i] ELSE Zero]
      BY DEF RecordCluster
    <2>2. \A q \in 1..op.len : q \in 1..SECTOR_SIZE /\ q <= op.len
      BY <1>1, GeometryAssumption
    <2> QED
      BY <2>1, <2>2 DEF Payload, Byte
  <1>3. ASSUME ~fat_suspect'
        PROVE  /\ fat' = [fat EXCEPT ![clus] = EOF] /\ ~fat_suspect
               /\ clus \in Clusters /\ \A i \in Live : dir[i].clus # clus
               /\ \A b \in Clusters : fat[b] # clus
               /\ \A b \in Clusters \ {clus} : fat'[b] = fat[b]
    <2>1. fat' = [fat EXCEPT ![clus] = EOF] /\ ~fat_suspect
      BY <1>3 DEF RecordCluster
    <2>2. clus \in Clusters /\ fat[clus] = FREE /\ Consistent(fat, dir, Live)
      BY <1>1, <2>1 DEF FilesInv, FsInv, ClusterInv
    <2>3. \A i \in Live : dir[i].clus # clus
      BY <2>2 DEF Consistent, HeadsInUse
    <2>4. \A b \in Clusters : fat[b] # clus
      BY <2>2 DEF Consistent, LinksInUse
    <2>5. \A b \in Clusters \ {clus} : fat'[b] = fat[b]
      BY <2>1, ClusterTypes DEF FilesInv, FsInv, TypeOK, Fat
    <2> QED
      BY <2>1, <2>2, <2>3, <2>4, <2>5
  <1>4. ASSUME ~(fat_suspect' \/ overrun')
        PROVE  FilesLaid' /\ FilesSame /\ ~(fat_suspect \/ overrun)
    <2>1. ~fat_suspect' /\ ~fat_suspect /\ ~overrun /\ FilesLaid
      BY <1>1, <1>3, <1>4 DEF FilesInv, LayoutInv, FilesLaid
    <2>2. ASSUME NEW i \in Live
          PROVE  /\ Laid(fat', dir[i]) /\ dir[i].size <= dir[i].size
                 /\ \A p \in 0..(dir[i].size - 1) :
                      ByteOf(fat', data, dir[i], p) = ByteOf(fat, data, dir[i], p)
      <3>1. Laid(fat, dir[i]) /\ dir[i] \in Entry /\ dir[i].clus # clus
        BY <1>3, <2>1, LiveTypes DEF FilesInv, FilesLaid
      <3>2. dir[i].size <= dir[i].size
        BY <3>1, LastTypes
      <3> QED
        BY <1>3, <2>1, <3>1, <3>2, FileSame
    <2> QED
      BY <1>1, <2>1, <2>2 DEF FilesLaid, FilesSame, BytesKept
  <1>5. LayoutInv'
    BY <1>1, <1>4 DEF LayoutInv, AppendPcs, InPlace, FilesLaid
  <1>6. OwnInv'
    <2> SUFFICES ASSUME ~(fat_suspect' \/ lost_data' \/ overrun')
                 PROVE  FilesOwn' /\ PayloadAt(write_buffer)'
      BY <1>1 DEF OwnInv, FilesOwn
    <2>1. FilesOwn
      BY <1>1, <1>4 DEF FilesInv, OwnInv, FilesOwn
    <2>2. FilesOwn'
      BY <1>1, <1>4, <2>1 DEF FilesOwn, FilesSame, BytesKept, Own
    <2>3. PayloadAt(write_buffer)'
      BY <1>1, <1>2 DEF PayloadAt
    <2> QED
      BY <2>2, <2>3
  <1> QED
    BY <1>4, <1>5, <1>6 DEF FilesKept

\* What a write to the cluster clus leaves alone, if no file has bytes there that
\* the buffer has not.
LEMMA DataFiles ==
  ASSUME FilesInv, WriteData, pc \in {"fill", "extend"}, ~(fat_suspect \/ overrun),
         clus \in Clusters,
         \A i \in Live : \A p \in 0..(dir[i].size - 1) :
           Chain(fat, dir[i].clus)[p \div SECTOR_SIZE] = clus =>
             write_buffer[(p % SECTOR_SIZE) + 1] = data[clus][(p % SECTOR_SIZE) + 1]
  PROVE  /\ FilesLaid' /\ FilesSame
         /\ ~lost_data' => FilesOwn'
  <1>1. /\ UNCHANGED <<fat, dir>> /\ Live' = Live
        /\ data' = data \/ data' = [data EXCEPT ![clus] = write_buffer]
        /\ lost_data => lost_data'
    BY DEF WriteData, Live
  <1>2. /\ data \in Data /\ Clusters \subseteq 0..(FAT_ENTRIES - 1)
    BY ClusterTypes DEF FilesInv, FsInv, TypeOK
  <1>3. ASSUME NEW i \in Live, NEW p \in 0..(dir[i].size - 1)
        PROVE  ByteOf(fat, data', dir[i], p) = ByteOf(fat, data, dir[i], p)
    <2>1. Laid(fat, dir[i]) /\ dir[i] \in Entry
      BY LiveTypes DEF FilesInv, LayoutInv
    <2>2. CASE data' = data
      BY <2>2
    <2>3. CASE data' = [data EXCEPT ![clus] = write_buffer]
      <3>1. data'[clus] = write_buffer /\ \A x \in Clusters \ {clus} : data'[x] = data[x]
        BY <1>2, <2>3 DEF Data
      <3>2. CASE Chain(fat, dir[i].clus)[p \div SECTOR_SIZE] = clus
        BY <2>1, <3>1, <3>2, Place
      <3>3. CASE Chain(fat, dir[i].clus)[p \div SECTOR_SIZE] # clus
        <4>1. data'[Chain(fat, dir[i].clus)[p \div SECTOR_SIZE]]
                = data[Chain(fat, dir[i].clus)[p \div SECTOR_SIZE]]
          BY <2>1, <3>1, <3>3, Place
        <4> QED
          BY <2>1, <4>1, Place
      <3> QED
        BY <3>2, <3>3
    <2> QED
      BY <1>1, <2>2, <2>3
  <1>4. \A i \in Live : dir[i].size <= dir[i].size
    BY LiveTypes, LastTypes DEF FilesInv
  <1>5. FilesLaid'
    BY <1>1 DEF FilesInv, LayoutInv, FilesLaid
  <1>6. FilesSame
    BY <1>1, <1>3, <1>4 DEF FilesSame, BytesKept
  <1>7. ~lost_data' => FilesOwn'
    BY <1>1, <1>3 DEF FilesInv, OwnInv, FilesOwn, Own
  <1> QED
    BY <1>5, <1>6, <1>7

LEMMA FillFiles ==
  ASSUME FilesInv, FillCluster
  PROVE  FilesKept
  <1>1. /\ pc = "fill" /\ pc' = "find_slot" /\ WriteData
        /\ UNCHANGED <<fat, dir, op, clus, file_idx, fat_suspect, overrun>>
        /\ op.len \in 0..SECTOR_SIZE /\ (lost_data => lost_data')
    BY DEF FillCluster, WriteData, local, FilesInv, LayoutInv
  <1>2. ASSUME ~(fat_suspect' \/ overrun')
        PROVE  FilesLaid' /\ FilesSame /\ (~lost_data' => FilesOwn' /\ PayloadAt(data[clus])')
    <2>1. ~(fat_suspect \/ overrun) /\ Unclaimed(fat, dir, Live, clus)
      BY <1>1, <1>2 DEF FilesInv, FsInv, ClusterInv
    <2>2. clus \in Clusters
      BY <2>1 DEF Unclaimed
    <2>3. ASSUME NEW i \in Live, NEW p \in 0..(dir[i].size - 1)
          PROVE  Chain(fat, dir[i].clus)[p \div SECTOR_SIZE] # clus
      <3>1. Laid(fat, dir[i]) /\ dir[i] \in Entry
        BY <2>1, LiveTypes DEF FilesInv, LayoutInv
      <3> QED
        BY <2>1, <3>1, Place, UnclaimedApart
    <2>4. FilesLaid' /\ FilesSame /\ (~lost_data' => FilesOwn')
      BY <1>1, <2>1, <2>2, <2>3, DataFiles
    <2>5. ~lost_data' => PayloadAt(data[clus])'
      <3> SUFFICES ASSUME ~lost_data' PROVE PayloadAt(data[clus])'
        OBVIOUS
      <3>1. data'[clus] = write_buffer
        BY <1>1, <2>2, ClusterTypes DEF WriteData, FilesInv, FsInv, TypeOK, Data
      <3>2. \A q \in 1..op.len : write_buffer[q].file = op.name
        BY <1>1, <2>1 DEF FilesInv, OwnInv, PayloadAt
      <3> QED
        BY <1>1, <3>1, <3>2 DEF PayloadAt
    <2> QED
      BY <2>4, <2>5
  <1>3. LayoutInv'
    BY <1>1, <1>2 DEF LayoutInv, AppendPcs, InPlace, FilesLaid
  <1>4. OwnInv'
    BY <1>1, <1>2 DEF OwnInv, FilesOwn
  <1> QED
    BY <1>2, <1>3, <1>4 DEF FilesKept

LEMMA FindSlotFiles ==
  ASSUME FilesInv, FindSlot, ~Return
  PROVE  FilesKept
  <1>1. /\ pc = "find_slot" /\ pc' = "enter" /\ op.len \in 0..SECTOR_SIZE
        /\ UNCHANGED <<fat, dir, data, op, clus, write_buffer, fat_suspect, lost_data, overrun>>
    BY DEF FindSlot, disk, ghosts, FilesInv, LayoutInv
  <1>2. /\ Live' = Live /\ FilesSame
        /\ ~(fat_suspect' \/ overrun') => FilesLaid'
        /\ ~(fat_suspect' \/ lost_data' \/ overrun') => FilesOwn'
    BY <1>1, DiskSame
  <1>3. LayoutInv'
    BY <1>1, <1>2 DEF LayoutInv, AppendPcs, InPlace, FilesLaid
  <1>4. ~(fat_suspect \/ lost_data \/ overrun) => \A q \in 1..op.len : data[clus][q].file = op.name
    BY <1>1 DEF FilesInv, OwnInv, PayloadAt
  <1>5. OwnInv'
    BY <1>1, <1>2, <1>4 DEF OwnInv, FilesOwn, PayloadAt
  <1> QED
    BY <1>2, <1>3, <1>5 DEF FilesKept

LEMMA EnterFiles ==
  ASSUME FilesInv, EnterFile
  PROVE  FilesKept
  <1> DEFINE e == [name |-> op.name, clus |-> clus, size |-> op.len]
  <1>1. /\ e \in Entry /\ e.name = op.name /\ e.clus = clus /\ e.size = op.len
        /\ e.name \in Names /\ pc = "enter" /\ WriteDir(e)
    BY DEF EnterFile, FilesInv, FsInv, TypeOK, Entry
  <1> HIDE DEF e
  <1>2. /\ dir' = dir \/ dir' = [dir EXCEPT ![file_idx] = e]
        /\ pc' = "idle" /\ op' = op /\ op.len \in 0..SECTOR_SIZE
        /\ UNCHANGED <<fat, data, fat_suspect, lost_data, overrun>>
    BY <1>1 DEF WriteDir, Return, local, FilesInv, LayoutInv
  <1>3. CASE dir' = dir
    BY <1>2, <1>3, CalmFiles DEF disk, CalmPcs
  <1>4. CASE dir' = [dir EXCEPT ![file_idx] = e]
    <2>1. file_idx \in Entries /\ dir[file_idx].name \in NoName
      BY <1>1 DEF FilesInv, FsInv, TypeOK, SlotInv, FirstOf, FreeSlots
    <2>2. dir'[file_idx] = e /\ \A i \in Entries \ {file_idx} : dir'[i] = dir[i]
      BY <1>4, <2>1 DEF FilesInv, FsInv, TypeOK
    <2>3. /\ Live' = Live \cup {file_idx} /\ Live \subseteq Entries \ {file_idx}
          /\ \A i \in Live : dir'[i] = dir[i]
      BY <1>1, <2>1, <2>2, InputAssumption DEF Live, LiveIn, NoName
    <2>4. \A i \in Live : dir[i].size <= dir[i].size
      BY LiveTypes, LastTypes DEF FilesInv
    <2>5. FilesSame
      BY <1>2, <2>3, <2>4 DEF FilesSame, BytesKept
    <2>6. LastIndex(e) = 0 /\ Chain(fat, e.clus)[0] = clus
      <3>1. CASE op.len = 0
        BY <1>1, <3>1, ChainDef DEF LastIndex
      <3>2. CASE op.len # 0
        <4>1. op.len - 1 \in Nat /\ op.len - 1 \in 0..(SECTOR_SIZE - 1)
              /\ SECTOR_SIZE \in Nat \ {0} /\ op.len - 1 = SECTOR_SIZE * 0 + (op.len - 1)
          BY <1>2, <3>2, GeometryAssumption
        <4>2. ((op.len - 1) \div SECTOR_SIZE) = 0
          BY <4>1, DivUnique
        <4> QED
          BY <1>1, <3>2, <4>2, ChainDef DEF LastIndex
      <3> QED
        BY <3>1, <3>2
    <2>7. ASSUME ~(fat_suspect' \/ overrun') PROVE FilesLaid'
      <3>1. Unclaimed(fat, dir, Live, clus) /\ FilesLaid
        BY <1>1, <1>2, <2>7 DEF FilesInv, FsInv, ClusterInv, LayoutInv, FilesLaid
      <3>2. Laid(fat, e)
        BY <2>6, <3>1, ClusterTypes DEF Laid, Unclaimed
      <3> QED
        BY <1>2, <2>2, <2>3, <3>1, <3>2 DEF FilesLaid
    <2>8. ASSUME ~(fat_suspect' \/ lost_data' \/ overrun') PROVE FilesOwn'
      <3>1. FilesOwn /\ \A q \in 1..op.len : data[clus][q].file = op.name
        BY <1>1, <1>2, <2>8 DEF FilesInv, OwnInv, PayloadAt, FilesOwn
      <3>2. clus \in Clusters
        BY <1>1, <1>2, <2>8 DEF FilesInv, FsInv, ClusterInv, Unclaimed
      <3>3. ASSUME NEW p \in 0..(e.size - 1)
            PROVE  ByteOf(fat, data, e, p).file = e.name
        <4>1. /\ p \in Nat /\ p \in 0..(SECTOR_SIZE - 1) /\ p + 1 \in 1..op.len
              /\ p = SECTOR_SIZE * 0 + p /\ SECTOR_SIZE \in Nat \ {0}
          BY <1>1, <1>2, GeometryAssumption
        <4>2. (p \div SECTOR_SIZE) = 0 /\ (p % SECTOR_SIZE) = p
          BY <4>1, DivUnique
        <4> QED
          BY <1>1, <2>6, <3>1, <3>2, <4>1, <4>2 DEF ByteOf
      <3>4. Own(fat, data, e)
        BY <3>3 DEF Own
      <3> QED
        BY <1>2, <2>2, <2>3, <3>1, <3>4 DEF FilesOwn
    <2>9. LayoutInv'
      BY <1>2, <2>7 DEF LayoutInv, AppendPcs, InPlace, FilesLaid
    <2>10. OwnInv'
      BY <1>2, <2>8 DEF OwnInv, FilesOwn
    <2> QED
      BY <2>5, <2>9, <2>10 DEF FilesKept
  <1> QED
    BY <1>2, <1>3, <1>4

LEMMA FindFileFiles ==
  ASSUME FilesInv, FindFile, pc' # "find_cluster"
  PROVE  FilesKept
  <1>1. /\ pc = "find_file" /\ op.len \in 0..SECTOR_SIZE
        /\ UNCHANGED <<fat, dir, data, op, fat_suspect, lost_data, overrun>>
    BY DEF FindFile, disk, ghosts, FilesInv, LayoutInv
  <1>2. /\ file_idx' \in Entries /\ FirstOf(file_idx', Matches(op.name))
        /\ clus' = dir[file_idx'].clus /\ pc' = "load_fat"
    BY DEF FindFile
  <1>3. dir[file_idx'].name = op.name /\ op.name \in Names
    BY <1>1, <1>2 DEF FirstOf, Matches, FilesInv, FsInv
  <1>4. FileFound' /\ clus' = (Found.clus)'
    BY <1>1, <1>2, <1>3 DEF FileFound, Found, Live, LiveIn
  <1>5. /\ Live' = Live /\ FilesSame
        /\ ~(fat_suspect' \/ overrun') => FilesLaid'
        /\ ~(fat_suspect' \/ lost_data' \/ overrun') => FilesOwn'
    BY <1>1, DiskSame
  <1>6. InPlace'
    BY <1>2, <1>4 DEF InPlace
  <1>7. LayoutInv'
    BY <1>1, <1>2, <1>4, <1>5, <1>6 DEF LayoutInv, FilesLaid
  <1>8. OwnInv'
    BY <1>2, <1>5 DEF OwnInv, FilesOwn
  <1> QED
    BY <1>5, <1>7, <1>8 DEF FilesKept

\* The steps between the search for the file and the change of its last sector.
LEMMA WalkSteps ==
  ASSUME FilesInv, LoadFat \/ (Walk /\ ~Return) \/ WalkEnd
  PROVE  FilesKept
  <1>1. /\ pc \in AppendPcs /\ pc' \in {"walk", "load_last"} /\ op.len \in 0..SECTOR_SIZE
        /\ UNCHANGED <<fat, dir, data, op, file_idx, fat_suspect, lost_data, overrun>>
    BY DEF LoadFat, Walk, WalkEnd, disk, local, ghosts, AppendPcs, FilesInv, LayoutInv
  <1>2. FileFound /\ FileFound' /\ Found' = Found
    BY <1>1 DEF FilesInv, LayoutInv, FileFound, Found, Live
  <1>3. Found \in Entry /\ LastIndex(Found) \in Nat
    BY <1>2, LiveTypes, LastTypes DEF FileFound, Found, FilesInv
  <1>4. /\ Live' = Live /\ FilesSame
        /\ ~(fat_suspect' \/ overrun') => FilesLaid'
        /\ ~(fat_suspect' \/ lost_data' \/ overrun') => FilesOwn'
    BY <1>1, DiskSame
  <1>5. ASSUME ~(fat_suspect \/ overrun) PROVE InPlace'
    <2>1. Laid(fat, Found) /\ InPlace
      BY <1>2, <1>5 DEF FilesInv, LayoutInv, FileFound, Found
    <2>2. CASE LoadFat
      <3>1. clus = Chain(fat, Found.clus)[0] /\ 0 \in 0..LastIndex(Found)
        BY <1>3, <2>1, <2>2, ChainDef DEF LoadFat, InPlace
      <3> QED
        BY <1>1, <1>2, <2>2, <3>1 DEF LoadFat, InPlace
    <2>3. CASE Walk /\ ~Return
      <3>1. PICK k \in 0..LastIndex(Found) : clus = Chain(fat, Found.clus)[k]
        BY <2>1, <2>3 DEF Walk, InPlace
      <3>2. fat[clus] \in Clusters /\ clus' = fat[clus] /\ pc' = "walk"
        BY <2>3 DEF Walk, HasNext
      <3>3. k # LastIndex(Found)
        BY <2>1, <3>1, <3>2 DEF Laid
      <3>4. /\ k + 1 \in 0..LastIndex(Found) /\ k + 1 \in 0..FAT_ENTRIES
            /\ k + 1 # 0 /\ (k + 1) - 1 = k
        BY <1>3, <2>1, <3>3, ClusterTypes DEF Laid
      <3>5. Chain(fat, Found.clus)[k + 1] = Hop(fat, clus) /\ clus \in Clusters
        BY <2>1, <3>1, <3>4, ChainDef DEF Laid
      <3>6. clus' = Chain(fat, Found.clus)[k + 1]
        BY <3>2, <3>5 DEF Hop
      <3> QED
        BY <1>1, <1>2, <3>2, <3>4, <3>6 DEF InPlace
    <2>4. CASE WalkEnd
      <3>1. PICK k \in 0..LastIndex(Found) : clus = Chain(fat, Found.clus)[k]
        BY <2>1, <2>4 DEF WalkEnd, InPlace
      <3>2. fat[clus] \notin Clusters /\ clus' = clus /\ pc' = "load_last"
        BY <2>4 DEF WalkEnd, HasNext, local
      <3>3. CASE k # LastIndex(Found)
        <4>1. /\ k + 1 \in 0..LastIndex(Found) /\ k + 1 \in 0..FAT_ENTRIES
              /\ k + 1 # 0 /\ (k + 1) - 1 = k
          BY <1>3, <2>1, <3>3, ClusterTypes DEF Laid
        <4>2. /\ Chain(fat, Found.clus)[k + 1] = Hop(fat, clus)
              /\ Chain(fat, Found.clus)[k + 1] \in Clusters /\ clus \in Clusters
          BY <2>1, <3>1, <4>1, ChainDef DEF Laid
        <4> QED
          BY <3>2, <4>2 DEF Hop
      <3> QED
        BY <1>1, <1>2, <3>1, <3>2, <3>3 DEF InPlace
    <2> QED
      BY <2>2, <2>3, <2>4
  <1>6. LayoutInv'
    BY <1>1, <1>2, <1>4, <1>5 DEF LayoutInv, FilesLaid
  <1>7. OwnInv'
    BY <1>1, <1>4 DEF OwnInv, FilesOwn
  <1> QED
    BY <1>4, <1>6, <1>7 DEF FilesKept

LEMMA LoadLastFiles ==
  ASSUME FilesInv, LoadLast
  PROVE  FilesKept
  <1>1. /\ pc = "load_last" /\ pc' = "extend" /\ op.len \in 0..SECTOR_SIZE
        /\ UNCHANGED <<fat, dir, data, op, clus, file_idx, fat_suspect, lost_data>>
        /\ overrun' = (overrun \/ (Size > 0 /\ Size % SECTOR_SIZE = 0))
    BY DEF LoadLast, disk, FilesInv, LayoutInv
  <1>2. FileFound /\ FileFound' /\ Found' = Found
    BY <1>1 DEF FilesInv, LayoutInv, AppendPcs, FileFound, Found, Live
  <1>3. /\ Live' = Live /\ FilesSame
        /\ ~(fat_suspect' \/ overrun') => FilesLaid'
        /\ ~(fat_suspect' \/ lost_data' \/ overrun') => FilesOwn'
    BY <1>1, DiskSame
  <1>4. /\ Size \in Nat /\ Offset \in 0..(SECTOR_SIZE - 1)
        /\ to_copy \in Nat /\ to_copy <= op.len /\ Offset + to_copy <= SECTOR_SIZE
        /\ UNCHANGED <<Size, Offset, to_copy>>
    BY <1>1, CopyTypes DEF FilesInv, Size, Offset, to_copy, SpaceLeft
  <1>5. /\ \A q \in 1..Offset : write_buffer'[q] = data[clus][q]
        /\ \A q \in (Offset + 1)..(Offset + to_copy) : write_buffer'[q].file = op.name
    <2>1. write_buffer' = [i \in 1..SECTOR_SIZE |->
            IF i - Offset \in 1..to_copy THEN Payload[i - Offset] ELSE data[clus][i]]
      BY DEF LoadLast
    <2>2. \A q \in 1..Offset : q \in 1..SECTOR_SIZE /\ q - Offset \notin 1..to_copy
      BY <1>4, GeometryAssumption
    <2>3. \A q \in (Offset + 1)..(Offset + to_copy) :
            q \in 1..SECTOR_SIZE /\ q - Offset \in 1..to_copy /\ q - Offset \in 1..op.len
      BY <1>1, <1>4, GeometryAssumption
    <2>4. \A k \in 1..op.len : Payload[k].file = op.name
      BY DEF Payload, Byte
    <2> QED
      BY <2>1, <2>2, <2>3, <2>4
  <1>6. ~(fat_suspect' \/ overrun') => InPlace'
    <2> SUFFICES ASSUME ~(fat_suspect' \/ overrun') PROVE InPlace'
      OBVIOUS
    <2>1. ~(fat_suspect \/ overrun) /\ (Size = 0 \/ Size % SECTOR_SIZE # 0)
      <3>1. ~(fat_suspect \/ overrun) /\ ~(Size > 0 /\ Size % SECTOR_SIZE = 0)
        BY <1>1, Zenon
      <3>2. Size > 0 \/ Size = 0
        BY <1>4
      <3> QED
        BY <3>1, <3>2, Zenon
    <2>2. clus = Chain(fat, Found.clus)[LastIndex(Found)]
      BY <1>1, <2>1 DEF FilesInv, LayoutInv, InPlace
    <2> QED
      BY <1>1, <1>2, <1>4, <2>1, <2>2 DEF InPlace
  <1>7. LayoutInv'
    BY <1>1, <1>2, <1>3, <1>4, <1>5, <1>6 DEF LayoutInv, FilesLaid
  <1>8. PayloadAt(write_buffer)'
    BY <1>1, <1>4, <1>5 DEF PayloadAt
  <1>9. OwnInv'
    BY <1>1, <1>3, <1>8 DEF OwnInv, FilesOwn
  <1> QED
    BY <1>3, <1>7, <1>9 DEF FilesKept

\* The last sector of the file being appended to holds bytes of no other file, and
\* of this one only those before the end.
LEMMA LastSector ==
  ASSUME FilesInv, pc = "extend", ~(fat_suspect \/ overrun),
         NEW i \in Live, NEW p \in 0..(dir[i].size - 1),
         Chain(fat, dir[i].clus)[p \div SECTOR_SIZE] = clus
  PROVE  clus \in Clusters /\ (p % SECTOR_SIZE) + 1 \in 1..Offset
  <1>1. /\ FileFound /\ InPlace /\ Laid(fat, Found) /\ Laid(fat, dir[i])
        /\ Consistent(fat, dir, Live)
    BY DEF FilesInv, FsInv, ClusterInv, LayoutInv, AppendPcs, FileFound, Found
  <1>2. /\ file_idx \in Live /\ Found = dir[file_idx] /\ Found \in Entry /\ dir[i] \in Entry
        /\ Size = Found.size
    BY <1>1, LiveTypes DEF FilesInv, FileFound, Found, Size
  <1>3. LastIndex(Found) \in 0..FAT_ENTRIES /\ LastIndex(Found) \in 0..LastIndex(Found)
    BY <1>1, <1>2, LastTypes, ClusterTypes DEF Laid
  <1>4. clus = Chain(fat, Found.clus)[LastIndex(Found)] /\ clus \in Clusters
    BY <1>1, <1>3 DEF InPlace, Laid
  <1>5. (p \div SECTOR_SIZE) \in 0..FAT_ENTRIES /\ (p % SECTOR_SIZE) \in 0..(SECTOR_SIZE - 1)
    BY <1>1, <1>2, Place
  <1>6. i = file_idx /\ (p \div SECTOR_SIZE) = LastIndex(Found)
    BY <1>1, <1>2, <1>3, <1>4, <1>5, ChainsApart
  <1>7. /\ Size \in Nat /\ Size # 0 /\ p \in Nat /\ p < Size /\ SECTOR_SIZE \in Nat \ {0}
        /\ (Size % SECTOR_SIZE) # 0
    BY <1>1, <1>2, <1>6, LastTypes, GeometryAssumption DEF InPlace
  <1>8. (p \div SECTOR_SIZE) = (Size \div SECTOR_SIZE)
    BY <1>2, <1>6, <1>7, DivBelow DEF LastIndex
  <1>9. (p % SECTOR_SIZE) < (Size % SECTOR_SIZE)
    BY <1>7, <1>8, ModBelow
  <1>10. (Size % SECTOR_SIZE) \in Nat
    BY <1>7, DivMod
  <1> QED
    BY <1>4, <1>5, <1>9, <1>10 DEF Offset

LEMMA ExtendFiles ==
  ASSUME FilesInv, Extend
  PROVE  FilesKept
  <1>1. /\ pc = "extend" /\ pc' = "reload_dir" /\ WriteData
        /\ UNCHANGED <<fat, dir, op, clus, file_idx, fat_suspect, overrun>>
        /\ op.len \in 0..SECTOR_SIZE /\ (lost_data => lost_data')
    BY DEF Extend, WriteData, local, FilesInv, LayoutInv
  <1>2. FileFound /\ FileFound' /\ Found' = Found
    BY <1>1 DEF FilesInv, LayoutInv, AppendPcs, FileFound, Found, Live
  <1>3. UNCHANGED <<Size, Offset, to_copy>>
    BY <1>1 DEF Size, Offset, to_copy, SpaceLeft
  <1>4. ASSUME ~(fat_suspect' \/ overrun')
        PROVE  /\ FilesLaid' /\ FilesSame /\ InPlace'
               /\ ~lost_data' => FilesOwn' /\ PayloadAt(data[clus])'
    <2>1. ~(fat_suspect \/ overrun) /\ InPlace /\ Laid(fat, Found)
          /\ \A q \in 1..Offset : write_buffer[q] = data[clus][q]
      BY <1>1, <1>2, <1>4 DEF FilesInv, LayoutInv, FileFound, Found
    <2>2. clus = Chain(fat, Found.clus)[LastIndex(Found)] /\ clus \in Clusters
      <3>1. Found \in Entry
        BY <1>2, LiveTypes DEF FilesInv, FileFound, Found
      <3>2. LastIndex(Found) \in 0..LastIndex(Found)
        BY <3>1, LastTypes
      <3> QED
        BY <1>1, <2>1, <3>2 DEF InPlace, Laid
    <2>3. \A i \in Live : \A p \in 0..(dir[i].size - 1) :
            Chain(fat, dir[i].clus)[p \div SECTOR_SIZE] = clus =>
              write_buffer[(p % SECTOR_SIZE) + 1] = data[clus][(p % SECTOR_SIZE) + 1]
      BY <1>1, <2>1, LastSector
    <2>4. FilesLaid' /\ FilesSame /\ (~lost_data' => FilesOwn')
      BY <1>1, <2>1, <2>2, <2>3, DataFiles
    <2>5. InPlace'
      BY <1>1, <1>2, <1>3, <2>1 DEF InPlace
    <2>6. ASSUME ~lost_data' PROVE PayloadAt(data[clus])'
      <3>1. data'[clus] = write_buffer
        BY <1>1, <2>2, <2>6, ClusterTypes DEF WriteData, FilesInv, FsInv, TypeOK, Data
      <3>2. \A q \in (Offset + 1)..(Offset + to_copy) : write_buffer[q].file = op.name
        BY <1>1, <2>1, <2>6 DEF FilesInv, OwnInv, PayloadAt
      <3> QED
        BY <1>1, <1>3, <3>1, <3>2 DEF PayloadAt
    <2> QED
      BY <2>4, <2>5, <2>6
  <1>5. LayoutInv'
    BY <1>1, <1>2, <1>4 DEF LayoutInv, FilesLaid
  <1>6. OwnInv'
    BY <1>1, <1>4 DEF OwnInv, FilesOwn
  <1> QED
    BY <1>4, <1>5, <1>6 DEF FilesKept

LEMMA ReloadFiles ==
  ASSUME FilesInv, ReloadDir
  PROVE  FilesKept
  <1>1. /\ pc = "reload_dir" /\ pc' = "grow" /\ op.len \in 0..SECTOR_SIZE
        /\ UNCHANGED <<fat, dir, data, op, clus, file_idx, fat_suspect, lost_data, overrun>>
    BY DEF ReloadDir, disk, ghosts, FilesInv, LayoutInv
  <1>2. /\ FileFound /\ FileFound' /\ Found' = Found /\ UNCHANGED <<Size, Offset, to_copy>>
    BY <1>1 DEF FilesInv, LayoutInv, AppendPcs, FileFound, Found, Live, Size, Offset,
                to_copy, SpaceLeft
  <1>3. /\ Live' = Live /\ FilesSame
        /\ ~(fat_suspect' \/ overrun') => FilesLaid'
        /\ ~(fat_suspect' \/ lost_data' \/ overrun') => FilesOwn'
    BY <1>1, DiskSame
  <1>4. ~(fat_suspect' \/ overrun') => InPlace'
    BY <1>1, <1>2 DEF FilesInv, LayoutInv, InPlace
  <1>5. LayoutInv'
    BY <1>1, <1>2, <1>3, <1>4 DEF LayoutInv, FilesLaid
  <1>6. ~(fat_suspect \/ lost_data \/ overrun) =>
          \A q \in (Offset + 1)..(Offset + to_copy) : data[clus][q].file = op.name
    BY <1>1 DEF FilesInv, OwnInv, PayloadAt
  <1>7. OwnInv'
    BY <1>1, <1>2, <1>3, <1>6 DEF OwnInv, FilesOwn, PayloadAt
  <1> QED
    BY <1>3, <1>5, <1>7 DEF FilesKept

\* What a file that grows within its last sector is like.
LEMMA GrownFile ==
  ASSUME NEW f, NEW e \in Entry, NEW t \in Nat, Laid(f, e),
         e.size = 0 \/ (e.size % SECTOR_SIZE) # 0,
         (e.size % SECTOR_SIZE) + t <= SECTOR_SIZE,
         NEW g \in Entry, g.size = e.size + t, g.clus = e.clus
  PROVE  /\ LastIndex(g) = LastIndex(e) /\ Laid(f, g)
         /\ \A b : \A p \in 0..(e.size - 1) : ByteOf(f, b, g, p) = ByteOf(f, b, e, p)
         /\ \A m \in 0..(t - 1) : \A b : ByteOf(f, b, g, e.size + m) =
              b[Chain(f, e.clus)[LastIndex(e)]][(e.size % SECTOR_SIZE) + m + 1]
  <1> DEFINE n == e.size
             o == n % SECTOR_SIZE
  <1>1. n \in Nat /\ SECTOR_SIZE \in Nat \ {0} /\ t \in Nat
    BY LastTypes, GeometryAssumption
  <1>2. o \in 0..(SECTOR_SIZE - 1) /\ (n = 0 => o = 0 /\ (n \div SECTOR_SIZE) = 0)
    <2>1. o \in 0..(SECTOR_SIZE - 1)
      BY <1>1, DivMod
    <2>2. ASSUME n = 0 PROVE o = 0 /\ (n \div SECTOR_SIZE) = 0
      <3>1. n = SECTOR_SIZE * 0 + 0 /\ 0 \in 0..(SECTOR_SIZE - 1)
        BY <1>1, <2>2
      <3> QED
        BY <1>1, <3>1, DivUnique
    <2> QED
      BY <2>1, <2>2
  <1>3. LastIndex(e) = (n \div SECTOR_SIZE)
    <2>1. CASE n = 0
      BY <1>2, <2>1 DEF LastIndex
    <2>2. CASE n # 0
      BY <1>1, <2>2, DivBelow DEF LastIndex
    <2> QED
      BY <2>1, <2>2
  <1>4. ASSUME NEW m \in 0..(t - 1)
        PROVE  /\ n + m \in Nat /\ ((n + m) \div SECTOR_SIZE) = (n \div SECTOR_SIZE)
               /\ ((n + m) % SECTOR_SIZE) = o + m
    <2>1. m \in Nat /\ n \in Nat /\ o = n % SECTOR_SIZE /\ SECTOR_SIZE \in Nat \ {0}
          /\ (n % SECTOR_SIZE) + m < SECTOR_SIZE
      BY <1>1, <1>2
    <2> HIDE DEF n, o
    <2>2. ((n + m) \div SECTOR_SIZE) = (n \div SECTOR_SIZE)
          /\ ((n + m) % SECTOR_SIZE) = (n % SECTOR_SIZE) + m
      BY <2>1, DivAbove, Zenon
    <2> QED
      BY <2>1, <2>2
  <1>5. LastIndex(g) = LastIndex(e)
    <2>1. CASE t = 0
      BY <1>1, <2>1 DEF LastIndex
    <2>2. CASE t # 0
      <3>1. t - 1 \in 0..(t - 1) /\ g.size # 0 /\ g.size - 1 = n + (t - 1)
        BY <1>1, <2>2
      <3>2. ((n + (t - 1)) \div SECTOR_SIZE) = (n \div SECTOR_SIZE)
        BY <1>4, <3>1
      <3> QED
        BY <1>3, <3>1, <3>2 DEF LastIndex
    <2> QED
      BY <2>1, <2>2
  <1>6. Laid(f, g)
    BY <1>5 DEF Laid
  <1>7. LastIndex(e) \in 0..LastIndex(e) /\ Chain(f, e.clus)[LastIndex(e)] \in Clusters
    BY LastTypes DEF Laid
  <1>8. ASSUME NEW m \in 0..(t - 1), NEW b
        PROVE  ByteOf(f, b, g, n + m) = b[Chain(f, e.clus)[LastIndex(e)]][o + m + 1]
    BY <1>3, <1>4, <1>7 DEF ByteOf
  <1>9. \A b : \A p \in 0..(e.size - 1) : ByteOf(f, b, g, p) = ByteOf(f, b, e, p)
    BY DEF ByteOf
  <1> QED
    BY <1>5, <1>6, <1>8, <1>9

LEMMA GrowFiles ==
  ASSUME FilesInv, Grow
  PROVE  FilesKept
  <1> DEFINE e == [dir[file_idx] EXCEPT !.size = Size + to_copy]
  <1>1. /\ Size \in Nat /\ Offset \in 0..(SECTOR_SIZE - 1)
        /\ to_copy \in Nat /\ Offset + to_copy <= SECTOR_SIZE
    BY CopyTypes DEF FilesInv
  <1>2. /\ FileFound /\ file_idx \in Live /\ Found \in Entry /\ Found = dir[file_idx]
        /\ Size = Found.size /\ Found.name = op.name /\ Found.name \in Names
        /\ Live \subseteq Entries
    BY LiveTypes DEF Grow, FilesInv, LayoutInv, AppendPcs, FileFound, Found, Size
  <1>3. /\ e \in Entry /\ e.name = Found.name /\ e.clus = Found.clus
        /\ e.size = Found.size + to_copy /\ pc = "grow" /\ WriteDir(e)
    BY <1>1, <1>2 DEF Grow, Entry
  <1> HIDE DEF e
  <1>4. /\ dir' = dir \/ dir' = [dir EXCEPT ![file_idx] = e]
        /\ pc' = "idle" /\ op' = op /\ op.len \in 0..SECTOR_SIZE
        /\ UNCHANGED <<fat, data, fat_suspect, lost_data, overrun>>
    BY <1>3 DEF WriteDir, Return, local, FilesInv, LayoutInv
  <1>5. CASE dir' = dir
    BY <1>4, <1>5, CalmFiles DEF disk, CalmPcs
  <1>6. CASE dir' = [dir EXCEPT ![file_idx] = e]
    <2>1. dir'[file_idx] = e /\ \A i \in Entries \ {file_idx} : dir'[i] = dir[i]
      BY <1>2, <1>6 DEF FilesInv, FsInv, TypeOK
    <2>2. Live' = Live
      BY <1>2, <1>3, <2>1 DEF Live, LiveIn
    <2>3. \A i \in Live : dir[i].size \in Nat /\ dir[i].size <= dir[i].size
      BY LiveTypes, LastTypes DEF FilesInv
    <2>4. Found.size <= e.size
      BY <1>1, <1>2, <1>3
    <2>5. ASSUME ~(fat_suspect' \/ overrun')
          PROVE  /\ FilesLaid' /\ FilesSame /\ LastIndex(e) = LastIndex(Found)
                 /\ clus = Chain(fat, Found.clus)[LastIndex(Found)]
                 /\ \A p \in 0..(Found.size - 1) :
                      ByteOf(fat, data, e, p) = ByteOf(fat, data, Found, p)
                 /\ \A m \in 0..(to_copy - 1) :
                      ByteOf(fat, data, e, Found.size + m) = data[clus][Offset + m + 1]
      <3>1. /\ FilesLaid /\ clus = Chain(fat, Found.clus)[LastIndex(Found)]
            /\ (Found.size = 0 \/ (Found.size % SECTOR_SIZE) # 0)
        BY <1>2, <1>3, <1>4, <2>5 DEF FilesInv, LayoutInv, FilesLaid, InPlace
      <3>2. Laid(fat, Found) /\ Offset = Found.size % SECTOR_SIZE
        BY <1>2, <3>1 DEF FilesLaid, Offset
      <3>3. /\ LastIndex(e) = LastIndex(Found) /\ Laid(fat, e)
            /\ \A p \in 0..(Found.size - 1) :
                 ByteOf(fat, data, e, p) = ByteOf(fat, data, Found, p)
            /\ \A m \in 0..(to_copy - 1) :
                 ByteOf(fat, data, e, Found.size + m) = data[clus][Offset + m + 1]
        BY <1>1, <1>2, <1>3, <3>1, <3>2, GrownFile
      <3>4. FilesLaid'
        BY <1>2, <1>4, <2>1, <2>2, <3>1, <3>3 DEF FilesLaid
      <3>5. FilesSame
        <4>1. ASSUME NEW i \in Live, i # file_idx
              PROVE  /\ i \in Live' /\ dir'[i].name = dir[i].name
                     /\ dir[i].size <= dir'[i].size /\ BytesKept(i)
          BY <1>2, <1>4, <2>1, <2>2, <2>3, <4>1 DEF BytesKept
        <4>2. /\ file_idx \in Live' /\ dir'[file_idx].name = dir[file_idx].name
              /\ dir[file_idx].size <= dir'[file_idx].size /\ BytesKept(file_idx)
          BY <1>2, <1>3, <1>4, <2>1, <2>2, <2>4, <3>3 DEF BytesKept
        <4> QED
          BY <4>1, <4>2 DEF FilesSame
      <3> QED
        BY <3>1, <3>3, <3>4, <3>5
    <2>6. ASSUME ~(fat_suspect' \/ lost_data' \/ overrun') PROVE FilesOwn'
      <3>1. /\ FilesOwn /\ Own(fat, data, Found)
            /\ \A q \in (Offset + 1)..(Offset + to_copy) : data[clus][q].file = op.name
        BY <1>2, <1>3, <1>4, <2>6 DEF FilesInv, OwnInv, FilesOwn, PayloadAt
      <3>2. ASSUME NEW p \in 0..(e.size - 1)
            PROVE  ByteOf(fat, data, e, p).file = e.name
        <4>1. CASE p \in 0..(Found.size - 1)
          BY <1>3, <2>5, <2>6, <3>1, <4>1 DEF Own
        <4>2. CASE p \notin 0..(Found.size - 1)
          <5> DEFINE m == p - Found.size
          <5>1. m \in 0..(to_copy - 1) /\ p = Found.size + m
                /\ Offset + m + 1 \in (Offset + 1)..(Offset + to_copy)
            BY <1>1, <1>2, <1>3, <4>2
          <5> HIDE DEF m
          <5>2. ByteOf(fat, data, e, p) = data[clus][Offset + m + 1]
            BY <2>5, <2>6, <5>1
          <5> QED
            BY <1>2, <1>3, <3>1, <5>1, <5>2
        <4> QED
          BY <4>1, <4>2
      <3>3. Own(fat, data, e)
        BY <3>2 DEF Own
      <3> QED
        BY <1>2, <1>4, <2>1, <2>2, <3>1, <3>3 DEF FilesOwn
    <2>7. LayoutInv'
      BY <1>4, <2>5 DEF LayoutInv, AppendPcs, InPlace, FilesLaid
    <2>8. OwnInv'
      BY <1>4, <2>6 DEF OwnInv, FilesOwn
    <2> QED
      BY <2>5, <2>7, <2>8 DEF FilesKept
  <1> QED
    BY <1>4, <1>5, <1>6

LEMMA StutterFiles ==
  ASSUME FilesInv, UNCHANGED vars
  PROVE  FilesKept
  <1>1. UNCHANGED <<fat, dir, data, pc, op, clus, file_idx, write_buffer,
                    fat_suspect, lost_data, overrun>>
    BY DEF vars
  <1>2. Live' = Live /\ FilesSame
    BY <1>1, DiskSame
  <1>3. UNCHANGED <<Size, Offset, to_copy, Found, FileFound, InPlace>>
    BY <1>1 DEF Size, Offset, to_copy, SpaceLeft, Found, FileFound, InPlace, Live
  <1>4. LayoutInv'
    BY <1>1, <1>2, <1>3 DEF FilesInv, LayoutInv
  <1>5. OwnInv'
    BY <1>1, <1>2, <1>3 DEF FilesInv, OwnInv, PayloadAt
  <1> QED
    BY <1>2, <1>4, <1>5 DEF FilesKept

\* Every step keeps what is said of the files.
LEMMA StepFiles ==
  ASSUME FilesInv, [Next]_vars
  PROVE  FilesInv' /\ (~(fat_suspect' \/ overrun') => FilesSame)
  <1>1. FsInv'
    BY CallKeeps, ReadFailsKeeps, FindClusterKeeps, RecordClusterKeeps, FillClusterKeeps,
       FindSlotKeeps, EnterFileKeeps, AppendKeeps, GrowKeeps, OtherKeeps, StutterKeeps
    DEF Next, FsStep, FilesInv
  <1>2. FilesKept
    <2>1. CASE FindFile
      BY <2>1, QuietFiles, FindFileFiles
    <2>2. CASE FindSlot
      BY <2>2, QuietFiles, FindSlotFiles
    <2>3. CASE LoadFat \/ Walk \/ WalkEnd
      BY <2>3, QuietFiles, WalkSteps
    <2> QED
      BY <2>1, <2>2, <2>3, CallFiles, QuietFiles, RecordFiles, FillFiles, EnterFiles,
         LoadLastFiles, ExtendFiles, ReloadFiles, GrowFiles, StutterFiles
      DEF Next, FsStep
  <1> QED
    BY <1>1, <1>2 DEF FilesKept, FilesInv

LEMMA InitFiles ==
  ASSUME EndedDirs, HostFiles, Init
  PROVE  FilesInv
  <1>1. PICK d \in Disks : fat = d.fat /\ dir = d.dir /\ data = d.data
    BY DEF Init
  <1>2. /\ pc = "idle" /\ op = NoOp /\ NoOp.len = 0 /\ 0 \in 0..SECTOR_SIZE
    BY GeometryAssumption DEF Init, NoOp
  <1>3. fat_suspect = ~Consistent(fat, dir, LiveIn(dir))
    BY DEF Init
  <1>4. ~fat_suspect => \A i \in Live : Laid(fat, dir[i]) /\ Own(fat, data, dir[i])
    BY <1>1, <1>3 DEF HostFiles, Live
  <1>5. LayoutInv
    BY <1>2, <1>4 DEF LayoutInv, AppendPcs, InPlace
  <1>6. OwnInv
    BY <1>2, <1>4 DEF OwnInv
  <1> QED
    BY <1>5, <1>6, InitInv DEF FilesInv

\* The clusters of every file, the place of the append in progress and the bytes in
\* its buffer are what they should be.
THEOREM FilesInvariance ==
  ASSUME EndedDirs, HostFiles
  PROVE  Spec => []FilesInv
  <1>1. Init => FilesInv
    BY InitFiles
  <1>2. FilesInv /\ [Next]_vars => FilesInv'
    BY StepFiles
  <1> QED
    BY <1>1, <1>2, PTL DEF Spec

\* At every moment, a loss of power included, the bytes of a file are its own.
THEOREM NoForeignBytesCorrect ==
  ASSUME EndedDirs, HostFiles
  PROVE  Spec => []NoForeignBytes
  <1>1. FilesInv => NoForeignBytes
    <2> SUFFICES ASSUME FilesInv, ~(fat_suspect \/ lost_data \/ overrun),
                        NEW i \in Live, NEW p \in 1..dir[i].size
                 PROVE  Contents(i)[p].file = dir[i].name
      BY DEF NoForeignBytes
    <2>1. dir[i].size \in Nat
      BY LiveTypes, LastTypes DEF FilesInv
    <2>2. p - 1 \in 0..(dir[i].size - 1)
      BY <2>1
    <2> QED
      BY <2>2 DEF FilesInv, OwnInv, Own, Contents
  <1> QED
    BY <1>1, FilesInvariance, PTL

\* A function on 1..m is a prefix of one on 1..n that agrees with it and is longer.
LEMMA PrefixOf ==
  ASSUME NEW m \in Nat, NEW n \in Nat, m <= n, NEW F, NEW G,
         F = [p \in 1..m |-> F[p]], G = [p \in 1..n |-> G[p]],
         \A p \in 1..m : F[p] = G[p]
  PROVE  IsPrefix(F, G)
  <1> DEFINE T == {F[p] : p \in 1..m} \cup {G[p] : p \in 1..n}
  <1>1. F \in [1..m -> T] /\ G \in [1..n -> T] /\ DOMAIN F = 1..m /\ DOMAIN G = 1..n
    OBVIOUS
  <1> HIDE DEF T
  <1>2. F \in Seq(T) /\ G \in Seq(T)
    BY <1>1, SeqDef
  <1>3. Len(F) = m /\ Len(G) = n /\ m \in 0..Len(G)
    BY <1>1, <1>2, LenProperties
  <1>4. SubSeq(F, 1, m) = F
    BY <1>2, <1>3, SubSeqFull
  <1>5. SubSeq(G, 1, m) = [p \in 1..m |-> G[p]]
    BY <1>2, <1>3, SubSeqRestrict DEF Restrict
  <1>6. SubSeq(G, 1, m) = F
    BY <1>5
  <1> QED
    BY <1>3, <1>4, <1>6 DEF IsPrefix

\* No step takes a byte from a file or changes one, whatever the file.
THEOREM FilesOnlyGrowCorrect ==
  ASSUME EndedDirs, HostFiles
  PROVE  Spec => FilesOnlyGrow
  <1>1. FilesInv /\ [Next]_vars =>
          (~(fat_suspect' \/ overrun') =>
             \A i \in Live : dir'[i].name = dir[i].name /\ IsPrefix(Contents(i), Contents(i)'))
    <2> SUFFICES ASSUME FilesInv, [Next]_vars, ~(fat_suspect' \/ overrun'), NEW i \in Live
                 PROVE  dir'[i].name = dir[i].name /\ IsPrefix(Contents(i), Contents(i)')
      OBVIOUS
    <2>1. /\ i \in Live' /\ dir'[i].name = dir[i].name
          /\ dir[i].size <= dir'[i].size /\ BytesKept(i) /\ FilesInv'
      BY StepFiles DEF FilesSame
    <2>2. dir[i].size \in Nat /\ dir'[i].size \in Nat
      <3>1. dir[i] \in Entry /\ dir'[i] \in Entry
        BY <2>1, LiveTypes DEF FilesInv, FsInv, TypeOK, Live, LiveIn
      <3> QED
        BY <3>1, LastTypes
    <2> DEFINE m == dir[i].size
               n == dir'[i].size
               F == [p \in 1..m |-> ByteOf(fat, data, dir[i], p - 1)]
               G == [p \in 1..n |-> ByteOf(fat', data', dir'[i], p - 1)]
    <2>3. m \in Nat /\ n \in Nat /\ m <= n
      BY <2>1, <2>2
    <2>4. \A p \in 1..m : F[p] = G[p]
      <3>1. \A p \in 1..m : p - 1 \in 0..(m - 1) /\ p \in 1..n
        BY <2>3
      <3> QED
        BY <2>1, <3>1 DEF BytesKept
    <2>5. F = [p \in 1..m |-> F[p]] /\ G = [p \in 1..n |-> G[p]]
      OBVIOUS
    <2>6. Contents(i) = F /\ Contents(i)' = G
      BY DEF Contents
    <2> HIDE DEF m, n, F, G
    <2>7. IsPrefix(F, G)
      BY <2>3, <2>4, <2>5, PrefixOf
    <2> QED
      BY <2>1, <2>6, <2>7
  <1> QED
    BY <1>1, FilesInvariance, PTL DEF Spec, FilesOnlyGrow
=============================================================================
