--------------------------- MODULE Watcher_proofs ---------------------------
(***************************************************************************)
(* Proofs about the watcher, for every size of the ring and every bound.   *)
(* WatcherInv is inductive; its parts are proved separately, each from the *)
(* earlier ones, and the properties of Watcher follow from it.  The second *)
(* half is about Volumes: what the ledger's receipts say of a volume, for  *)
(* messages, buffers and ints of every size.                               *)
(***************************************************************************)
EXTENDS Watcher, Volumes, FiniteSetTheorems, SequenceTheorems, TLAPS

USE HistoryAssumption, AccessAssumption, BoundAssumption

-----------------------------------------------------------------------------
(* The modulo of the code, without modulo.  *)

\* watcher.c advances a slot with (i + 1) % WATCHER_HISTORY_MAX: it wraps at
\* the last slot and stays inside the array.
LEMMA NextSlotWraps ==
  ASSUME NEW i \in Slots
  PROVE  /\ NextSlot(i) = IF i + 1 = WATCHER_HISTORY_MAX THEN 0 ELSE i + 1
         /\ NextSlot(i) \in Slots
<1>1. CASE i + 1 = WATCHER_HISTORY_MAX
  BY <1>1, SMT DEF NextSlot, Slots
<1>2. CASE i + 1 < WATCHER_HISTORY_MAX
  BY <1>2, SMT DEF NextSlot, Slots
<1>3. QED
  BY <1>1, <1>2 DEF Slots

\* The dump walks count slots from the tail; it wraps at most once.
LEMMA SlotWraps ==
  ASSUME NEW i \in 0..(2 * WATCHER_HISTORY_MAX - 1)
  PROVE  i % WATCHER_HISTORY_MAX
           = IF i < WATCHER_HISTORY_MAX THEN i ELSE i - WATCHER_HISTORY_MAX
<1>1. CASE i < WATCHER_HISTORY_MAX
  BY <1>1, SMT
<1>2. CASE i >= WATCHER_HISTORY_MAX
  BY <1>2, SMTT(30)
<1>3. QED
  BY <1>1, <1>2

-----------------------------------------------------------------------------
(* Type correctness *)

LEMMA InitTypeOK == Init => TypeOK
BY DEF Init, TypeOK, Slots, Event, NoEvent

\* Logging an event keeps every variable in its type.
LEMMA LogTypeOK ==
  ASSUME TypeOK, NEW type \in LoggedTypes, LogEvent(type)
  PROVE  TypeOK'
<1>1. NextSlot(head) \in Slots /\ NextSlot(tail) \in Slots
  BY NextSlotWraps DEF TypeOK
<1>2. [timestamp |-> get_system_timer, type |-> type] \in Event
  BY DEF TypeOK, Event, get_system_timer
<1>3. events' \in [Slots -> Event]
  BY <1>2 DEF TypeOK, LogEvent, RingFull
<1>4. history' \in Seq(LoggedTypes)
  BY DEF TypeOK, LogEvent, RingFull
<1>5. count' \in 0..WATCHER_HISTORY_MAX /\ head' \in Slots /\ tail' \in Slots
      /\ sync_cursor' \in Slots
  BY <1>1 DEF TypeOK, LogEvent, RingFull
<1>6. passed' \in Nat /\ skipped' \subseteq Nat
  BY DEF TypeOK, LogEvent, RingFull
<1>7. QED
  BY <1>3, <1>4, <1>5, <1>6 DEF TypeOK, LogEvent, RingFull

\* Every step keeps every variable in its type.
LEMMA NextTypeOK == TypeOK /\ [Next]_vars => TypeOK'
<1> SUFFICES ASSUME TypeOK, [Next]_vars PROVE TypeOK'
  OBVIOUS
<1>1. CASE LogAccess
  BY <1>1, LogTypeOK DEF LogAccess, LoggedTypes
<1>2. CASE CommitLedger
  BY <1>2, LogTypeOK DEF CommitLedger, LoggedTypes
<1>3. CASE SyncUpToDate
  BY <1>3 DEF SyncUpToDate, TypeOK, ring, ghosts
<1>4. CASE SyncStart
  BY <1>4 DEF SyncStart, TypeOK, ring, ghosts
<1>5. CASE SyncSkip
  <2>1. NextSlot(current) \in Slots
    BY NextSlotWraps DEF TypeOK
  <2>2. QED
    BY <1>5, <2>1 DEF SyncSkip, TypeOK, ring
<1>6. CASE SyncText
  <2>1. Receipt(events[current].timestamp) \in [boot : Nat, stamp : Nat]
        /\ events[current].timestamp \in Nat
    BY DEF TypeOK, Event, Receipt
  <2>2. ledger' \in Seq([boot : Nat, stamp : Nat]) /\ dropped' \subseteq Nat
    <3>1. CASE ledger' = Append(ledger, Receipt(events[current].timestamp))
               /\ dropped' = dropped
      BY <2>1, <3>1 DEF TypeOK
    <3>2. CASE ledger' = ledger
               /\ dropped' = dropped \cup {events[current].timestamp}
      BY <2>1, <3>2 DEF TypeOK
    <3>3. QED
      BY <1>6, <3>1, <3>2 DEF SyncText
  <2>3. QED
    BY <1>6, <2>2 DEF SyncText, TypeOK, ring
<1>7. CASE SyncLineEnd
  <2>1. NextSlot(current) \in Slots
    BY NextSlotWraps DEF TypeOK
  <2>2. LineEnd \in [boot : Nat, stamp : Nat]
    BY DEF LineEnd
  <2>3. ledger' \in Seq([boot : Nat, stamp : Nat])
    <3>1. CASE ledger' = ledger
      BY <3>1 DEF TypeOK
    <3>2. CASE ledger' = Append(ledger, LineEnd)
      BY <2>2, <3>2 DEF TypeOK
    <3>3. QED
      BY <1>7, <3>1, <3>2 DEF SyncLineEnd
  <2>4. QED
    BY <1>7, <2>1, <2>3 DEF SyncLineEnd, TypeOK, ring
<1>8. CASE SyncDone
  BY <1>8 DEF SyncDone, TypeOK, ring, ghosts
<1>9. CASE Restart
  BY <1>9 DEF Restart, TypeOK, Slots, Event, NoEvent
<1>10. CASE UNCHANGED vars
  BY <1>10 DEF vars, TypeOK
<1>11. QED
  BY <1>1, <1>2, <1>3, <1>4, <1>5, <1>6, <1>7, <1>8, <1>9, <1>10
  DEF Next, SyncStep

\* Every variable of the watcher keeps its type: no index leaves the array.
THEOREM TypeCorrect == Spec => []TypeOK
<1>1. QED
  BY InitTypeOK, NextTypeOK, PTL DEF Spec

-----------------------------------------------------------------------------
(* The ring holds the latest events *)

\* After one more event, the slot that was k behind the head is k + 1 behind.
LEMMA BackAdvances ==
  ASSUME TypeOK, head' = NextSlot(head), NEW k \in 0..(WATCHER_HISTORY_MAX - 1)
  PROVE  Back(k + 1)' = Back(k)
<1>1. head \in Slots /\ NextSlot(head) = IF head + 1 = WATCHER_HISTORY_MAX THEN 0 ELSE head + 1
  BY NextSlotWraps DEF TypeOK
<1>2. QED
  BY <1>1 DEF Back, Slots

\* The slots behind the head are different slots of the array.
LEMMA BackSlots ==
  ASSUME TypeOK
  PROVE  /\ \A k \in 0..WATCHER_HISTORY_MAX : Back(k) \in Slots
         /\ \A k \in 1..(WATCHER_HISTORY_MAX - 1) : Back(k) # head
         /\ Back(0) = head /\ Back(WATCHER_HISTORY_MAX) = head
BY DEF TypeOK, Back, Slots

\* Walking from the slot k behind the head leads to the slot k - 1 behind.
LEMMA BackWalks ==
  ASSUME TypeOK, NEW k \in 1..WATCHER_HISTORY_MAX
  PROVE  NextSlot(Back(k)) = Back(k - 1)
<1>1. Back(k) \in Slots
  BY BackSlots
<1>2. QED
  BY <1>1, NextSlotWraps DEF Back, TypeOK, Slots

\* Logging an event replaces the oldest one once the ring is full.
LEMMA LogRingInv ==
  ASSUME TypeOK, RingInv, NEW type \in LoggedTypes, LogEvent(type)
  PROVE  RingInv'
<1> DEFINE N == WATCHER_HISTORY_MAX
<1>1. /\ history \in Seq(LoggedTypes) /\ Len(history) \in Nat
      /\ history' = Append(history, type) /\ Len(history') = Len(history) + 1
      /\ history'[Len(history) + 1] = type
      /\ \A t \in 1..Len(history) : history'[t] = history[t]
  BY DEF TypeOK, LogEvent, RingFull
<1>2. head \in Slots /\ count \in 0..N /\ head' = NextSlot(head)
  BY DEF TypeOK, LogEvent, RingFull
<1>3. count' = IF Len(history') < N THEN Len(history') ELSE N
  BY <1>1 DEF RingInv, LogEvent, RingFull, TypeOK
<1>4. tail' = Back(count)'
  <2>1. PICK c \in 0..N : c = count
    BY <1>2
  <2>2. CASE count < N
    <3>1. c \in 0..(N - 1) /\ count' = c + 1 /\ tail' = tail
      BY <2>1, <2>2, <1>2 DEF LogEvent, RingFull
    <3>2. Back(c + 1)' = Back(c)
      BY <3>1, <1>2, BackAdvances
    <3>3. QED
      BY <2>1, <3>1, <3>2 DEF RingInv, Back
  <2>3. CASE count = N
    <3>1. count' = N /\ tail' = NextSlot(tail) /\ tail = head
      BY <2>3, BackSlots DEF LogEvent, RingFull, RingInv
    <3>2. Back(N)' = head'
      BY <1>2, NextSlotWraps DEF Back, Slots
    <3>3. QED
      BY <3>1, <3>2, <1>2 DEF Back
  <2>4. QED
    BY <2>2, <2>3, <1>2
<1>5. ASSUME NEW k \in 1..count'
      PROVE  events'[(Back(k))'] = [timestamp |-> Len(history') + 1 - k,
                                  type |-> history'[Len(history') + 1 - k]]
  <2>1. k \in 1..N /\ k - 1 \in 0..(N - 1) /\ k <= Len(history')
    BY <1>1, <1>2, <1>3
  <2>2. Back(k)' = Back(k - 1)
    <3>1. Back((k - 1) + 1)' = Back(k - 1)
      BY <2>1, <1>2, BackAdvances
    <3>2. QED
      BY <3>1, <2>1
  <2>3. CASE k = 1
    <3>1. Back(k)' = head
      BY <2>2, <2>3, BackSlots
    <3>2. events'[head] = [timestamp |-> Len(history) + 1, type |-> type]
      BY <1>2 DEF LogEvent, RingFull, get_system_timer, TypeOK
    <3>3. QED
      BY <3>1, <3>2, <2>3, <1>1
  <2>4. CASE k > 1
    <3>1. k - 1 \in 1..(N - 1) /\ k - 1 \in 1..count
      BY <2>1, <2>4, <1>2 DEF LogEvent, RingFull
    <3>2. Back(k - 1) # head /\ Back(k - 1) \in Slots
      BY <3>1, BackSlots
    <3>3. events'[Back(k - 1)] = events[Back(k - 1)]
      BY <3>2, <1>2 DEF LogEvent, RingFull, TypeOK
    <3>4. events[Back(k - 1)] = [timestamp |-> Len(history) + 1 - (k - 1),
                                 type |-> history[Len(history) + 1 - (k - 1)]]
      BY <3>1 DEF RingInv
    <3>5. /\ Len(history) + 1 - (k - 1) = Len(history') + 1 - k
          /\ Len(history) + 1 - (k - 1) \in 1..Len(history)
      BY <1>1, <2>1, <2>4
    <3>6. history'[Len(history') + 1 - k] = history[Len(history) + 1 - (k - 1)]
      BY <3>5, <1>1
    <3>7. QED
      BY <2>2, <3>3, <3>4, <3>5, <3>6
  <2>5. QED
    BY <2>1, <2>3, <2>4
<1>6. QED
  BY <1>3, <1>4, <1>5 DEF RingInv

LEMMA InitRingInv == Init => RingInv
<1> SUFFICES ASSUME Init PROVE RingInv
  OBVIOUS
<1>1. history = <<>> /\ Len(history) = 0 /\ count = 0 /\ head = 0 /\ tail = 0
  BY DEF Init
<1>2. QED
  BY <1>1 DEF RingInv, Back

\* A step that leaves the ring and the history alone, and a restart.
LEMMA SameRingInv == RingInv /\ UNCHANGED <<ring, history>> => RingInv'
BY DEF RingInv, Back, ring

LEMMA NextRingInv == TypeOK /\ RingInv /\ [Next]_vars => RingInv'
<1> SUFFICES ASSUME TypeOK, RingInv, [Next]_vars PROVE RingInv'
  OBVIOUS
<1>1. CASE LogAccess \/ CommitLedger
  BY <1>1, LogRingInv DEF LogAccess, CommitLedger, LoggedTypes
<1>2. CASE SyncUpToDate \/ SyncStart \/ SyncStep
  BY <1>2, SameRingInv
  DEF SyncUpToDate, SyncStart, SyncStep, SyncSkip, SyncText, SyncLineEnd, SyncDone, ghosts
<1>3. CASE Restart
  <2>1. history' = <<>> /\ Len(history') = 0 /\ count' = 0 /\ head' = 0 /\ tail' = 0
    BY <1>3 DEF Restart
  <2>2. QED
    BY <2>1 DEF RingInv, Back
<1>4. CASE UNCHANGED vars
  BY <1>4, SameRingInv DEF vars, ring
<1>5. QED
  BY <1>1, <1>2, <1>3, <1>4 DEF Next

-----------------------------------------------------------------------------
(* The cursor is as far behind the head as there are events not passed *)

\* A push of the cursor passes one event, and the full ring keeps its size.
LEMMA LogCursorInv ==
  ASSUME TypeOK, RingInv, CursorInv, NEW type \in LoggedTypes, LogEvent(type)
  PROVE  CursorInv'
<1> DEFINE N == WATCHER_HISTORY_MAX
<1>1. /\ Len(history) \in Nat /\ Len(history') = Len(history) + 1
      /\ pc = "idle" /\ pc' = "idle"
  BY DEF TypeOK, LogEvent, RingFull
<1>2. /\ head' = NextSlot(head) /\ passed \in Nat
      /\ Pending \in 0..N /\ sync_cursor = Back(Pending)
  BY <1>1 DEF CursorInv, LogEvent, RingFull, TypeOK
<1>3. PICK p \in 0..N : p = Pending
  BY <1>2
<1>4. CASE CursorPushed
  <2>1. count = N /\ tail = head
    BY <1>4, BackSlots DEF CursorPushed, RingFull, RingInv
  <2>2. passed' = passed + 1 /\ Pending' = p
    BY <1>1, <1>2, <1>3, <1>4 DEF LogEvent, RingFull, Pending
  <2>3. sync_cursor' = head'
    BY <1>2, <1>4, <2>1 DEF LogEvent, RingFull
  <2>4. p = 0 \/ p = N
    <3>1. Back(p) = head
      BY <1>2, <1>3, <1>4, <2>1 DEF CursorPushed, RingFull
    <3>2. QED
      BY <3>1, BackSlots
  <2>5. Back(p)' = head'
    BY <2>4, <1>2, NextSlotWraps DEF Back, Slots, TypeOK
  <2>6. QED
    BY <1>1, <2>2, <2>3, <2>5 DEF CursorInv, Back
<1>5. CASE ~CursorPushed
  <2>1. passed' = passed /\ Pending' = p + 1 /\ sync_cursor' = sync_cursor
    BY <1>1, <1>2, <1>3, <1>5 DEF LogEvent, RingFull, Pending
  <2>2. p \in 0..(N - 1)
    <3>1. CASE count = N
      <4>1. tail = head
        BY <3>1, BackSlots DEF RingInv
      <4>2. Back(p) # head
        BY <4>1, <3>1, <1>2, <1>3, <1>5 DEF CursorPushed, RingFull
      <4>3. QED
        BY <4>2, BackSlots
    <3>2. CASE count # N
      BY <3>2, <1>1, <1>2, <1>3 DEF RingInv, Pending
    <3>3. QED
      BY <3>1, <3>2
  <2>3. Back(p + 1)' = Back(p)
    BY <2>2, <1>2, BackAdvances
  <2>4. QED
    BY <1>1, <1>2, <1>3, <2>1, <2>2, <2>3 DEF CursorInv, Back
<1>6. QED
  BY <1>4, <1>5

\* While the loop has not met the head there is a pending event, and the slot
\* it reads holds the oldest one.
LEMMA ScanReadsPending ==
  ASSUME TypeOK, RingInv, CursorInv, pc # "idle", current # head
  PROVE  /\ Pending \in 1..(WATCHER_HISTORY_MAX - 1)
         /\ current = Back(Pending)
         /\ passed + 1 \in 1..Len(history)
         /\ events[current] = [timestamp |-> passed + 1, type |-> history[passed + 1]]
<1> DEFINE N == WATCHER_HISTORY_MAX
<1>1. /\ Len(history) \in Nat /\ passed \in Nat
      /\ Pending \in 0..(N - 1) /\ current = Back(Pending)
  BY DEF CursorInv, TypeOK
<1>2. Pending # 0
  BY <1>1, BackSlots
<1>3. Pending \in 1..count
  BY <1>1, <1>2 DEF RingInv, Pending
<1>4. Len(history) + 1 - Pending = passed + 1
  BY <1>1 DEF Pending
<1>5. QED
  BY <1>1, <1>2, <1>3, <1>4 DEF RingInv, Pending

\* One iteration of the loop: one slot on, one pending event less.
LEMMA WalkCursorInv ==
  ASSUME TypeOK, RingInv, CursorInv, pc # "idle", current # head, pc' = "scan",
         current' = NextSlot(current), passed' = passed + 1, UNCHANGED <<ring, history>>
  PROVE  CursorInv'
<1>1. PICK p \in 1..(WATCHER_HISTORY_MAX - 1) : p = Pending
  BY ScanReadsPending
<1>2. current = Back(p) /\ current' = Back(p - 1)
  BY <1>1, ScanReadsPending, BackWalks
<1>3. Pending' = p - 1
  BY <1>1 DEF Pending, TypeOK
<1>4. QED
  BY <1>1, <1>2, <1>3 DEF CursorInv, Back, ring

LEMMA NextCursorInv == TypeOK /\ RingInv /\ CursorInv /\ [Next]_vars => CursorInv'
<1> SUFFICES ASSUME TypeOK, RingInv, CursorInv, [Next]_vars PROVE CursorInv'
  OBVIOUS
<1>1. CASE LogAccess \/ CommitLedger
  BY <1>1, LogCursorInv DEF LogAccess, CommitLedger, LoggedTypes
<1>2. CASE SyncUpToDate
  BY <1>2 DEF SyncUpToDate, CursorInv, Pending, Back, ring, ghosts
<1>3. CASE SyncStart
  <2>1. Pending # WATCHER_HISTORY_MAX
    BY <1>3, BackSlots DEF SyncStart, CursorInv
  <2>2. QED
    BY <1>3, <2>1 DEF SyncStart, CursorInv, Pending, Back, ring, ghosts
<1>4. CASE SyncSkip
  BY <1>4, WalkCursorInv DEF SyncSkip, ring
<1>5. CASE SyncText
  <2>1. /\ Pending > 0 /\ history[passed + 1] = LEDGER_COMMIT
        /\ pc = "scan" /\ pc' = "lineend"
    BY <1>5, ScanReadsPending DEF SyncText, IsReceipt
  <2>2. UNCHANGED <<head, current, history, passed>>
    BY <1>5 DEF SyncText, ring
  <2>3. QED
    BY <2>1, <2>2 DEF CursorInv, Pending, Back
<1>6. CASE SyncLineEnd
  <2>1. current # head
    BY <1>6, BackSlots DEF SyncLineEnd, CursorInv
  <2>2. QED
    BY <1>6, <2>1, WalkCursorInv DEF SyncLineEnd, ring
<1>7. CASE SyncDone
  <2>1. Pending = 0
    BY <1>7, BackSlots DEF SyncDone, CursorInv
  <2>2. head' = head /\ history' = history /\ passed' = passed /\ pc' = "idle"
        /\ sync_cursor' = head
    BY <1>7 DEF SyncDone, ring, ghosts
  <2>3. QED
    BY <2>1, <2>2 DEF CursorInv, Pending, Back, TypeOK, Slots
<1>8. CASE Restart
  <2>1. Len(history') = 0 /\ passed' = 0 /\ head' = 0 /\ sync_cursor' = 0 /\ pc' = "idle"
    BY <1>8 DEF Restart
  <2>2. QED
    BY <2>1 DEF CursorInv, Pending, Back
<1>9. CASE UNCHANGED vars
  BY <1>9 DEF vars, CursorInv, Pending, Back
<1>10. QED
  BY <1>1, <1>2, <1>3, <1>4, <1>5, <1>6, <1>7, <1>8, <1>9 DEF Next, SyncStep

LEMMA InitCursorInv == Init => CursorInv
<1> SUFFICES ASSUME Init PROVE CursorInv
  OBVIOUS
<1>1. Len(history) = 0 /\ passed = 0 /\ head = 0 /\ sync_cursor = 0 /\ pc = "idle"
  BY DEF Init
<1>2. QED
  BY <1>1 DEF CursorInv, Pending, Back

\* The ring and its cursor, for every ring size and every number of events.
THEOREM RingAndCursor == Spec => [](TypeOK /\ RingInv /\ CursorInv)
<1>1. Init => TypeOK /\ RingInv /\ CursorInv
  BY InitTypeOK, InitRingInv, InitCursorInv
<1>2. TypeOK /\ RingInv /\ CursorInv /\ [Next]_vars => (TypeOK /\ RingInv /\ CursorInv)'
  BY NextTypeOK, NextRingInv, NextCursorInv
<1>3. QED
  BY <1>1, <1>2, PTL DEF Spec

-----------------------------------------------------------------------------
(* Properties of the ring *)

\* watcher_dump_history shows exactly the most recent events, oldest first.
THEOREM DumpCorrect == Spec => []DumpShowsLatest
<1> DEFINE N == WATCHER_HISTORY_MAX
<1>1. ASSUME TypeOK, RingInv
      PROVE  DumpShowsLatest
  <2>1. /\ Len(history) \in Nat /\ count \in 0..N /\ count <= Len(history)
        /\ tail = Back(count) /\ head \in Slots
    BY <1>1 DEF TypeOK, RingInv
  <2>2. ASSUME NEW i \in 1..count
        PROVE  Dump[i] = [timestamp |-> Len(history) - count + i,
                          type |-> history[Len(history) - count + i]]
    <3>1. PICK k \in 1..count : k = count + 1 - i
      BY <2>1, <2>2
    <3>2. tail + i - 1 \in 0..(2 * N - 1)
      BY <2>1, <2>2 DEF Back, Slots
    <3>3. (tail + i - 1) % N = Back(k)
      <4>1. PICK x \in 0..(2 * N - 1) : x = tail + i - 1
        BY <3>2
      <4>2. x % N = IF x < N THEN x ELSE x - N
        BY <4>1, SlotWraps
      <4>3. Back(k) = IF x < N THEN x ELSE x - N
        BY <2>1, <2>2, <3>1, <4>1 DEF Back, Slots
      <4>4. QED
        BY <4>1, <4>2, <4>3
    <3>4. Dump[i] = events[Back(k)]
      BY <2>2, <3>3 DEF Dump
    <3>5. Len(history) + 1 - k = Len(history) - count + i
      BY <2>1, <2>2, <3>1
    <3>6. QED
      BY <1>1, <3>4, <3>5 DEF RingInv
  <2>3. QED
    BY <1>1, <2>2 DEF DumpShowsLatest, RingInv
<1>2. QED
  BY <1>1, RingAndCursor, PTL

\* A synchronisation never reads an empty or an overwritten slot, nor one it
\* has already passed: the pre-flight guard is never needed.
THEOREM SyncReadsCorrect == Spec => []SyncReadsOldestPending
<1>1. TypeOK /\ RingInv /\ CursorInv => SyncReadsOldestPending
  BY ScanReadsPending DEF SyncReadsOldestPending, TypeOK
<1>2. QED
  BY <1>1, RingAndCursor, PTL

-----------------------------------------------------------------------------
(* The ledger: receipts in order, each at most once *)

LEMMA InitLedgerInv == Init => LedgerInv
<1> SUFFICES ASSUME Init PROVE LedgerInv
  OBVIOUS
<1>1. Len(ledger) = 0
  BY DEF Init
<1>2. QED
  BY <1>1 DEF LedgerInv, OnDisk

LEMMA OnDiskTyped ==
  ASSUME TypeOK
  PROVE  \A i \in OnDisk : /\ i \in 1..Len(ledger)
                           /\ ledger[i].boot \in Nat /\ ledger[i].stamp \in Nat
<1> DEFINE Tokens == [boot : Nat, stamp : Nat]
<1>1. ASSUME NEW i \in OnDisk
      PROVE  i \in 1..Len(ledger) /\ ledger[i] \in Tokens
  <2>1. i \in 1..Len(ledger)
    BY <1>1 DEF OnDisk
  <2>2. ledger \in Seq(Tokens)
    BY DEF TypeOK
  <2> HIDE DEF Tokens
  <2>3. QED
    BY <2>1, <2>2
<1>2. \A r \in [boot : Nat, stamp : Nat] : r.boot \in Nat /\ r.stamp \in Nat
  OBVIOUS
<1>3. QED
  BY <1>1, <1>2

\* A step that writes nothing and takes back no receipt.
LEMMA QuietLedgerInv ==
  ASSUME TypeOK, LedgerInv, UNCHANGED <<ledger, boots>>,
         Receipts \subseteq Receipts', Written \in Nat, Written' \in Nat, Written <= Written'
  PROVE  LedgerInv'
<1>1. OnDisk' = OnDisk
  BY DEF OnDisk, LineEnd
<1>2. \A i \in OnDisk : ledger[i].stamp \in Nat
  BY OnDiskTyped
<1>3. QED
  BY <1>1, <1>2 DEF LedgerInv

\* The disk with one token more.
LEMMA AppendLedger ==
  ASSUME TypeOK, NEW r \in [boot : Nat, stamp : Nat], ledger' = Append(ledger, r)
  PROVE  /\ Len(ledger) \in Nat /\ Len(ledger') = Len(ledger) + 1
         /\ \A i \in 1..Len(ledger) : ledger'[i] = ledger[i]
         /\ ledger'[Len(ledger) + 1] = r
BY DEF TypeOK

\* A receipt appended by the loop is younger than every record of this start.
LEMMA TextLedgerInv ==
  ASSUME TypeOK, RingInv, CursorInv, LedgerInv, SyncText
  PROVE  LedgerInv'
<1>1. /\ passed + 1 \in Receipts /\ passed \in Nat /\ boots \in Nat
      /\ events[current].timestamp = passed + 1
  BY ScanReadsPending DEF SyncText, IsReceipt, Receipts, TypeOK
<1>2. /\ history' = history /\ boots' = boots /\ Receipts' = Receipts
      /\ Written = passed /\ Written' = passed + 1
  BY DEF SyncText, Written, Receipts
<1>3. CASE ledger' = ledger
  BY <1>1, <1>2, <1>3, QuietLedgerInv
<1>4. CASE ledger' = Append(ledger, Receipt(passed + 1))
  <2>1. Receipt(passed + 1) \in [boot : Nat, stamp : Nat]
    BY <1>1 DEF Receipt
  <2>2. /\ Len(ledger) \in Nat /\ Len(ledger') = Len(ledger) + 1
        /\ \A i \in 1..Len(ledger) : ledger'[i] = ledger[i]
        /\ ledger'[Len(ledger) + 1] = Receipt(passed + 1)
    BY <1>4, <2>1, AppendLedger
  <2>3. \A i \in OnDisk' : i \in OnDisk \/ i = Len(ledger) + 1
    BY <2>2 DEF OnDisk, LineEnd
  <2>4. \A i \in OnDisk : /\ i \in 1..Len(ledger) /\ ledger'[i] = ledger[i]
                          /\ ledger[i].boot \in Nat /\ ledger[i].stamp \in Nat
    BY <2>2, OnDiskTyped
  <2>5. ASSUME NEW i \in OnDisk'
        PROVE  /\ ledger'[i].boot <= boots'
               /\ ledger'[i].boot = boots' =>
                    ledger'[i].stamp \in Receipts' /\ ledger'[i].stamp <= Written'
    <3>1. CASE i \in OnDisk
      BY <3>1, <2>4, <1>1, <1>2 DEF LedgerInv
    <3>2. CASE i = Len(ledger) + 1
      BY <3>2, <2>2, <1>1, <1>2 DEF Receipt
    <3>3. QED
      BY <2>3, <3>1, <3>2
  <2>6. ASSUME NEW i \in OnDisk', NEW j \in OnDisk', i < j
        PROVE  \/ ledger'[i].boot < ledger'[j].boot
               \/ /\ ledger'[i].boot = ledger'[j].boot
                  /\ ledger'[i].stamp < ledger'[j].stamp
    <3>1. i \in OnDisk
      BY <2>2, <2>3, <2>6 DEF OnDisk
    <3>2. CASE j \in OnDisk
      BY <3>1, <3>2, <2>4, <2>6 DEF LedgerInv
    <3>3. CASE j = Len(ledger) + 1
      <4>1. ledger'[j].boot = boots /\ ledger'[j].stamp = passed + 1
        BY <3>3, <2>2 DEF Receipt
      <4>2. /\ ledger[i].boot <= boots
            /\ ledger[i].boot = boots => ledger[i].stamp <= passed
        BY <3>1, <1>2 DEF LedgerInv
      <4>3. QED
        BY <4>1, <4>2, <3>1, <2>4, <1>1
    <3>4. QED
      BY <2>3, <3>2, <3>3
  <2>7. QED
    BY <2>5, <2>6 DEF LedgerInv
<1>5. QED
  BY <1>1, <1>3, <1>4 DEF SyncText

LEMMA LineEndLedgerInv ==
  ASSUME TypeOK, LedgerInv, SyncLineEnd
  PROVE  LedgerInv'
<1>1. /\ passed \in Nat /\ boots' = boots /\ Receipts' = Receipts
      /\ Written = passed + 1 /\ Written' = passed + 1
  BY DEF SyncLineEnd, Written, Receipts, TypeOK
<1>2. CASE ledger' = ledger
  BY <1>1, <1>2, QuietLedgerInv
<1>3. CASE ledger' = Append(ledger, LineEnd)
  <2>1. LineEnd \in [boot : Nat, stamp : Nat]
    BY DEF LineEnd
  <2>2. /\ Len(ledger) \in Nat /\ Len(ledger') = Len(ledger) + 1
        /\ \A i \in 1..Len(ledger) : ledger'[i] = ledger[i]
        /\ ledger'[Len(ledger) + 1] = LineEnd
    BY <1>3, <2>1, AppendLedger
  <2>3. LineEnd' = LineEnd
    BY DEF LineEnd
  <2>4. \A i \in OnDisk' : i \in OnDisk /\ ledger'[i] = ledger[i]
    BY <2>2, <2>3 DEF OnDisk
  <2>5. QED
    BY <1>1, <2>4 DEF LedgerInv
<1>4. QED
  BY <1>2, <1>3 DEF SyncLineEnd

\* No step breaks the order of the file or repeats a receipt.
LEMMA NextLedgerInv ==
  TypeOK /\ RingInv /\ CursorInv /\ LedgerInv /\ [Next]_vars => LedgerInv'
<1> SUFFICES ASSUME TypeOK, RingInv, CursorInv, LedgerInv, [Next]_vars PROVE LedgerInv'
  OBVIOUS
<1>1. ASSUME NEW type \in LoggedTypes, LogEvent(type)
      PROVE  LedgerInv'
  <2>1. /\ history \in Seq(LoggedTypes) /\ history' = Append(history, type)
        /\ passed \in Nat /\ (passed' = passed \/ passed' = passed + 1)
        /\ pc = "idle" /\ pc' = "idle" /\ UNCHANGED <<ledger, boots>>
    BY <1>1 DEF LogEvent, RingFull, TypeOK
  <2>2. Receipts \subseteq Receipts'
    BY <2>1 DEF Receipts, LEDGER_COMMIT
  <2>3. QED
    BY <2>1, <2>2, QuietLedgerInv DEF Written
<1>2. CASE LogAccess \/ CommitLedger
  BY <1>1, <1>2 DEF LogAccess, CommitLedger, LoggedTypes
<1>3. CASE SyncUpToDate \/ SyncStart \/ SyncDone
  <2>1. /\ UNCHANGED <<ledger, boots, history, passed>>
        /\ pc # "lineend" /\ pc' # "lineend" /\ passed \in Nat
    BY <1>3 DEF SyncUpToDate, SyncStart, SyncDone, ghosts, TypeOK
  <2>2. QED
    BY <2>1, QuietLedgerInv DEF Written, Receipts
<1>4. CASE SyncSkip
  <2>1. /\ UNCHANGED <<ledger, boots, history, pc>> /\ passed' = passed + 1
        /\ pc = "scan" /\ passed \in Nat
    BY <1>4 DEF SyncSkip, TypeOK
  <2>2. QED
    BY <2>1, QuietLedgerInv DEF Written, Receipts
<1>5. CASE SyncText
  BY <1>5, TextLedgerInv
<1>6. CASE SyncLineEnd
  BY <1>6, LineEndLedgerInv
<1>7. CASE Restart
  <2>1. boots \in Nat /\ boots' = boots + 1 /\ ledger' = ledger
    BY <1>7 DEF Restart, TypeOK
  <2>2. OnDisk' = OnDisk
    BY <2>1 DEF OnDisk, LineEnd
  <2>3. \A i \in OnDisk : ledger[i].boot \in Nat /\ ledger[i].boot <= boots
    BY OnDiskTyped DEF LedgerInv
  <2>4. QED
    BY <2>1, <2>2, <2>3 DEF LedgerInv
<1>8. CASE UNCHANGED vars
  <2>1. UNCHANGED <<ledger, boots, history, passed, pc>> /\ passed \in Nat
    BY <1>8 DEF vars, TypeOK
  <2>2. QED
    BY <2>1, QuietLedgerInv DEF Written, Receipts
<1>9. QED
  BY <1>2, <1>3, <1>4, <1>5, <1>6, <1>7, <1>8 DEF Next, SyncStep

\* The records appended to LEDGER.LOG are receipts, none twice, in order, across every
\* restart and every interrupted synchronisation.
THEOREM LedgerCorrect == Spec => []LedgerInOrder
<1>1. Init => TypeOK /\ RingInv /\ CursorInv /\ LedgerInv
  BY InitTypeOK, InitRingInv, InitCursorInv, InitLedgerInv
<1>2. TypeOK /\ RingInv /\ CursorInv /\ LedgerInv /\ [Next]_vars
        => (TypeOK /\ RingInv /\ CursorInv /\ LedgerInv)'
  BY NextTypeOK, NextRingInv, NextCursorInv, NextLedgerInv
<1>3. LedgerInv => LedgerInOrder
  BY DEF LedgerInv, LedgerInOrder
<1>4. QED
  BY <1>1, <1>2, <1>3, PTL DEF Spec

-----------------------------------------------------------------------------
(* No receipt is lost without a trace *)

LEMMA InitAccountInv == Init => AccountInv
<1> SUFFICES ASSUME Init PROVE AccountInv
  OBVIOUS
<1>1. Len(history) = 0 /\ skipped = {}
  BY DEF Init
<1>2. QED
  BY <1>1 DEF AccountInv, Receipts

\* What reached the disk stays appended until the machine restarts.
LEMMA PersistedGrows ==
  ASSUME TypeOK, boots' = boots,
         ledger' = ledger \/ (\E r \in [boot : Nat, stamp : Nat] : ledger' = Append(ledger, r))
  PROVE  Persisted \subseteq Persisted'
<1>1. ASSUME NEW i \in 1..Len(ledger)
      PROVE  i \in 1..Len(ledger') /\ ledger'[i] = ledger[i]
  <2>1. CASE ledger' = ledger
    BY <1>1, <2>1
  <2>2. ASSUME NEW r \in [boot : Nat, stamp : Nat], ledger' = Append(ledger, r)
        PROVE  i \in 1..Len(ledger') /\ ledger'[i] = ledger[i]
    BY <1>1, <2>2, AppendLedger
  <2>3. QED
    BY <2>1, <2>2
<1>2. QED
  BY <1>1 DEF Persisted

\* A step of the loop that hands no receipt over.
LEMMA QuietAccountInv ==
  ASSUME TypeOK, AccountInv, UNCHANGED <<history, skipped, dropped>>,
         Persisted \subseteq Persisted', Written' = Written
  PROVE  AccountInv'
BY DEF AccountInv, Receipts

\* Logging: a pushed cursor notes the receipt it passes.
LEMMA LogAccountInv ==
  ASSUME TypeOK, RingInv, CursorInv, AccountInv,
         NEW type \in LoggedTypes, LogEvent(type)
  PROVE  AccountInv'
<1>1. /\ history \in Seq(LoggedTypes) /\ Len(history) \in Nat /\ passed \in Nat
      /\ history' = Append(history, type) /\ Len(history') = Len(history) + 1
      /\ \A t \in 1..Len(history) : history'[t] = history[t]
      /\ passed <= Len(history)
  BY DEF TypeOK, LogEvent, CursorInv, Pending
<1>2. /\ Written = passed /\ Written' = passed'
      /\ Persisted' = Persisted /\ dropped' = dropped
  BY DEF LogEvent, RingFull, Written, Persisted
<1>3. CASE CursorPushed
  <2>1. /\ passed' = passed + 1
        /\ skipped' = IF history'[passed + 1] = LEDGER_COMMIT
                      THEN skipped \cup {passed + 1} ELSE skipped
    BY <1>3 DEF LogEvent, RingFull
  <2>2. Len(history') > WATCHER_HISTORY_MAX
    BY <1>1, <1>3 DEF CursorPushed, RingFull, RingInv
  <2>3. ASSUME NEW t \in Receipts', t <= passed + 1
        PROVE  t \in Persisted \cup dropped \cup skipped'
    <3>1. CASE t = passed + 1
      BY <2>1, <2>3, <3>1 DEF Receipts, LEDGER_COMMIT
    <3>2. CASE t <= passed
      <4>1. t \in Receipts
        BY <1>1, <2>3, <3>2 DEF Receipts, LEDGER_COMMIT
      <4>2. QED
        BY <4>1, <3>2, <1>2, <2>1 DEF AccountInv
    <3>3. QED
      BY <2>3, <3>1, <3>2, <1>1 DEF Receipts
  <2>4. QED
    BY <1>2, <2>1, <2>2, <2>3 DEF AccountInv
<1>4. CASE ~CursorPushed
  <2>1. passed' = passed /\ skipped' = skipped
    BY <1>4 DEF LogEvent, RingFull
  <2>2. ASSUME NEW t \in Receipts', t <= passed
        PROVE  t \in Receipts
    BY <1>1, <2>2 DEF Receipts, LEDGER_COMMIT
  <2>3. QED
    BY <1>1, <1>2, <2>1, <2>2 DEF AccountInv
<1>5. QED
  BY <1>3, <1>4

\* Appending a receipt puts it on the disk or among the dropped ones.
LEMMA TextAccountInv ==
  ASSUME TypeOK, RingInv, CursorInv, AccountInv, SyncText
  PROVE  AccountInv'
<1>1. /\ passed + 1 \in Receipts /\ passed \in Nat /\ boots \in Nat
      /\ events[current].timestamp = passed + 1
  BY ScanReadsPending DEF SyncText, IsReceipt, Receipts, TypeOK
<1>2. /\ history' = history /\ boots' = boots /\ Receipts' = Receipts
      /\ skipped' = skipped /\ Written = passed /\ Written' = passed + 1
  BY DEF SyncText, Written, Receipts
<1>3. Receipt(passed + 1) \in [boot : Nat, stamp : Nat]
  BY <1>1 DEF Receipt
<1>4. /\ Persisted \subseteq Persisted' /\ dropped \subseteq dropped'
      /\ passed + 1 \in Persisted' \cup dropped'
  <2>1. CASE ledger' = Append(ledger, Receipt(passed + 1)) /\ dropped' = dropped
    <3>1. Persisted \subseteq Persisted'
      BY <2>1, <1>2, <1>3, PersistedGrows
    <3>2. /\ Len(ledger') = Len(ledger) + 1 /\ Len(ledger) \in Nat
          /\ ledger'[Len(ledger) + 1] = Receipt(passed + 1)
      BY <2>1, <1>3, AppendLedger
    <3>3. passed + 1 \in Persisted'
      BY <3>2, <1>1, <1>2 DEF Persisted, Receipt
    <3>4. QED
      BY <2>1, <3>1, <3>3
  <2>2. CASE ledger' = ledger /\ dropped' = dropped \cup {passed + 1}
    BY <2>2, <1>2, PersistedGrows
  <2>3. QED
    BY <1>1, <2>1, <2>2 DEF SyncText
<1>5. ASSUME NEW t \in Receipts, t <= passed + 1
      PROVE  t \in Persisted' \cup dropped' \cup skipped'
  <2>1. CASE t = passed + 1
    BY <2>1, <1>4
  <2>2. CASE t <= passed
    BY <2>2, <1>2, <1>4 DEF AccountInv
  <2>3. QED
    BY <1>1, <1>5, <2>1, <2>2 DEF Receipts
<1>6. QED
  BY <1>2, <1>5 DEF AccountInv

\* Every receipt the loop is past is on the disk, dropped or skipped.
LEMMA NextAccountInv ==
  TypeOK /\ RingInv /\ CursorInv /\ AccountInv /\ [Next]_vars => AccountInv'
<1> SUFFICES ASSUME TypeOK, RingInv, CursorInv, AccountInv, [Next]_vars PROVE AccountInv'
  OBVIOUS
<1>1. CASE LogAccess \/ CommitLedger
  BY <1>1, LogAccountInv DEF LogAccess, CommitLedger, LoggedTypes
<1>2. CASE SyncUpToDate \/ SyncStart \/ SyncDone
  <2>1. /\ UNCHANGED <<ledger, boots, history, passed, skipped, dropped>>
        /\ pc # "lineend" /\ pc' # "lineend"
    BY <1>2 DEF SyncUpToDate, SyncStart, SyncDone, ghosts
  <2>2. QED
    BY <2>1, QuietAccountInv DEF Written, Persisted
<1>3. CASE SyncSkip
  <2>1. /\ UNCHANGED <<ledger, boots, history, pc, skipped, dropped>>
        /\ passed' = passed + 1 /\ pc = "scan" /\ passed \in Nat
    BY <1>3 DEF SyncSkip, TypeOK
  <2>2. /\ passed + 1 \in 1..Len(history)
        /\ events[current] = [timestamp |-> passed + 1, type |-> history[passed + 1]]
    BY <1>3, ScanReadsPending DEF SyncSkip
  <2>3. passed + 1 \notin Receipts
    BY <1>3, <2>1, <2>2 DEF SyncSkip, IsReceipt, Receipts
  <2>4. /\ Written = passed /\ Written' = passed + 1 /\ Receipts' = Receipts
        /\ Persisted' = Persisted
    BY <2>1 DEF Written, Receipts, Persisted
  <2>5. \A t \in Receipts : t <= passed + 1 => t <= passed
    BY <2>1, <2>3 DEF Receipts
  <2>6. QED
    BY <2>1, <2>4, <2>5 DEF AccountInv
<1>4. CASE SyncText
  BY <1>4, TextAccountInv
<1>5. CASE SyncLineEnd
  <2>1. /\ UNCHANGED <<boots, history, skipped, dropped>> /\ Written' = Written
    BY <1>5 DEF SyncLineEnd, Written
  <2>2. LineEnd \in [boot : Nat, stamp : Nat]
    BY DEF LineEnd
  <2>3. Persisted \subseteq Persisted'
    BY <1>5, <2>1, <2>2, PersistedGrows DEF SyncLineEnd
  <2>4. QED
    BY <2>1, <2>3, QuietAccountInv
<1>6. CASE Restart
  <2>1. Len(history') = 0 /\ skipped' = {}
    BY <1>6 DEF Restart
  <2>2. QED
    BY <2>1 DEF AccountInv, Receipts
<1>7. CASE UNCHANGED vars
  BY <1>7, QuietAccountInv DEF vars, Persisted, Written
<1>8. QED
  BY <1>1, <1>2, <1>3, <1>4, <1>5, <1>6, <1>7 DEF Next, SyncStep

LEMMA AccountAlways == Spec => [](TypeOK /\ RingInv /\ CursorInv /\ AccountInv)
<1>1. Init => TypeOK /\ RingInv /\ CursorInv /\ AccountInv
  BY InitTypeOK, InitRingInv, InitCursorInv, InitAccountInv
<1>2. TypeOK /\ RingInv /\ CursorInv /\ AccountInv /\ [Next]_vars
        => (TypeOK /\ RingInv /\ CursorInv /\ AccountInv)'
  BY NextTypeOK, NextRingInv, NextCursorInv, NextAccountInv
<1>3. QED
  BY <1>1, <1>2, PTL DEF Spec

\* A receipt the synchronisation is past reached the disk, unless its append
\* failed or watcher_log_event moved the cursor over it.
THEOREM ReceiptsCorrect == Spec => []ReceiptsAccounted
<1>1. TypeOK /\ CursorInv /\ AccountInv => ReceiptsAccounted
  <2> SUFFICES ASSUME TypeOK, AccountInv PROVE ReceiptsAccounted
    OBVIOUS
  <2>1. \A t \in Receipts : t <= passed => t <= Written
    BY DEF Written, TypeOK, Receipts
  <2>2. QED
    BY <2>1 DEF AccountInv, ReceiptsAccounted
<1>2. QED
  BY <1>1, AccountAlways, PTL

\* Nothing but a synchronisation moves the cursor until the ring is full.
THEOREM NothingSkipped == Spec => []NothingSkippedBeforeFull
<1>1. AccountInv => NothingSkippedBeforeFull
  BY DEF AccountInv, NothingSkippedBeforeFull
<1>2. QED
  BY <1>1, AccountAlways, PTL

-----------------------------------------------------------------------------
(* The watcher implements the ledger vault *)

\* Each step of the watcher is a step of the vault, or none.
LEMMA StepSimulates ==
  TypeOK /\ RingInv /\ CursorInv /\ LedgerInv /\ [Next]_vars
    => [Vault!VaultNext]_(Vault!vaultVars)
<1> SUFFICES ASSUME TypeOK, RingInv, CursorInv, LedgerInv, [Next]_vars
             PROVE  Vault!VaultNext \/ UNCHANGED <<history, ledger, boots>>
  BY DEF Vault!vaultVars
<1>1. ASSUME NEW type \in LoggedTypes, LogEvent(type)
      PROVE  Vault!Log
  <2>1. type \in Vault!EventTypes
    BY DEF Vault!EventTypes, LoggedTypes, LEDGER_COMMIT
  <2>2. history' = Append(history, type) /\ UNCHANGED <<ledger, boots>>
    BY <1>1 DEF LogEvent, RingFull
  <2>3. QED
    BY <2>1, <2>2 DEF Vault!Log
<1>2. CASE LogAccess \/ CommitLedger
  BY <1>1, <1>2 DEF LogAccess, CommitLedger, LoggedTypes, Vault!VaultNext
<1>3. CASE SyncUpToDate \/ SyncStart \/ SyncSkip \/ SyncDone
  BY <1>3 DEF SyncUpToDate, SyncStart, SyncSkip, SyncDone, ghosts
<1>4. CASE SyncText
  <2>1. /\ passed + 1 \in Receipts /\ passed \in Nat
        /\ events[current].timestamp = passed + 1
    BY <1>4, ScanReadsPending DEF SyncText, IsReceipt, Receipts, TypeOK
  <2>2. UNCHANGED <<history, boots>> /\ Written = passed
    BY <1>4 DEF SyncText, Written
  <2>3. CASE ledger' = Append(ledger, Receipt(passed + 1))
    <3>1. ASSUME NEW i \in 1..Len(ledger), ledger[i].boot = boots
          PROVE  ledger[i].stamp < passed + 1
      <4>1. CASE i \in OnDisk
        BY <2>1, <2>2, <3>1, <4>1, OnDiskTyped DEF LedgerInv
      <4>2. CASE i \notin OnDisk
        <5>1. ledger[i].stamp = 0
          BY <3>1, <4>2 DEF OnDisk, LineEnd
        <5>2. QED
          BY <5>1, <2>1
      <4>3. QED
        BY <4>1, <4>2
    <3>2. /\ passed + 1 \in 1..Len(history) /\ history[passed + 1] = "LEDGER_COMMIT"
          /\ Receipt(passed + 1) = Vault!Receipt(passed + 1)
      BY <2>1 DEF Receipts, LEDGER_COMMIT, Receipt, Vault!Receipt
    <3>3. Vault!Record(passed + 1)
      BY <2>2, <2>3, <3>1, <3>2 DEF Vault!Record
    <3>4. QED
      BY <3>2, <3>3 DEF Vault!VaultNext
  <2>4. QED
    BY <1>4, <2>1, <2>2, <2>3 DEF SyncText
<1>5. CASE SyncLineEnd
  BY <1>5 DEF SyncLineEnd, LineEnd, Vault!EndLine, Vault!LineEnd, Vault!VaultNext
<1>6. CASE Restart
  BY <1>6 DEF Restart, Vault!Restart, Vault!VaultNext
<1>7. CASE UNCHANGED vars
  BY <1>7 DEF vars
<1>8. QED
  BY <1>2, <1>3, <1>4, <1>5, <1>6, <1>7 DEF Next, SyncStep

\* The ring, its cursor and the interrupted loop keep the vault's promise.
THEOREM ImplementsVault == Spec => VaultSpec
<1>1. Init => TypeOK /\ RingInv /\ CursorInv /\ LedgerInv
  BY InitTypeOK, InitRingInv, InitCursorInv, InitLedgerInv
<1>2. TypeOK /\ RingInv /\ CursorInv /\ LedgerInv /\ [Next]_vars
        => (TypeOK /\ RingInv /\ CursorInv /\ LedgerInv)'
  BY NextTypeOK, NextRingInv, NextCursorInv, NextLedgerInv
<1>3. Init => Vault!VaultInit
  BY DEF Init, Vault!VaultInit
<1>4. QED
  BY <1>1, <1>2, <1>3, StepSimulates, PTL DEF Spec, VaultSpec, Vault!VaultSpec

-----------------------------------------------------------------------------
(* Volumes: least elements and induction *)

\* A set of naturals has a least element; what it rules out is proved by
\* induction, for a set instead of an operator.
LEMMA Least ==
  ASSUME NEW T, T \subseteq Nat, T # {}
  PROVE  \E m \in T : \A k \in T : m <= k
  <1> DEFINE R == StrictSubsetOrdering(Nat)
             U == {1..n : n \in T}
  <1>1. IsWellFoundedOn(R, FiniteSubsetsOf(Nat))
    BY FS_StrictSubsetOrderingWellFounded
  <1>2. U \subseteq FiniteSubsetsOf(Nat) /\ U # {}
    <2>1. ASSUME NEW n \in T PROVE 1..n \in FiniteSubsetsOf(Nat)
      <3>1. IsFiniteSet(1..n)
        BY FS_Interval
      <3> QED
        BY <3>1 DEF FiniteSubsetsOf
    <2> QED
      BY <2>1
  <1>3. \A j, k \in T : k < j => <<1..k, 1..j>> \in R
    BY DEF StrictSubsetOrdering
  <1> HIDE DEF R, U
  <1>4. PICK V \in U : \A W \in U : ~ (<<W, V>> \in R)
    BY <1>1, <1>2, WFMin
  <1>5. PICK m \in T : V = 1..m
    BY DEF U
  <1>6. \A k \in T : 1..k \in U
    BY DEF U
  <1>7. \A k \in T : ~(k < m)
    BY <1>3, <1>4, <1>5, <1>6
  <1>8. m \in Nat /\ \A k \in T : k \in Nat
    OBVIOUS
  <1>9. \A k \in T : m <= k
    BY <1>7, <1>8
  <1> QED
    BY <1>9

LEMMA Induction ==
  ASSUME NEW S, 0 \in S, \A n \in Nat : n \in S => n + 1 \in S
  PROVE  Nat \subseteq S
  <1> SUFFICES ASSUME Nat \ S # {} PROVE FALSE
    OBVIOUS
  <1>1. PICK m \in Nat \ S : \A k \in Nat \ S : m <= k
    BY Least
  <1>2. m # 0 /\ m - 1 \in Nat
    BY <1>1
  <1>3. m - 1 \in S
    BY <1>1, <1>2
  <1>4. (m - 1) + 1 \in S /\ (m - 1) + 1 = m
    BY <1>2, <1>3
  <1> QED
    BY <1>1, <1>4

-----------------------------------------------------------------------------
(* Volumes: the text of a number *)

\* Decimal, by the function that its LET computes it with.
DecimalBy(f, s) ==
  /\ f[0] = 0 /\ Decimal(s) = f[Len(s)]
  /\ \A i \in 1..Len(s) : f[i] = 10 * f[i - 1] + (s[i] - 48)

LEMMA DecimalIs ==
  ASSUME NEW s, Len(s) \in Nat
  PROVE  \E f : DecimalBy(f, s)
<1> DEFINE Is(f, n) == f = [i \in 0..n |-> IF i = 0 THEN 0 ELSE 10 * f[i - 1] + (s[i] - 48)]
           N == {n \in Nat : \E f : Is(f, n)}
<1>1. 0 \in N
  <2> DEFINE f == [i \in 0..0 |-> 0]
  <2>1. Is(f, 0)
    OBVIOUS
  <2> QED
    BY <2>1
<1>2. \A n \in Nat : n \in N => n + 1 \in N
  <2> SUFFICES ASSUME NEW n \in Nat, n \in N PROVE n + 1 \in N
    OBVIOUS
  <2>1. PICK f : Is(f, n)
    OBVIOUS
  <2> DEFINE g == [i \in 0..(n + 1) |-> IF i <= n THEN f[i] ELSE 10 * f[n] + (s[n + 1] - 48)]
             h == [i \in 0..(n + 1) |-> IF i = 0 THEN 0 ELSE 10 * g[i - 1] + (s[i] - 48)]
  <2>2. ASSUME NEW i \in 0..(n + 1) PROVE g[i] = h[i]
    <3>1. CASE i = 0
      <4>1. g[i] = f[0] /\ f[0] = 0 /\ h[i] = 0
        BY <2>1, <3>1
      <4> QED
        BY <4>1
    <3>2. CASE i \in 1..n
      <4>1. i - 1 \in 0..n /\ i \in 0..n /\ i # 0
        BY <3>2
      <4>2. g[i] = f[i] /\ g[i - 1] = f[i - 1]
        BY <4>1
      <4>3. f[i] = 10 * f[i - 1] + (s[i] - 48)
        BY <2>1, <4>1
      <4>4. h[i] = 10 * g[i - 1] + (s[i] - 48)
        BY <4>1
      <4> HIDE DEF g, h
      <4> QED
        BY <4>2, <4>3, <4>4
    <3>3. CASE i = n + 1
      <4>1. i - 1 = n /\ n \in 0..n /\ i # 0 /\ ~(i <= n)
        BY <3>3
      <4>2. g[i] = 10 * f[n] + (s[n + 1] - 48) /\ g[i - 1] = f[n]
        BY <3>3, <4>1
      <4>3. h[i] = 10 * g[i - 1] + (s[i] - 48)
        BY <4>1
      <4> HIDE DEF g, h
      <4> QED
        BY <3>3, <4>1, <4>2, <4>3
    <3> QED
      BY <3>1, <3>2, <3>3
  <2>3. g = h
    BY <2>2
  <2>4. Is(g, n + 1)
    BY <2>3
  <2> HIDE DEF g, Is
  <2>5. \E k : Is(k, n + 1)
    BY <2>4
  <2> QED
    BY <2>5
<1>3. Len(s) \in N
  <2> HIDE DEF N
  <2> QED
    BY <1>1, <1>2, Induction
<1> DEFINE upto == CHOOSE f : Is(f, Len(s))
<1>4. Is(upto, Len(s))
  BY <1>3
<1>5. Decimal(s) = upto[Len(s)]
  BY DEF Decimal
<1> HIDE DEF upto
<1>6. upto[0] = 0
  BY <1>4
<1>7. \A i \in 1..Len(s) : upto[i] = 10 * upto[i - 1] + (s[i] - 48)
  BY <1>4
<1> QED
  BY <1>5, <1>6, <1>7 DEF DecimalBy

LEMMA DecimalAppend ==
  ASSUME NEW s \in Seq(Digits), NEW d \in Digits
  PROVE  Decimal(Append(s, d)) = 10 * Decimal(s) + (d - 48)
<1> DEFINE n == Len(s)
<1>1. PICK z : /\ z = Append(s, d) /\ Len(z) = n + 1 /\ n \in Nat /\ z[n + 1] = d
               /\ \A i \in 1..n : z[i] = s[i]
  <2>1. n \in Nat
    BY LenProperties
  <2>2. /\ Len(Append(s, d)) = n + 1 /\ Append(s, d)[n + 1] = d
        /\ \A i \in 1..n : Append(s, d)[i] = s[i]
    BY AppendProperties
  <2> HIDE DEF n
  <2> QED
    BY <2>1, <2>2
<1>2. PICK f : DecimalBy(f, s)
  BY <1>1, DecimalIs
<1>3. PICK g : DecimalBy(g, z)
  <2>1. Len(z) \in Nat
    BY <1>1
  <2> QED
    BY <2>1, DecimalIs
<1> HIDE DEF n
<1>4. /\ f[0] = 0 /\ Decimal(s) = f[n]
      /\ \A i \in 1..n : f[i] = 10 * f[i - 1] + (s[i] - 48)
  BY <1>2 DEF DecimalBy, n
<1>5. /\ g[0] = 0 /\ Decimal(z) = g[n + 1]
      /\ \A i \in 1..(n + 1) : g[i] = 10 * g[i - 1] + (z[i] - 48)
  BY <1>1, <1>3 DEF DecimalBy
<1> DEFINE N == {k \in Nat : k <= n => f[k] = g[k]}
<1>6. 0 \in N
  BY <1>4, <1>5
<1>7. \A k \in Nat : k \in N => k + 1 \in N
  <2> SUFFICES ASSUME NEW k \in Nat, k \in N, k + 1 <= n PROVE f[k + 1] = g[k + 1]
    OBVIOUS
  <2>1. f[k] = g[k] /\ k + 1 \in 1..n /\ k + 1 \in 1..(n + 1) /\ (k + 1) - 1 = k
    BY <1>1
  <2>2. f[k + 1] = 10 * f[k] + (s[k + 1] - 48)
    BY <1>4, <2>1
  <2>3. g[k + 1] = 10 * g[k] + (z[k + 1] - 48)
    BY <1>5, <2>1
  <2>4. z[k + 1] = s[k + 1]
    BY <1>1, <2>1
  <2> QED
    BY <2>1, <2>2, <2>3, <2>4
<1>8. f[n] = g[n]
  <2> HIDE DEF N
  <2>1. n \in N
    BY <1>1, <1>6, <1>7, Induction
  <2> QED
    BY <1>1, <2>1 DEF N
<1>9. n + 1 \in 1..(n + 1) /\ (n + 1) - 1 = n
  BY <1>1
<1>10. g[n + 1] = 10 * g[n] + (z[n + 1] - 48)
  BY <1>5, <1>9
<1> QED
  BY <1>1, <1>4, <1>5, <1>8, <1>10

\* DigitsOf, by the function that its LET computes it with.
LEMMA DigitsIs ==
  ASSUME NEW m \in 0..(Half - 1)
  PROVE  \E f : /\ f[0] = <<>> /\ DigitsOf[m] = f[m]
              /\ \A k \in 1..m : f[k] = Append(f[k \div 10], 48 + (k % 10))
<1> DEFINE Is(f, n) == f = [k \in 0..n |-> IF k = 0 THEN <<>> ELSE Append(f[k \div 10], 48 + (k % 10))]
           N == {n \in Nat : \E f : Is(f, n)}
<1>0. m \in Nat
  BY HalfAssumption
<1>1. 0 \in N
  <2> DEFINE f == [k \in 0..0 |-> <<>>]
  <2>1. Is(f, 0)
    OBVIOUS
  <2> QED
    BY <2>1
<1>2. \A n \in Nat : n \in N => n + 1 \in N
  <2> SUFFICES ASSUME NEW n \in Nat, n \in N PROVE n + 1 \in N
    OBVIOUS
  <2>1. PICK f : Is(f, n)
    OBVIOUS
  <2> DEFINE last == Append(f[(n + 1) \div 10], 48 + ((n + 1) % 10))
             g == [k \in 0..(n + 1) |-> IF k <= n THEN f[k] ELSE last]
             h == [k \in 0..(n + 1) |-> IF k = 0 THEN <<>> ELSE Append(g[k \div 10], 48 + (k % 10))]
  <2>2. ASSUME NEW k \in 0..(n + 1) PROVE g[k] = h[k]
    <3>1. CASE k = 0
      <4>1. g[k] = f[0] /\ f[0] = <<>> /\ h[k] = <<>>
        BY <2>1, <3>1
      <4> QED
        BY <4>1
    <3>2. CASE k \in 1..n
      <4>1. k \in 0..n /\ k # 0 /\ (k \div 10) \in 0..n
        BY <3>2
      <4>2. g[k] = f[k] /\ g[k \div 10] = f[k \div 10]
        BY <4>1
      <4>3. f[k] = Append(f[k \div 10], 48 + (k % 10))
        BY <2>1, <4>1
      <4>4. h[k] = Append(g[k \div 10], 48 + (k % 10))
        BY <4>1
      <4> HIDE DEF g, h
      <4> QED
        BY <4>2, <4>3, <4>4
    <3>3. CASE k = n + 1
      <4>1. k # 0 /\ ~(k <= n) /\ (k \div 10) \in 0..n
        BY <3>3
      <4>2. g[k] = last /\ g[k \div 10] = f[k \div 10]
        BY <4>1
      <4>3. h[k] = Append(g[k \div 10], 48 + (k % 10))
        BY <4>1
      <4> HIDE DEF g, h
      <4> QED
        BY <3>3, <4>2, <4>3
    <3> QED
      BY <3>1, <3>2, <3>3
  <2>3. g = h
    BY <2>2
  <2>4. Is(g, n + 1)
    BY <2>3
  <2> HIDE DEF g, Is
  <2>5. \E f2 : Is(f2, n + 1)
    BY <2>4
  <2> QED
    BY <2>5
<1>3. m \in N
  <2> HIDE DEF N
  <2> QED
    BY <1>0, <1>1, <1>2, Induction
<1> DEFINE digits == CHOOSE f : Is(f, m)
<1>4. Is(digits, m)
  BY <1>3
<1>5. DigitsOf[m] = digits[m]
  BY DEF DigitsOf
<1> HIDE DEF digits
<1>6. digits[0] = <<>>
  BY <1>0, <1>4
<1>7. \A k \in 1..m : digits[k] = Append(digits[k \div 10], 48 + (k % 10))
  <2> SUFFICES ASSUME NEW k \in 1..m
               PROVE  digits[k] = Append(digits[k \div 10], 48 + (k % 10))
    OBVIOUS
  <2>1. k \in 0..m /\ k # 0
    BY <1>0
  <2> QED
    BY <1>4, <2>1
<1> QED
  BY <1>5, <1>6, <1>7

\* The digits of a number above zero are digits, there are some, and they are
\* read back as the number.
LEMMA DigitsRead ==
  ASSUME NEW m \in 1..(Half - 1)
  PROVE  DigitsOf[m] \in Seq(Digits) /\ DigitsOf[m] # <<>> /\ Decimal(DigitsOf[m]) = m
<1>1. m \in Nat /\ m \in 0..(Half - 1) /\ m # 0
  BY HalfAssumption
<1>2. PICK f : /\ f[0] = <<>> /\ DigitsOf[m] = f[m]
               /\ \A k \in 1..m : f[k] = Append(f[k \div 10], 48 + (k % 10))
  BY <1>1, DigitsIs
<1> DEFINE Reads(k) == f[k] \in Seq(Digits) /\ Decimal(f[k]) = k /\ (k # 0 => f[k] # <<>>)
           N == {n \in Nat : \A k \in 0..n : k <= m => Reads(k)}
<1>3. 0 \in N
  <2>1. Decimal(<<>>) = 0
    <3> DEFINE s == <<>>
    <3>1. Len(s) = 0 /\ Len(s) \in Nat
      OBVIOUS
    <3>2. PICK g : DecimalBy(g, s)
      BY <3>1, DecimalIs
    <3> QED
      BY <3>1, <3>2 DEF DecimalBy
  <2>2. Reads(0)
    BY <1>2, <2>1
  <2>3. \A k \in 0..0 : k = 0
    OBVIOUS
  <2> HIDE DEF Reads
  <2> QED
    BY <2>2, <2>3
<1>4. \A n \in Nat : n \in N => n + 1 \in N
  <2> HIDE DEF Reads
  <2> SUFFICES ASSUME NEW n \in Nat, n \in N, n + 1 <= m PROVE Reads(n + 1)
    <3> SUFFICES ASSUME NEW n \in Nat, n \in N, NEW k \in 0..(n + 1), k <= m PROVE Reads(k)
      OBVIOUS
    <3>1. CASE k <= n
      BY <3>1
    <3>2. CASE k = n + 1
      BY <3>2
    <3> QED
      BY <3>1, <3>2
  <2> DEFINE q == (n + 1) \div 10
             d == 48 + ((n + 1) % 10)
  <2>1. q \in 0..n /\ d \in Digits /\ n + 1 = 10 * q + (d - 48) /\ q <= m
    BY <1>1 DEF Digits
  <2>2. n + 1 \in 1..m
    BY <1>1
  <2>3. f[n + 1] = Append(f[q], d)
    BY <1>2, <2>2
  <2> HIDE DEF q, d
  <2>4. Reads(q)
    BY <2>1
  <2>5. f[q] \in Seq(Digits) /\ Decimal(f[q]) = q
    BY <2>4 DEF Reads
  <2>6. Decimal(Append(f[q], d)) = 10 * Decimal(f[q]) + (d - 48)
    BY <2>1, <2>5, DecimalAppend
  <2>7. Append(f[q], d) \in Seq(Digits) /\ Append(f[q], d) # <<>>
    BY <2>1, <2>5, AppendProperties
  <2> QED
    BY <2>1, <2>3, <2>5, <2>6, <2>7 DEF Reads
<1>5. Reads(m)
  <2> HIDE DEF N
  <2>1. m \in N
    BY <1>1, <1>3, <1>4, Induction
  <2>2. m \in 0..m /\ m <= m
    BY <1>1
  <2> HIDE DEF Reads
  <2> QED
    BY <2>1, <2>2 DEF N
<1> QED
  BY <1>1, <1>2, <1>5

\* What fits in 32 bits keeps its value.
LEMMA WrapFits ==
  ASSUME NEW n \in (0 - Half)..(Half - 1)
  PROVE  Wrap(n) = n
<1>1. Half \in Nat /\ Half > 9
  BY HalfAssumption
<1>2. n + Half \in 0..(2 * Half - 1) /\ n \in Int
  BY <1>1
<1> DEFINE a == n + Half
           b == 2 * Half
<1>3. a \in Nat /\ b \in Nat /\ a < b
  BY <1>1, <1>2
<1>4. a % b = a
  <2> HIDE DEF a, b
  <2> QED
    BY <1>3
<1>5. a - Half = n
  BY <1>1, <1>2
<1> QED
  BY <1>4, <1>5 DEF Wrap

\* The text of a number that fits is read as the number.
LEMMA TextRead ==
  ASSUME NEW n \in (1 - Half)..(Half - 1)
  PROVE  ReadBack(i32_to_dec_str(n)) = n
<1>1. Half \in Nat /\ Half > 9 /\ n \in Int
  BY HalfAssumption
<1>2. CASE n = 0
  <2> DEFINE s == <<48>>
  <2>1. i32_to_dec_str(n) = s
    BY <1>2 DEF i32_to_dec_str
  <2>2. s = Append(<<>>, 48) /\ 48 \in Digits /\ <<>> \in Seq(Digits)
    BY DEF Digits
  <2>3. Decimal(<<>>) = 0
    <3>1. Len(<<>>) = 0
      OBVIOUS
    <3>2. PICK g : DecimalBy(g, <<>>)
      BY <3>1, DecimalIs
    <3> QED
      BY <3>1, <3>2 DEF DecimalBy
  <2>4. Decimal(s) = 0
    <3>1. Decimal(Append(<<>>, 48)) = 10 * Decimal(<<>>) + (48 - 48)
      BY <2>2, DecimalAppend
    <3>2. 10 * 0 + (48 - 48) = 0
      OBVIOUS
    <3> QED
      BY <2>2, <2>3, <3>1, <3>2
  <2>5. ~(Head(s) = 45)
    OBVIOUS
  <2> HIDE DEF s
  <2> QED
    BY <1>2, <2>1, <2>4, <2>5 DEF ReadBack
<1>3. CASE n > 0
  <2>1. n \in 1..(Half - 1)
    BY <1>1, <1>3
  <2>2. DigitsOf[n] \in Seq(Digits) /\ DigitsOf[n] # <<>> /\ Decimal(DigitsOf[n]) = n
    BY <2>1, DigitsRead
  <2>3. i32_to_dec_str(n) = <<>> \o DigitsOf[n]
    <3>1. ~(n < 0) /\ ~(n = 0)
      BY <1>1, <1>3
    <3> QED
      BY <1>3, <3>1, Zenon DEF i32_to_dec_str
  <2>4. i32_to_dec_str(n) = DigitsOf[n]
    BY <2>2, <2>3, ConcatEmptySeq
  <2>5. Head(DigitsOf[n]) \in Digits /\ 45 \notin Digits
    <3>1. Head(DigitsOf[n]) \in Digits
      BY <2>2, HeadTailProperties
    <3> QED
      BY <3>1 DEF Digits
  <2> QED
    BY <2>2, <2>4, <2>5 DEF ReadBack
<1>4. CASE n < 0
  <2> DEFINE m == 0 - n
  <2>1. m \in 1..(Half - 1) /\ 0 - m = n /\ m > 0 /\ n # 0
    BY <1>1, <1>4
  <2>2. Wrap(m) = m
    <3>1. m \in (0 - Half)..(Half - 1)
      BY <1>1, <2>1
    <3> QED
      BY <3>1, WrapFits
  <2>3. DigitsOf[m] \in Seq(Digits) /\ Decimal(DigitsOf[m]) = m
    BY <2>1, DigitsRead
  <2>4. i32_to_dec_str(n) = <<45>> \o DigitsOf[m]
    BY <1>4, <2>1, <2>2 DEF i32_to_dec_str
  <2> HIDE DEF m
  <2>5. PICK t \in Seq(Digits) : t = DigitsOf[m]
    BY <2>3
  <2>6. /\ <<45>> \o t # <<>> /\ Head(<<45>> \o t) = 45
        /\ Tail(<<45>> \o t) = t
    OBVIOUS
  <2> QED
    BY <2>1, <2>3, <2>4, <2>5, <2>6 DEF ReadBack
<1> QED
  BY <1>1, <1>2, <1>3, <1>4

TextWritten == stage = "committed" => vol_str = i32_to_dec_str(Wrap(result))

\* The text of a committed volume is what i32_to_dec_str makes of the result in
\* 32 bits, and a reader takes it for the result whenever that fits.
THEOREM ReceiptCorrect == VolumesSpec => []ReceiptSaysResult
<1>1. VolumesInit => TextWritten
  BY DEF VolumesInit, TextWritten
<1>2. TextWritten /\ [VolumesNext]_volumesVars => TextWritten'
  <2> SUFFICES ASSUME TextWritten, [VolumesNext]_volumesVars PROVE TextWritten'
    OBVIOUS
  <2>1. CASE Arrive
    BY <2>1 DEF Arrive, TextWritten
  <2>2. CASE Poll
    BY <2>2 DEF Poll, TextWritten
  <2>3. CASE Commit
    BY <2>3 DEF Commit, TextWritten
  <2>4. CASE UNCHANGED volumesVars
    BY <2>4 DEF volumesVars, TextWritten
  <2> QED
    BY <2>1, <2>2, <2>3, <2>4 DEF VolumesNext
<1>3. TextWritten => ReceiptSaysResult
  <2> SUFFICES ASSUME TextWritten, stage = "committed", result \in (1 - Half)..(Half - 1)
               PROVE  ReadBack(vol_str) = result
    BY DEF ReceiptSaysResult
  <2>1. result \in (0 - Half)..(Half - 1)
    BY HalfAssumption
  <2>2. vol_str = i32_to_dec_str(result)
    BY <2>1, WrapFits DEF TextWritten
  <2> QED
    BY <2>2, TextRead
<1> QED
  BY <1>1, <1>2, <1>3, PTL DEF VolumesSpec

-----------------------------------------------------------------------------
(* Volumes: the bytes of a message *)

\* Bytes, by the function that its LET computes it with.
BytesBy(f, fs) ==
  /\ f[0] = <<>> /\ Bytes(fs) = f[Len(fs)]
  /\ \A i \in 1..Len(fs) : f[i] = f[i - 1] \o FieldText(fs[i])

LEMMA BytesIs ==
  ASSUME NEW fs, Len(fs) \in Nat
  PROVE  \E f : BytesBy(f, fs)
<1> DEFINE Is(f, n) == f = [i \in 0..n |-> IF i = 0 THEN <<>> ELSE f[i - 1] \o FieldText(fs[i])]
           N == {n \in Nat : \E f : Is(f, n)}
<1>1. 0 \in N
  <2> DEFINE f == [i \in 0..0 |-> <<>>]
  <2>1. Is(f, 0)
    OBVIOUS
  <2> QED
    BY <2>1
<1>2. \A n \in Nat : n \in N => n + 1 \in N
  <2> SUFFICES ASSUME NEW n \in Nat, n \in N PROVE n + 1 \in N
    OBVIOUS
  <2>1. PICK f : Is(f, n)
    OBVIOUS
  <2> DEFINE g == [i \in 0..(n + 1) |-> IF i <= n THEN f[i] ELSE f[n] \o FieldText(fs[n + 1])]
             h == [i \in 0..(n + 1) |-> IF i = 0 THEN <<>> ELSE g[i - 1] \o FieldText(fs[i])]
  <2>2. ASSUME NEW i \in 0..(n + 1) PROVE g[i] = h[i]
    <3>1. CASE i = 0
      <4>1. g[i] = f[0] /\ f[0] = <<>> /\ h[i] = <<>>
        BY <2>1, <3>1
      <4> QED
        BY <4>1
    <3>2. CASE i \in 1..n
      <4>1. i - 1 \in 0..n /\ i \in 0..n /\ i # 0
        BY <3>2
      <4>2. g[i] = f[i] /\ g[i - 1] = f[i - 1]
        BY <4>1
      <4>3. f[i] = f[i - 1] \o FieldText(fs[i])
        BY <2>1, <4>1
      <4>4. h[i] = g[i - 1] \o FieldText(fs[i])
        BY <4>1
      <4> HIDE DEF g, h
      <4> QED
        BY <4>2, <4>3, <4>4
    <3>3. CASE i = n + 1
      <4>1. i - 1 = n /\ n \in 0..n /\ i # 0 /\ ~(i <= n)
        BY <3>3
      <4>2. g[i] = f[n] \o FieldText(fs[n + 1]) /\ g[i - 1] = f[n]
        BY <3>3, <4>1
      <4>3. h[i] = g[i - 1] \o FieldText(fs[i])
        BY <4>1
      <4> HIDE DEF g, h
      <4> QED
        BY <3>3, <4>1, <4>2, <4>3
    <3> QED
      BY <3>1, <3>2, <3>3
  <2>3. g = h
    BY <2>2
  <2>4. Is(g, n + 1)
    BY <2>3
  <2> HIDE DEF g, Is
  <2>5. \E k : Is(k, n + 1)
    BY <2>4
  <2> QED
    BY <2>5
<1>3. Len(fs) \in N
  <2> HIDE DEF N
  <2> QED
    BY <1>1, <1>2, Induction
<1> DEFINE upto == CHOOSE f : Is(f, Len(fs))
<1>4. Is(upto, Len(fs))
  BY <1>3
<1>5. Bytes(fs) = upto[Len(fs)]
  BY DEF Bytes
<1> HIDE DEF upto
<1>6. upto[0] = <<>>
  BY <1>4
<1>7. \A i \in 1..Len(fs) : upto[i] = upto[i - 1] \o FieldText(fs[i])
  BY <1>4
<1> QED
  BY <1>5, <1>6, <1>7 DEF BytesBy

IsConcat(z, x, y, m, v) ==
  /\ z \in Seq(Int) /\ Len(z) = m + v
  /\ \A j \in 1..m : z[j] = x[j]
  /\ \A j \in 1..v : z[m + j] = y[j]

LEMMA ConcatIs ==
  ASSUME NEW x \in Seq(Int), NEW y \in Seq(Int), NEW m \in Nat, NEW v \in Nat,
         Len(x) = m, Len(y) = v
  PROVE  IsConcat(x \o y, x, y, m, v)
<1>1. /\ x \o y \in Seq(Int) /\ Len(x \o y) = m + v
      /\ \A j \in 1..(m + v) : (x \o y)[j] = IF j <= m THEN x[j] ELSE y[j - m]
  BY ConcatProperties
<1>2. \A j \in 1..m : j \in 1..(m + v) /\ j <= m
  OBVIOUS
<1>3. \A j \in 1..v : m + j \in 1..(m + v) /\ ~(m + j <= m) /\ (m + j) - m = j
  OBVIOUS
<1>4. \A j \in 1..v : (x \o y)[m + j] = y[j]
  BY <1>1, <1>3
<1>5. \A j \in 1..m : (x \o y)[j] = x[j]
  BY <1>1, <1>2
<1> QED
  BY <1>1, <1>4, <1>5 DEF IsConcat

\* t is the text of the field f, with m digits of tag and v digits of value.
IsFieldText(f, t, m, v) ==
  /\ m \in Nat /\ v \in Nat /\ t \in Seq(Int) /\ Len(t) = m + v + 2
  /\ Len(f.tag) = m /\ Len(f.value) = v /\ f.value \in Seq(Digits)
  /\ \A j \in 1..m : t[j] = f.tag[j] /\ f.tag[j] \in Digits
  /\ t[m + 1] = EQ
  /\ \A j \in 1..v : t[m + 1 + j] = f.value[j] /\ f.value[j] \in Digits
  /\ t[m + v + 2] = SOH

LEMMA FieldTextIs ==
  ASSUME NEW f \in Fields
  PROVE  IsFieldText(f, FieldText(f), Len(f.tag), Len(f.value))
<1>1. f.tag \in Seq(Digits) /\ f.value \in Seq(Digits)
  BY FieldAssumption DEF Fields
<1>2. Digits \subseteq Int /\ EQ \in Int /\ SOH \in Int
  BY DEF Digits, EQ, SOH
<1>3. PICK x \in Seq(Int) : x = f.tag
  <2>1. f.tag \in Seq(Int)
    BY <1>1, <1>2, SeqMonotonic
  <2> QED
    BY <2>1
<1>4. PICK y \in Seq(Int) : y = f.value
  <2>1. f.value \in Seq(Int)
    BY <1>1, <1>2, SeqMonotonic
  <2> QED
    BY <2>1
<1>5. PICK m \in Nat : m = Len(x)
  BY LenProperties
<1>6. PICK v \in Nat : v = Len(y)
  BY LenProperties
<1>7. PICK e \in Seq(Int) : e = <<EQ>> /\ Len(e) = 1 /\ e[1] = EQ
  <2>1. <<EQ>> \in Seq(Int) /\ Len(<<EQ>>) = 1 /\ <<EQ>>[1] = EQ
    BY <1>2
  <2> QED
    BY <2>1
<1>8. PICK o \in Seq(Int) : o = <<SOH>> /\ Len(o) = 1 /\ o[1] = SOH
  <2>1. <<SOH>> \in Seq(Int) /\ Len(<<SOH>>) = 1 /\ <<SOH>>[1] = SOH
    BY <1>2
  <2> QED
    BY <2>1
<1>9. PICK s \in Seq(Int) : s = x \o e /\ IsConcat(s, x, e, m, 1)
  <2>1. IsConcat(x \o e, x, e, m, 1)
    BY <1>5, <1>7, ConcatIs
  <2> QED
    BY <2>1 DEF IsConcat
<1>10. PICK n \in Nat : n = m + 1 /\ Len(s) = n
  BY <1>9 DEF IsConcat
<1>11. PICK u \in Seq(Int) : u = s \o y /\ IsConcat(u, s, y, n, v)
  <2>1. IsConcat(s \o y, s, y, n, v)
    BY <1>6, <1>10, ConcatIs
  <2> QED
    BY <2>1 DEF IsConcat
<1>12. PICK l \in Nat : l = n + v /\ Len(u) = l
  BY <1>11 DEF IsConcat
<1>13. PICK t \in Seq(Int) : t = u \o o /\ IsConcat(t, u, o, l, 1)
  <2>1. IsConcat(u \o o, u, o, l, 1)
    BY <1>8, <1>12, ConcatIs
  <2> QED
    BY <2>1 DEF IsConcat
<1>14. t = FieldText(f)
  BY <1>3, <1>4, <1>7, <1>8, <1>9, <1>11, <1>13 DEF FieldText
<1>15. Len(t) = m + v + 2 /\ t[m + v + 2] = SOH
  <2>1. Len(t) = l + 1 /\ t[l + 1] = o[1]
    BY <1>13 DEF IsConcat
  <2> QED
    BY <1>8, <1>10, <1>12, <2>1
<1>16. t[m + 1] = EQ
  <2>1. s[m + 1] = e[1]
    BY <1>9 DEF IsConcat
  <2>2. u[n] = s[n]
    <3>1. n \in 1..n
      BY <1>10
    <3> QED
      BY <1>11, <3>1 DEF IsConcat
  <2>3. t[n] = u[n]
    <3>1. n \in 1..l
      BY <1>10, <1>12
    <3> QED
      BY <1>13, <3>1 DEF IsConcat
  <2> QED
    BY <1>7, <1>10, <2>1, <2>2, <2>3
<1>17. \A j \in 1..m : t[j] = x[j] /\ x[j] \in Digits
  <2> SUFFICES ASSUME NEW j \in 1..m PROVE t[j] = x[j] /\ x[j] \in Digits
    OBVIOUS
  <2>1. j \in 1..n /\ j \in 1..l
    BY <1>10, <1>12
  <2>2. s[j] = x[j]
    BY <1>9 DEF IsConcat
  <2>3. u[j] = s[j]
    BY <1>11, <2>1 DEF IsConcat
  <2>4. t[j] = u[j]
    BY <1>13, <2>1 DEF IsConcat
  <2>5. x[j] \in Digits
    BY <1>1, <1>3, <1>5, ElementOfSeq
  <2> QED
    BY <2>2, <2>3, <2>4, <2>5
<1>18. \A j \in 1..v : t[m + 1 + j] = y[j] /\ y[j] \in Digits
  <2> SUFFICES ASSUME NEW j \in 1..v PROVE t[m + 1 + j] = y[j] /\ y[j] \in Digits
    OBVIOUS
  <2>1. n + j \in 1..l /\ n + j = m + 1 + j
    BY <1>10, <1>12
  <2>2. u[n + j] = y[j]
    BY <1>11 DEF IsConcat
  <2>3. t[n + j] = u[n + j]
    BY <1>13, <2>1 DEF IsConcat
  <2>4. y[j] \in Digits
    BY <1>1, <1>4, <1>6, ElementOfSeq
  <2> QED
    BY <2>1, <2>2, <2>3, <2>4
<1>19. Len(f.tag) = m /\ Len(f.value) = v
  BY <1>3, <1>4, <1>5, <1>6
<1>20. IsFieldText(f, t, m, v)
  BY <1>1, <1>3, <1>4, <1>15, <1>16, <1>17, <1>18, <1>19, Zenon DEF IsFieldText
<1> QED
  BY <1>14, <1>19, <1>20

\* The field f lies behind the first `from' bytes of b, the last of it at `to'.
FieldAt(b, f, from, to, m, v) ==
  /\ m \in Nat /\ v \in Nat /\ to = from + m + v + 2
  /\ Len(f.tag) = m /\ Len(f.value) = v /\ f.value \in Seq(Digits)
  /\ \A j \in 1..m : b[from + j] = f.tag[j] /\ f.tag[j] \in Digits
  /\ b[from + m + 1] = EQ
  /\ \A j \in 1..v : b[from + m + 1 + j] = f.value[j] /\ f.value[j] \in Digits
  /\ b[to] = SOH

FieldIn(b, f, from, to) == FieldAt(b, f, from, to, Len(f.tag), Len(f.value))

LEMMA FieldKept ==
  ASSUME NEW b, NEW c, NEW f, NEW from \in Nat, NEW to \in Nat, NEW l \in Nat,
         FieldIn(b, f, from, to), to <= l, \A i \in 1..l : c[i] = b[i]
  PROVE  FieldIn(c, f, from, to)
<1>1. PICK m \in Nat, v \in Nat : /\ m = Len(f.tag) /\ v = Len(f.value)
                                  /\ FieldAt(b, f, from, to, m, v)
  BY DEF FieldIn, FieldAt
<1>2. to = from + m + v + 2
  BY <1>1 DEF FieldAt
<1>3. \A j \in 1..m : from + j \in 1..l
  BY <1>2
<1>4. from + m + 1 \in 1..l /\ to \in 1..l
  BY <1>2
<1>5. \A j \in 1..v : from + m + 1 + j \in 1..l
  BY <1>2
<1>6. \A j \in 1..m : c[from + j] = b[from + j]
  BY <1>3
<1>7. c[from + m + 1] = b[from + m + 1] /\ c[to] = b[to]
  BY <1>4
<1>8. \A j \in 1..v : c[from + m + 1 + j] = b[from + m + 1 + j]
  BY <1>5
<1>9. FieldAt(c, f, from, to, m, v)
  BY <1>1, <1>6, <1>7, <1>8, Zenon DEF FieldAt
<1> QED
  BY <1>1, <1>9 DEF FieldIn

IsAppended(c, b, f, l, to) ==
  /\ c \in Seq(Int) /\ Len(c) = to /\ l < to
  /\ \A i \in 1..l : c[i] = b[i]
  /\ FieldIn(c, f, l, to)

LEMMA FieldAppended ==
  ASSUME NEW b \in Seq(Int), NEW l \in Nat, Len(b) = l, NEW f \in Fields
  PROVE  \E to \in Nat : IsAppended(b \o FieldText(f), b, f, l, to)
<1>1. PICK t, m, v : /\ t = FieldText(f) /\ m = Len(f.tag) /\ v = Len(f.value)
                     /\ IsFieldText(f, t, m, v)
  BY FieldTextIs
<1>2. m \in Nat /\ v \in Nat /\ t \in Seq(Int)
  BY <1>1, Zenon DEF IsFieldText
<1>3. PICK n \in Nat : n = m + v + 2 /\ Len(t) = n
  <2>1. Len(t) = m + v + 2
    BY <1>1, Zenon DEF IsFieldText
  <2> QED
    BY <1>2, <2>1
<1>4. PICK c : c = b \o t /\ IsConcat(c, b, t, l, n)
  BY <1>2, <1>3, ConcatIs
<1>5. PICK to \in Nat : to = l + n
  OBVIOUS
<1>6. \A j \in 1..n : c[l + j] = t[j]
  BY <1>4 DEF IsConcat
<1>7. FieldAt(c, f, l, to, m, v)
  <2>1. to = l + m + v + 2
    BY <1>2, <1>3, <1>5
  <2>2. Len(f.tag) = m /\ Len(f.value) = v /\ f.value \in Seq(Digits)
    BY <1>1 DEF IsFieldText
  <2>3. \A j \in 1..m : c[l + j] = f.tag[j] /\ f.tag[j] \in Digits
    <3>1. \A j \in 1..m : t[j] = f.tag[j] /\ f.tag[j] \in Digits
      BY <1>1 DEF IsFieldText
    <3>2. \A j \in 1..m : j \in 1..n
      BY <1>2, <1>3
    <3> QED
      BY <1>6, <3>1, <3>2
  <2>4. c[l + m + 1] = EQ
    <3>1. m + 1 \in 1..n /\ l + (m + 1) = l + m + 1
      BY <1>2, <1>3
    <3>2. t[m + 1] = EQ
      BY <1>1 DEF IsFieldText
    <3> QED
      BY <1>6, <3>1, <3>2
  <2>5. \A j \in 1..v : c[l + m + 1 + j] = f.value[j] /\ f.value[j] \in Digits
    <3> SUFFICES ASSUME NEW j \in 1..v
                 PROVE  c[l + m + 1 + j] = f.value[j] /\ f.value[j] \in Digits
      OBVIOUS
    <3>1. m + 1 + j \in 1..n /\ l + (m + 1 + j) = l + m + 1 + j
      BY <1>2, <1>3
    <3>2. t[m + 1 + j] = f.value[j] /\ f.value[j] \in Digits
      BY <1>1 DEF IsFieldText
    <3> QED
      BY <1>6, <3>1, <3>2
  <2>6. c[to] = SOH
    <3>1. n \in 1..n
      BY <1>2, <1>3
    <3>2. t[n] = SOH
      BY <1>1, <1>3 DEF IsFieldText
    <3> QED
      BY <1>5, <1>6, <3>1, <3>2
  <2> QED
    BY <1>2, <2>1, <2>2, <2>3, <2>4, <2>5, <2>6, Zenon DEF FieldAt
<1>8. FieldIn(c, f, l, to)
  BY <1>1, <1>7 DEF FieldIn
<1>9. c \in Seq(Int) /\ Len(c) = to /\ \A i \in 1..l : c[i] = b[i]
  BY <1>4, <1>5 DEF IsConcat
<1>10. l < to
  BY <1>2, <1>3, <1>5
<1>11. IsAppended(c, b, f, l, to)
  BY <1>8, <1>9, <1>10 DEF IsAppended
<1> QED
  BY <1>1, <1>4, <1>11

\* The first k fields of fs lie in b one behind the other, the i-th up to at[i].
Layout(b, fs, at, k) ==
  /\ b \in Seq(Int) /\ Len(b) = at[k] /\ at[0] = 0
  /\ \A i \in 0..k : at[i] \in Nat /\ at[i] <= at[k]
  /\ \A i \in 1..k : FieldIn(b, fs[i], at[i - 1], at[i]) /\ at[i - 1] < at[i]
  /\ \A p \in 1..at[k] : \E i \in 1..k : at[i - 1] < p /\ p <= at[i]

\* One more field.
LEMMA LayoutStep ==
  ASSUME NEW b, NEW c, NEW fs, NEW at, NEW k \in Nat, Layout(b, fs, at, k),
         fs[k + 1] \in Fields, c = b \o FieldText(fs[k + 1]), at[k + 1] = Len(c)
  PROVE  Layout(c, fs, at, k + 1)
<1>1. b \in Seq(Int) /\ Len(b) = at[k] /\ at[0] = 0
  BY DEF Layout
<1>2. \A i \in 0..k : at[i] \in Nat /\ at[i] <= at[k]
  BY DEF Layout
<1>3. \A i \in 1..k : FieldIn(b, fs[i], at[i - 1], at[i]) /\ at[i - 1] < at[i]
  BY DEF Layout
<1>4. \A p \in 1..at[k] : \E i \in 1..k : at[i - 1] < p /\ p <= at[i]
  BY DEF Layout
<1>5. PICK l \in Nat : l = at[k]
  BY <1>2
<1>6. PICK to \in Nat : /\ c \in Seq(Int) /\ Len(c) = to
                        /\ \A i \in 1..l : c[i] = b[i]
                        /\ FieldIn(c, fs[k + 1], l, to) /\ l < to
  <2>1. PICK to \in Nat : IsAppended(b \o FieldText(fs[k + 1]), b, fs[k + 1], l, to)
    BY <1>1, <1>5, FieldAppended
  <2>2. IsAppended(c, b, fs[k + 1], l, to)
    BY <2>1
  <2> QED
    BY <2>2 DEF IsAppended
<1>7. at[k + 1] = to
  BY <1>6
<1>8. \A i \in 0..(k + 1) : at[i] \in Nat /\ at[i] <= to
  <2> SUFFICES ASSUME NEW i \in 0..(k + 1) PROVE at[i] \in Nat /\ at[i] <= to
    OBVIOUS
  <2>1. CASE i = k + 1
    BY <1>7, <2>1
  <2>2. CASE i \in 0..k
    <3>1. at[i] \in Nat /\ at[i] <= l
      BY <1>2, <1>5, <2>2
    <3> QED
      BY <1>6, <3>1
  <2> QED
    BY <2>1, <2>2
<1>9. \A i \in 1..(k + 1) : FieldIn(c, fs[i], at[i - 1], at[i]) /\ at[i - 1] < at[i]
  <2> SUFFICES ASSUME NEW i \in 1..(k + 1)
               PROVE  FieldIn(c, fs[i], at[i - 1], at[i]) /\ at[i - 1] < at[i]
    OBVIOUS
  <2>1. CASE i = k + 1
    <3>1. i - 1 = k
      BY <2>1
    <3>2. at[i - 1] = l /\ at[i] = to
      BY <1>5, <1>7, <2>1, <3>1
    <3>3. FieldIn(c, fs[i], l, to)
      BY <1>6, <2>1, Zenon
    <3>4. FieldIn(c, fs[i], at[i - 1], at[i])
      BY <3>2, <3>3, Zenon
    <3>5. at[i - 1] < at[i]
      BY <1>5, <1>6, <3>2
    <3> QED
      BY <3>4, <3>5
  <2>2. CASE i \in 1..k
    <3>1. i - 1 \in 0..k /\ i \in 0..k
      BY <2>2
    <3>2. PICK x \in Nat, y \in Nat : x = at[i - 1] /\ y = at[i] /\ y <= l
      BY <1>2, <1>5, <3>1
    <3>3. FieldIn(b, fs[i], x, y) /\ x < y
      BY <1>3, <2>2, <3>2
    <3>4. FieldIn(c, fs[i], x, y)
      BY <1>6, <3>2, <3>3, FieldKept
    <3> QED
      BY <3>2, <3>3, <3>4
  <2> QED
    BY <2>1, <2>2
<1>10. \A p \in 1..to : \E i \in 1..(k + 1) : at[i - 1] < p /\ p <= at[i]
  <2> SUFFICES ASSUME NEW p \in 1..to PROVE \E i \in 1..(k + 1) : at[i - 1] < p /\ p <= at[i]
    OBVIOUS
  <2>1. CASE p <= l
    <3>1. PICK i \in 1..k : at[i - 1] < p /\ p <= at[i]
      BY <1>4, <1>5, <2>1
    <3>2. i \in 1..(k + 1)
      OBVIOUS
    <3> QED
      BY <3>1, <3>2
  <2>2. CASE l < p
    <3>1. k + 1 \in 1..(k + 1) /\ (k + 1) - 1 = k
      OBVIOUS
    <3>2. at[(k + 1) - 1] < p /\ p <= at[k + 1]
      BY <1>5, <1>7, <2>2, <3>1
    <3> QED
      BY <3>1, <3>2
  <2> QED
    BY <2>1, <2>2
<1> QED
  BY <1>1, <1>6, <1>7, <1>8, <1>9, <1>10 DEF Layout

\* The fields of a message lie in its bytes one behind the other.
LEMMA BytesLaidOut ==
  ASSUME NEW fs \in Seq(Fields), NEW n \in Nat, Len(fs) = n
  PROVE  \E at : Layout(Bytes(fs), fs, at, n)
<1>1. PICK F : BytesBy(F, fs)
  BY BytesIs
<1>2. /\ F[0] = <<>> /\ Bytes(fs) = F[n]
      /\ \A i \in 1..n : F[i] = F[i - 1] \o FieldText(fs[i])
  BY <1>1 DEF BytesBy
<1>3. \A i \in 1..n : fs[i] \in Fields
  BY ElementOfSeq
<1>4. PICK at : at = [i \in 0..n |-> Len(F[i])]
  OBVIOUS
<1>5. \A i \in 0..n : at[i] = Len(F[i])
  BY <1>4
<1> DEFINE N == {k \in Nat : k <= n => Layout(F[k], fs, at, k)}
<1>6. 0 \in N
  <2>1. Len(<<>>) = 0 /\ <<>> \in Seq(Int) /\ 0 \in 0..n
    OBVIOUS
  <2>2. at[0] = 0 /\ F[0] \in Seq(Int) /\ Len(F[0]) = at[0]
    BY <1>2, <1>5, <2>1
  <2>3. Layout(F[0], fs, at, 0)
    BY <2>2 DEF Layout
  <2> QED
    BY <2>3
<1>7. \A k \in Nat : k \in N => k + 1 \in N
  <2> SUFFICES ASSUME NEW k \in Nat, k \in N, k + 1 <= n PROVE Layout(F[k + 1], fs, at, k + 1)
    OBVIOUS
  <2>1. k + 1 \in 1..n /\ k + 1 \in 0..n /\ (k + 1) - 1 = k /\ k <= n
    OBVIOUS
  <2>2. F[k + 1] = F[k] \o FieldText(fs[k + 1])
    BY <1>2, <2>1
  <2>3. at[k + 1] = Len(F[k + 1])
    BY <1>5, <2>1
  <2>4. Layout(F[k], fs, at, k)
    BY <2>1
  <2>5. fs[k + 1] \in Fields
    BY <1>3, <2>1
  <2> QED
    BY <2>2, <2>3, <2>4, <2>5, LayoutStep
<1>8. Layout(F[n], fs, at, n)
  <2> HIDE DEF N
  <2>1. n \in N
    BY <1>6, <1>7, Induction
  <2> QED
    BY <2>1 DEF N
<1> QED
  BY <1>2, <1>8

\* "38=" lies at i of a text.
Says38(b, i) == b[i] = 51 /\ b[i + 1] = 56 /\ b[i + 2] = EQ

\* Where "=" lies behind the tag of the q-th field.
EqualsAt(fs, at, q) == at[q - 1] + Len(fs[q].tag) + 1

HasBounds(b, f, x, y) ==
  \E from \in Nat, to \in Nat, m \in Nat, v \in Nat :
    /\ from = x /\ to = y /\ m = Len(f.tag) /\ v = Len(f.value)
    /\ FieldAt(b, f, from, to, m, v)

LEMMA FieldBounds ==
  ASSUME NEW b, NEW fs, NEW at, NEW n \in Nat, Layout(b, fs, at, n), NEW q \in 1..n
  PROVE  HasBounds(b, fs[q], at[q - 1], at[q])
<1>1. q - 1 \in 0..n /\ q \in 0..n
  OBVIOUS
<1>2. PICK from \in Nat, to \in Nat : from = at[q - 1] /\ to = at[q]
  BY <1>1 DEF Layout
<1>3. FieldIn(b, fs[q], from, to)
  BY <1>2 DEF Layout
<1>4. PICK m, v : m = Len(fs[q].tag) /\ v = Len(fs[q].value)
  OBVIOUS
<1>5. FieldAt(b, fs[q], from, to, m, v)
  BY <1>3, <1>4 DEF FieldIn
<1>6. m \in Nat /\ v \in Nat
  BY <1>5, Zenon DEF FieldAt
<1> QED
  BY <1>2, <1>4, <1>5, <1>6 DEF HasBounds

\* "38=" lies wherever the tag of a field ends with 38,
LEMMA TagThere ==
  ASSUME NEW b, NEW fs, NEW at, NEW n \in Nat, Layout(b, fs, at, n), NEW q \in 1..n,
         EndsIn38(fs[q].tag)
  PROVE  EqualsAt(fs, at, q) - 2 \in 1..(at[n] - 2) /\ Says38(b, EqualsAt(fs, at, q) - 2)
<1>1. PICK from \in Nat, to \in Nat, m \in Nat, v \in Nat :
        /\ from = at[q - 1] /\ to = at[q] /\ m = Len(fs[q].tag) /\ v = Len(fs[q].value)
        /\ FieldAt(b, fs[q], from, to, m, v)
  BY FieldBounds DEF HasBounds
<1>2. PICK l \in Nat : l = at[n] /\ to <= l
  <2>1. n \in 0..n /\ q \in 0..n
    OBVIOUS
  <2> QED
    BY <1>1, <2>1 DEF Layout
<1>3. to = from + m + v + 2
  BY <1>1 DEF FieldAt
<1>4. m >= 2 /\ fs[q].tag[m - 1] = 51 /\ fs[q].tag[m] = 56
  BY <1>1 DEF EndsIn38
<1>5. PICK i \in Nat : i = from + m - 1
  BY <1>4
<1>6. i \in 1..(l - 2) /\ EqualsAt(fs, at, q) - 2 = i
  <2>1. EqualsAt(fs, at, q) = from + m + 1
    BY <1>1 DEF EqualsAt
  <2>2. i + 2 = from + m + 1 /\ i >= 1 /\ i + 2 <= l
    BY <1>2, <1>3, <1>4, <1>5
  <2> QED
    BY <2>1, <2>2
<1>7. b[i] = 51
  <2>1. m - 1 \in 1..m /\ from + (m - 1) = i
    BY <1>4, <1>5
  <2>2. b[from + (m - 1)] = fs[q].tag[m - 1]
    BY <1>1, <2>1 DEF FieldAt
  <2> QED
    BY <1>4, <2>1, <2>2
<1>8. b[i + 1] = 56
  <2>1. m \in 1..m /\ from + m = i + 1
    BY <1>4, <1>5
  <2>2. b[from + m] = fs[q].tag[m]
    BY <1>1, <2>1 DEF FieldAt
  <2> QED
    BY <1>4, <2>1, <2>2
<1>9. b[i + 2] = EQ
  <2>1. from + m + 1 = i + 2
    BY <1>5
  <2>2. b[from + m + 1] = EQ
    BY <1>1 DEF FieldAt
  <2> QED
    BY <2>1, <2>2
<1> QED
  BY <1>2, <1>6, <1>7, <1>8, <1>9 DEF Says38

\* and nowhere else: "=" lies behind tags only, and SOH between the fields.
LEMMA TagFound ==
  ASSUME NEW b, NEW fs, NEW at, NEW n \in Nat, Layout(b, fs, at, n),
         NEW i \in 1..(at[n] - 2), Says38(b, i)
  PROVE  \E q \in 1..n : EndsIn38(fs[q].tag) /\ i = EqualsAt(fs, at, q) - 2
<1>1. PICK l \in Nat : l = at[n]
  BY DEF Layout
<1>2. i \in Nat /\ i >= 1 /\ i + 2 \in 1..l
  BY <1>1
<1>3. PICK q \in 1..n : at[q - 1] < i + 2 /\ i + 2 <= at[q]
  BY <1>1, <1>2 DEF Layout
<1>4. PICK from \in Nat, to \in Nat, m \in Nat, v \in Nat :
        /\ from = at[q - 1] /\ to = at[q] /\ m = Len(fs[q].tag) /\ v = Len(fs[q].value)
        /\ FieldAt(b, fs[q], from, to, m, v)
  BY FieldBounds DEF HasBounds
<1>5. from < i + 2 /\ i + 2 <= to /\ to = from + m + v + 2
  BY <1>3, <1>4 DEF FieldAt
<1>6. b[i] = 51 /\ b[i + 1] = 56 /\ b[i + 2] = EQ
  BY DEF Says38
<1>7. \A d \in Digits : d # EQ
  BY DEF Digits, EQ
<1>8. i + 2 = from + m + 1
  <2>1. CASE i + 2 <= from + m
    <3>1. PICK j \in 1..m : i + 2 = from + j
      <4>1. (i + 2) - from \in 1..m /\ i + 2 = from + ((i + 2) - from)
        BY <1>2, <1>5, <2>1
      <4> QED
        BY <4>1
    <3>2. b[from + j] \in Digits
      BY <1>4 DEF FieldAt
    <3> QED
      BY <1>6, <1>7, <3>1, <3>2
  <2>2. CASE from + m + 1 < i + 2 /\ i + 2 < to
    <3>1. PICK j \in 1..v : i + 2 = from + m + 1 + j
      <4>1. (i + 2) - (from + m + 1) \in 1..v /\ i + 2 = from + m + 1 + ((i + 2) - (from + m + 1))
        BY <1>2, <1>5, <2>2
      <4> QED
        BY <4>1
    <3>2. b[from + m + 1 + j] \in Digits
      BY <1>4 DEF FieldAt
    <3> QED
      BY <1>6, <1>7, <3>1, <3>2
  <2>3. CASE i + 2 = to
    <3>1. b[to] = SOH
      BY <1>4 DEF FieldAt
    <3>2. SOH # EQ
      BY DEF SOH, EQ
    <3> QED
      BY <1>6, <2>3, <3>1, <3>2
  <2> QED
    BY <1>2, <1>5, <2>1, <2>2, <2>3
<1>9. ASSUME from > 0 PROVE b[from] = SOH
  <2>1. q # 1
    BY <1>4, <1>9 DEF Layout
  <2>2. q - 1 \in 1..n
    BY <2>1
  <2>3. PICK fr \in Nat, t \in Nat, mm \in Nat, vv \in Nat :
          /\ fr = at[(q - 1) - 1] /\ t = at[q - 1]
          /\ mm = Len(fs[q - 1].tag) /\ vv = Len(fs[q - 1].value)
          /\ FieldAt(b, fs[q - 1], fr, t, mm, vv)
    BY <2>2, FieldBounds DEF HasBounds
  <2>4. b[t] = SOH
    BY <2>3 DEF FieldAt
  <2> QED
    BY <1>4, <2>3, <2>4
<1>10. m >= 2
  <2>1. CASE m = 0
    <3>1. from = i + 1 /\ from > 0
      BY <1>2, <1>8, <2>1
    <3>2. b[i + 1] = SOH
      BY <1>9, <3>1
    <3> QED
      BY <1>6, <3>2 DEF SOH
  <2>2. CASE m = 1
    <3>1. from = i /\ from > 0
      BY <1>2, <1>8, <2>2
    <3>2. b[i] = SOH
      BY <1>9, <3>1
    <3> QED
      BY <1>6, <3>2 DEF SOH
  <2> QED
    BY <2>1, <2>2
<1>11. fs[q].tag[m - 1] = 51
  <2>1. m - 1 \in 1..m /\ from + (m - 1) = i
    BY <1>2, <1>8, <1>10
  <2>2. b[from + (m - 1)] = fs[q].tag[m - 1]
    BY <1>4, <2>1 DEF FieldAt
  <2> QED
    BY <1>6, <2>1, <2>2
<1>12. fs[q].tag[m] = 56
  <2>1. m \in 1..m /\ from + m = i + 1
    BY <1>2, <1>8, <1>10
  <2>2. b[from + m] = fs[q].tag[m]
    BY <1>4, <2>1 DEF FieldAt
  <2> QED
    BY <1>6, <2>1, <2>2
<1>13. EndsIn38(fs[q].tag)
  BY <1>4, <1>10, <1>11, <1>12 DEF EndsIn38
<1>14. i = EqualsAt(fs, at, q) - 2
  BY <1>2, <1>4, <1>8 DEF EqualsAt
<1> QED
  BY <1>13, <1>14

\* The tags lie in the order of the fields.
LEMMA EqualsInOrder ==
  ASSUME NEW b, NEW fs, NEW at, NEW n \in Nat, Layout(b, fs, at, n),
         NEW q \in 1..n, NEW r \in 1..n, q <= r, EndsIn38(fs[q].tag), EndsIn38(fs[r].tag)
  PROVE  EqualsAt(fs, at, q) <= EqualsAt(fs, at, r)
<1>1. CASE q = r
  <2>1. EqualsAt(fs, at, q) - 2 \in 1..(at[n] - 2) /\ n \in 0..n
    BY TagThere
  <2>2. PICK from \in Nat, to \in Nat, m \in Nat, v \in Nat :
        /\ from = at[q - 1] /\ to = at[q] /\ m = Len(fs[q].tag) /\ v = Len(fs[q].value)
        /\ FieldAt(b, fs[q], from, to, m, v)
    BY FieldBounds DEF HasBounds
  <2>3. EqualsAt(fs, at, q) = from + m + 1
    BY <2>2 DEF EqualsAt
  <2> QED
    BY <1>1, <2>3
<1>2. CASE q < r
  <2> DEFINE N == {k \in Nat : q + k <= n => at[q] <= at[q + k]}
  <2>1. \A k \in 0..n : at[k] \in Nat
    BY DEF Layout
  <2>2. 0 \in N
    BY <2>1
  <2>3. \A k \in Nat : k \in N => k + 1 \in N
    <3> SUFFICES ASSUME NEW k \in Nat, k \in N, q + (k + 1) <= n
                 PROVE  at[q] <= at[q + (k + 1)]
      OBVIOUS
    <3>1. PICK j \in 1..n : j = q + (k + 1)
      OBVIOUS
    <3>2. at[j - 1] < at[j]
      BY DEF Layout
    <3>3. j - 1 = q + k /\ j - 1 \in 0..n /\ j \in 0..n /\ q \in 0..n
      BY <3>1
    <3>4. at[q] <= at[j - 1]
      BY <3>3
    <3> QED
      BY <2>1, <3>1, <3>2, <3>3, <3>4
  <2>4. at[q] <= at[r - 1]
    <3> HIDE DEF N
    <3>1. (r - 1) - q \in Nat /\ q + ((r - 1) - q) = r - 1 /\ r - 1 <= n
      BY <1>2
    <3>2. (r - 1) - q \in N
      BY <2>2, <2>3, <3>1, Induction
    <3> QED
      BY <3>1, <3>2 DEF N
  <2>5. PICK from \in Nat, to \in Nat, m \in Nat, v \in Nat :
        /\ from = at[q - 1] /\ to = at[q] /\ m = Len(fs[q].tag) /\ v = Len(fs[q].value)
        /\ FieldAt(b, fs[q], from, to, m, v)
    BY FieldBounds DEF HasBounds
  <2>6. to = from + m + v + 2
    BY <2>5 DEF FieldAt
  <2>7. PICK fr \in Nat, t \in Nat, mm \in Nat, vv \in Nat :
        /\ fr = at[r - 1] /\ t = at[r] /\ mm = Len(fs[r].tag) /\ vv = Len(fs[r].value)
        /\ FieldAt(b, fs[r], fr, t, mm, vv)
    BY FieldBounds DEF HasBounds
  <2>8. EqualsAt(fs, at, q) = from + m + 1 /\ EqualsAt(fs, at, r) = fr + mm + 1
    BY <2>5, <2>7 DEF EqualsAt
  <2>9. to <= fr
    BY <2>4, <2>5, <2>7
  <2> QED
    BY <2>6, <2>8, <2>9
<1> QED
  BY <1>1, <1>2

LEMMA MinIs ==
  ASSUME NEW S, S \subseteq Int, NEW x \in S, \A y \in S : x <= y
  PROVE  Min(S) = x
<1>1. Min(S) \in S /\ \A y \in S : Min(S) <= y
  BY DEF Min
<1>2. PICK m \in S : m = Min(S) /\ m <= x
  BY <1>1
<1>3. x <= m /\ m \in Int /\ x \in Int
  OBVIOUS
<1> QED
  BY <1>2, <1>3

LEMMA IsTagIs ==
  ASSUME fix_data \in [1..BUFFER_SIZE -> Int], NEW i \in 1..(BUFFER_SIZE - 2)
  PROVE  IsTag(i) <=> Says38(fix_data, i)
<1> DEFINE sub == SubSeq(fix_data, i, i + 2)
<1>1. BUFFER_SIZE \in Nat
  BY PacketAssumption
<1>2. PICK w \in Seq(Int) : /\ w = Text38 \o <<EQ>> /\ Len(w) = 3
                            /\ w[1] = 51 /\ w[2] = 56 /\ w[3] = EQ
  <2>1. PICK x \in Seq(Int) : x = Text38 /\ Len(x) = 2 /\ x[1] = 51 /\ x[2] = 56
    <3>1. /\ <<51, 56>> \in Seq(Int) /\ Len(<<51, 56>>) = 2
          /\ <<51, 56>>[1] = 51 /\ <<51, 56>>[2] = 56
      OBVIOUS
    <3> QED
      BY <3>1 DEF Text38
  <2>2. PICK e \in Seq(Int) : e = <<EQ>> /\ Len(e) = 1 /\ e[1] = EQ
    <3>1. EQ \in Int
      BY DEF EQ
    <3>2. <<EQ>> \in Seq(Int) /\ Len(<<EQ>>) = 1 /\ <<EQ>>[1] = EQ
      BY <3>1
    <3> QED
      BY <3>2
  <2>3. IsConcat(x \o e, x, e, 2, 1)
    BY <2>1, <2>2, ConcatIs
  <2>4. PICK w : w = x \o e /\ IsConcat(w, x, e, 2, 1)
    BY <2>3
  <2>5. 1 \in 1..2 /\ 2 \in 1..2 /\ 1 \in 1..1 /\ 2 + 1 = 3
    OBVIOUS
  <2>6. w[1] = x[1] /\ w[2] = x[2] /\ w[2 + 1] = e[1] /\ w \in Seq(Int) /\ Len(w) = 2 + 1
    BY <2>4, <2>5, Zenon DEF IsConcat
  <2> QED
    BY <2>1, <2>2, <2>4, <2>5, <2>6
<1>3. \A j \in i..(i + 2) : fix_data[j] \in Int
  BY <1>1
<1>4. i \in Int /\ i + 2 \in Int /\ i <= i + 2 /\ (i + 2) - i + 1 = 3
  OBVIOUS
<1>5. /\ sub \in Seq(Int) /\ Len(sub) = 3
      /\ \A k \in 1..3 : sub[k] = fix_data[i + k - 1]
  <2>1. sub \in Seq(Int)
    BY <1>3, <1>4, SubSeqProperties
  <2>2. Len(sub) = IF i <= i + 2 THEN i + 2 - i + 1 ELSE 0
    BY <1>3, <1>4, SubSeqProperties
  <2>3. \A k \in 1..(i + 2 - i + 1) : sub[k] = fix_data[i + k - 1]
    BY <1>3, <1>4, SubSeqProperties
  <2>4. i + 2 - i + 1 = 3
    OBVIOUS
  <2> HIDE DEF sub
  <2> QED
    BY <1>4, <2>1, <2>2, <2>3, <2>4
<1> HIDE DEF sub
<1>6. sub[1] = fix_data[i] /\ sub[2] = fix_data[i + 1] /\ sub[3] = fix_data[i + 2]
  <2>1. i + 1 - 1 = i /\ i + 2 - 1 = i + 1 /\ i + 3 - 1 = i + 2
    OBVIOUS
  <2> QED
    BY <1>5, <2>1
<1>7. sub = w => Says38(fix_data, i)
  BY <1>2, <1>6 DEF Says38
<1>8. Says38(fix_data, i) => sub = w
  <2> SUFFICES ASSUME Says38(fix_data, i) PROVE sub = w
    OBVIOUS
  <2>1. \A k \in 1..3 : k = 1 \/ k = 2 \/ k = 3
    OBVIOUS
  <2>2. \A k \in 1..Len(sub) : sub[k] = w[k]
    BY <1>2, <1>5, <1>6, <2>1 DEF Says38
  <2> QED
    BY <1>2, <1>5, <2>2, SeqEqual
<1> QED
  BY <1>2, <1>7, <1>8 DEF IsTag, sub

\* Behind the "=" of a field whose bytes lie in the buffer the digits are its value.
LEMMA DigitsAre ==
  ASSUME fix_data \in [1..BUFFER_SIZE -> Int], NEW f, NEW from \in Nat, NEW to \in Nat,
         NEW m \in Nat, NEW v \in Nat, to <= BUFFER_SIZE,
         FieldAt(fix_data, f, from, to, m, v)
  PROVE  DigitsFrom(from + m + 2) = f.value
<1>1. BUFFER_SIZE \in Nat
  BY PacketAssumption
<1>2. PICK i \in Nat : i = from + m + 2
  OBVIOUS
<1>3. to = i + v /\ i >= 1
  BY <1>2 DEF FieldAt
<1>4. \A j \in i..(to - 1) : fix_data[j] = f.value[j - i + 1] /\ f.value[j - i + 1] \in Digits
  <2> SUFFICES ASSUME NEW j \in i..(to - 1)
               PROVE  fix_data[j] = f.value[j - i + 1] /\ f.value[j - i + 1] \in Digits
    OBVIOUS
  <2>1. PICK k \in 1..v : k = j - i + 1
    BY <1>2, <1>3
  <2>2. from + m + 1 + k = j
    BY <1>2, <2>1
  <2>3. fix_data[from + m + 1 + k] = f.value[k] /\ f.value[k] \in Digits
    BY DEF FieldAt
  <2> QED
    BY <2>1, <2>2, <2>3
<1> DEFINE others == {j \in i..BUFFER_SIZE : fix_data[j] \notin Digits}
<1>5. to \in others
  <2>1. fix_data[to] = SOH
    BY DEF FieldAt
  <2> QED
    BY <1>1, <1>3, <2>1 DEF SOH, Digits
<1>6. others \subseteq Int /\ \A j \in others : to <= j
  <2> SUFFICES ASSUME NEW j \in others PROVE to <= j
    BY <1>1
  <2>1. j \in i..BUFFER_SIZE /\ fix_data[j] \notin Digits
    OBVIOUS
  <2>2. j \notin i..(to - 1)
    <3> HIDE DEF others
    <3> QED
      BY <1>4, <2>1
  <2> HIDE DEF others
  <2> QED
    BY <1>1, <2>1, <2>2
<1>7. Min(others) = to
  <2> HIDE DEF others
  <2> QED
    BY <1>5, <1>6, MinIs
<1>8. DigitsFrom(i) = SubSeq(fix_data, i, to - 1)
  <2>1. others # {}
    BY <1>5
  <2>2. DigitsFrom(i) = SubSeq(fix_data, i, IF others = {} THEN BUFFER_SIZE ELSE Min(others) - 1)
    BY DEF DigitsFrom
  <2> HIDE DEF others
  <2> QED
    BY <1>7, <2>1, <2>2
<1>9. PICK y \in Seq(Int) : y = f.value /\ Len(y) = v
  <2>1. f.value \in Seq(Digits) /\ Len(f.value) = v
    BY DEF FieldAt
  <2>2. Digits \subseteq Int
    BY DEF Digits
  <2>3. f.value \in Seq(Int)
    BY <2>1, <2>2, SeqMonotonic
  <2> QED
    BY <2>1, <2>3
<1> DEFINE sub == SubSeq(fix_data, i, to - 1)
<1>10. PICK l \in Int : l = to - 1
  OBVIOUS
<1>11. \A j \in i..l : fix_data[j] \in Int
  BY <1>1, <1>3, <1>10
<1>12. sub \in Seq(Int)
  BY <1>10, <1>11, SubSeqProperties
<1>13. Len(sub) = v
  <2>1. Len(sub) = IF i <= l THEN l - i + 1 ELSE 0
    BY <1>10, <1>11, SubSeqProperties
  <2> HIDE DEF sub
  <2> QED
    BY <1>3, <1>10, <2>1
<1>14. \A k \in 1..v : sub[k] = y[k]
  <2> SUFFICES ASSUME NEW k \in 1..v PROVE sub[k] = y[k]
    OBVIOUS
  <2>1. \A j \in 1..(l - i + 1) : sub[j] = fix_data[i + j - 1]
    BY <1>10, <1>11, SubSeqProperties
  <2>2. k \in 1..(l - i + 1)
    BY <1>3, <1>10
  <2>3. PICK j \in i..(to - 1) : j = i + k - 1 /\ j - i + 1 = k
    BY <1>3
  <2> HIDE DEF sub
  <2> QED
    BY <1>4, <1>9, <2>1, <2>2, <2>3
<1>15. sub = y
  <2> HIDE DEF sub
  <2> QED
    BY <1>9, <1>12, <1>13, <1>14, SeqEqual
<1> QED
  BY <1>2, <1>8, <1>9, <1>15

\* The buffer holds the whole packet that arrived, what is behind it aside.
Holds(p) ==
  /\ p \in Packets /\ pkt_len = Len(Sent(p)) /\ pkt_len <= BUFFER_SIZE
  /\ \A i \in 1..pkt_len : fix_data[i] = Sent(p)[i]

LEMMA WholeMessage ==
  ASSUME NEW p \in Packets, p.cut = 0
  PROVE  \E n, at, b :
           n \in Nat /\ b = Sent(p) /\ DOMAIN p.fields = 1..n /\ Layout(b, p.fields, at, n)
<1>1. PICK n \in Nat : p.fields \in [1..n -> Fields]
  BY DEF Packets, BoundedSeq, SeqOf
<1>2. PICK fs \in Seq(Fields) : fs = p.fields /\ Len(fs) = n /\ DOMAIN fs = 1..n
  BY <1>1
<1>3. PICK at : Layout(Bytes(fs), fs, at, n)
  BY <1>2, BytesLaidOut
<1>4. PICK b : b = Bytes(fs)
  OBVIOUS
<1>5. b \in Seq(Int)
  BY <1>3, <1>4 DEF Layout
<1>6. PICK l \in Nat : l = Len(b)
  BY <1>5, LenProperties
<1>7. Sent(p) = SubSeq(b, 1, l - 0)
  BY <1>2, <1>4, <1>6 DEF Sent
<1>8. l - 0 = l
  OBVIOUS
<1>9. SubSeq(b, 1, l) = b
  BY <1>5, <1>6, SubSeqFull
<1> QED
  BY <1>2, <1>3, <1>4, <1>7, <1>8, <1>9

\* What virtio_net_poll_rx returns for a whole message in its buffer.
LEMMA VolumeFound ==
  ASSUME fix_data \in [1..BUFFER_SIZE -> Int], Holds(packet), packet.cut = 0
  PROVE  VolumeIn = IF Quantities = {} THEN 0 ELSE Number(packet.fields[Min(Quantities)].value)
<1>0. PICK n \in Nat : \E at, b :
        b = Sent(packet) /\ DOMAIN packet.fields = 1..n /\ Layout(b, packet.fields, at, n)
  BY WholeMessage DEF Holds
<1>1. PICK at, b :
        b = Sent(packet) /\ DOMAIN packet.fields = 1..n /\ Layout(b, packet.fields, at, n)
  BY <1>0
<1>2. PICK fs : fs = packet.fields
  OBVIOUS
<1>3. PICK l \in Nat : l = pkt_len /\ l = at[n] /\ Len(b) = l /\ l <= BUFFER_SIZE
  <2>1. Len(b) = at[n] /\ at[n] \in Nat
    <3>1. n \in 0..n
      BY <1>1
    <3> QED
      BY <1>1, <3>1 DEF Layout
  <2>2. pkt_len = Len(b) /\ pkt_len <= BUFFER_SIZE
    BY <1>1 DEF Holds
  <2> QED
    BY <2>1, <2>2
<1>4. \A i \in 1..l : fix_data[i] = b[i]
  BY <1>1, <1>3 DEF Holds
<1>5. BUFFER_SIZE \in Nat
  BY PacketAssumption
<1>6. Layout(b, fs, at, n)
  BY <1>1, <1>2
<1>7. Quantities = {q \in 1..n : EndsIn38(fs[q].tag)}
  BY <1>1, <1>2 DEF Quantities
<1>8. \A i \in 1..(l - 2) : IsTag(i) <=> Says38(b, i)
  <2> SUFFICES ASSUME NEW i \in 1..(l - 2) PROVE IsTag(i) <=> Says38(b, i)
    OBVIOUS
  <2>1. i \in 1..(BUFFER_SIZE - 2)
    BY <1>3, <1>5
  <2>2. IsTag(i) <=> Says38(fix_data, i)
    BY <2>1, IsTagIs
  <2>3. i \in 1..l /\ i + 1 \in 1..l /\ i + 2 \in 1..l
    OBVIOUS
  <2>4. fix_data[i] = b[i] /\ fix_data[i + 1] = b[i + 1] /\ fix_data[i + 2] = b[i + 2]
    BY <1>4, <2>3
  <2>5. Says38(fix_data, i) <=> Says38(b, i)
    BY <2>4 DEF Says38
  <2> QED
    BY <2>2, <2>5
<1>9. Found = {i \in 1..(l - 2) : Says38(b, i)}
  BY <1>3, <1>8 DEF Found
<1>10. CASE Quantities = {}
  <2>1. Found = {}
    <3> SUFFICES ASSUME NEW i \in 1..(l - 2), Says38(b, i) PROVE FALSE
      BY <1>9
    <3>1. i \in 1..(at[n] - 2)
      BY <1>3
    <3>2. PICK q \in 1..n : EndsIn38(fs[q].tag)
      BY <1>0, <1>6, <3>1, TagFound
    <3> QED
      BY <1>7, <1>10, <3>2
  <2> QED
    BY <1>10, <2>1 DEF VolumeIn
<1>11. CASE Quantities # {}
  <2>1. PICK q \in Quantities : \A r \in Quantities : q <= r
    <3>1. Quantities \subseteq Nat
      BY <1>7
    <3> QED
      BY <1>11, <3>1, Least
  <2>2. q \in 1..n /\ EndsIn38(fs[q].tag) /\ Quantities \subseteq Int
    BY <1>7
  <2>3. Min(Quantities) = q
    BY <2>1, <2>2, MinIs
  <2>4. PICK from \in Nat, to \in Nat, m \in Nat, v \in Nat :
        /\ from = at[q - 1] /\ to = at[q] /\ m = Len(fs[q].tag) /\ v = Len(fs[q].value)
        /\ FieldAt(b, fs[q], from, to, m, v)
    BY <1>0, <1>6, <2>2, FieldBounds DEF HasBounds
  <2>5. EqualsAt(fs, at, q) = from + m + 1
    BY <2>4 DEF EqualsAt
  <2>6. PICK i \in 1..(l - 2) : i = EqualsAt(fs, at, q) - 2 /\ Says38(b, i)
    <3>1. /\ EqualsAt(fs, at, q) - 2 \in 1..(at[n] - 2)
          /\ Says38(b, EqualsAt(fs, at, q) - 2)
      BY <1>0, <1>6, <2>2, TagThere
    <3> QED
      BY <1>3, <3>1
  <2>7. i \in Found /\ Found \subseteq Int
    BY <1>9, <2>6
  <2>8. \A j \in Found : i <= j
    <3> SUFFICES ASSUME NEW j \in 1..(l - 2), Says38(b, j) PROVE i <= j
      BY <1>9
    <3>1. j \in 1..(at[n] - 2)
      BY <1>3
    <3>2. PICK r \in 1..n : EndsIn38(fs[r].tag) /\ j = EqualsAt(fs, at, r) - 2
      BY <1>0, <1>6, <3>1, TagFound
    <3>3. q <= r
      BY <1>7, <2>1, <3>2
    <3>4. EqualsAt(fs, at, q) <= EqualsAt(fs, at, r)
      BY <1>0, <1>6, <2>2, <3>2, <3>3, EqualsInOrder
    <3>5. PICK fr \in Nat, t \in Nat, mm \in Nat, vv \in Nat :
          /\ fr = at[r - 1] /\ t = at[r] /\ mm = Len(fs[r].tag) /\ vv = Len(fs[r].value)
          /\ FieldAt(b, fs[r], fr, t, mm, vv)
      <4>1. HasBounds(b, fs[r], at[r - 1], at[r])
        BY <1>0, <1>6, FieldBounds
      <4> QED
        BY <4>1 DEF HasBounds
    <3>6. EqualsAt(fs, at, r) = fr + mm + 1
      BY <3>5 DEF EqualsAt
    <3> QED
      BY <2>5, <2>6, <3>2, <3>4, <3>6
  <2>9. Min(Found) = i
    BY <2>7, <2>8, MinIs
  <2>10. i + 3 = from + m + 2
    BY <2>5, <2>6
  <2>11. FieldIn(fix_data, fs[q], from, to) /\ to <= BUFFER_SIZE
    <3>1. to <= l
      <4>1. q \in 0..n
        BY <2>2
      <4> QED
        BY <1>3, <1>6, <2>4, <4>1 DEF Layout
    <3>2. FieldIn(b, fs[q], from, to)
      BY <2>4 DEF FieldIn
    <3>3. FieldIn(fix_data, fs[q], from, to)
      BY <1>4, <3>1, <3>2, FieldKept
    <3> QED
      BY <1>3, <1>5, <3>1, <3>3
  <2>12. FieldAt(fix_data, fs[q], from, to, m, v)
    BY <2>4, <2>11 DEF FieldIn
  <2>13. DigitsFrom(from + m + 2) = fs[q].value
    BY <2>11, <2>12, DigitsAre
  <2>14. VolumeIn = Number(DigitsFrom(Min(Found) + 3))
    BY <2>7 DEF VolumeIn
  <2>15. VolumeIn = Number(fs[q].value)
    BY <2>9, <2>10, <2>13, <2>14
  <2> QED
    BY <1>2, <1>11, <2>3, <2>15
<1> QED
  BY <1>10, <1>11

\* While a packet waits the buffer holds it.
Buffered ==
  /\ fix_data \in [1..BUFFER_SIZE -> Int]
  /\ stage = "arrived" => Holds(packet)

LEMMA SentBytes ==
  ASSUME NEW p \in Packets
  PROVE  \E b \in Seq(Int), l \in Nat : b = Sent(p) /\ l = Len(b)
<1>1. PICK n \in Nat : p.fields \in [1..n -> Fields] /\ p.cut \in Int
  BY DEF Packets, BoundedSeq, SeqOf
<1>2. PICK fs \in Seq(Fields) : fs = p.fields /\ Len(fs) = n
  BY <1>1
<1>3. PICK at : Layout(Bytes(fs), fs, at, n)
  BY <1>2, BytesLaidOut
<1>4. PICK c : c = Bytes(fs)
  OBVIOUS
<1>5. c \in Seq(Int)
  BY <1>3, <1>4 DEF Layout
<1>6. PICK k \in Nat : k = Len(c)
  BY <1>5, LenProperties
<1>7. PICK j \in Int : j = k - p.cut /\ j <= k
  BY <1>1 DEF Packets
<1>8. Sent(p) = SubSeq(c, 1, j)
  BY <1>2, <1>4, <1>6, <1>7 DEF Sent
<1>9. \A i \in 1..j : c[i] \in Int
  <2>1. \A i \in 1..j : i \in 1..k
    BY <1>7
  <2> QED
    BY <1>5, <1>6, <2>1, ElementOfSeq
<1>10. SubSeq(c, 1, j) \in Seq(Int)
  BY <1>9, SubSeqProperties
<1> QED
  BY <1>8, <1>10, LenProperties

\* The inductive invariant, step by step.
LEMMA VolumesInductive ==
  Buffered /\ VolumeOfMessage /\ [VolumesNext]_volumesVars => (Buffered /\ VolumeOfMessage)'
<1> SUFFICES ASSUME Buffered, VolumeOfMessage, [VolumesNext]_volumesVars
             PROVE  (Buffered /\ VolumeOfMessage)'
  OBVIOUS
<1>1. CASE Arrive
  <2>1. stage' = "arrived"
    BY <1>1 DEF Arrive
  <2>2. VolumeOfMessage'
    BY <2>1 DEF VolumeOfMessage
  <2>3. PICK p \in Packets : /\ Len(Sent(p)) <= BUFFER_SIZE
                             /\ packet' = p /\ pkt_len' = Len(Sent(p))
                             /\ fix_data' = [i \in 1..BUFFER_SIZE |->
                                 IF i <= Len(Sent(p)) THEN Sent(p)[i] ELSE fix_data[i]]
    BY <1>1 DEF Arrive
  <2>4. PICK b \in Seq(Int), l \in Nat : b = Sent(p) /\ l = Len(b)
    BY SentBytes
  <2>5. fix_data' = [i \in 1..BUFFER_SIZE |-> IF i <= l THEN b[i] ELSE fix_data[i]]
    BY <2>3, <2>4
  <2>6. \A i \in 1..l : b[i] \in Int
    BY <2>4, ElementOfSeq
  <2>7. fix_data' \in [1..BUFFER_SIZE -> Int]
    <3>1. \A i \in 1..BUFFER_SIZE : i <= l => i \in 1..l
      BY PacketAssumption
    <3>2. \A i \in 1..BUFFER_SIZE : fix_data[i] \in Int
      BY DEF Buffered
    <3> QED
      BY <2>5, <2>6, <3>1, <3>2
  <2>8. l <= BUFFER_SIZE
    BY <2>3, <2>4
  <2>9. \A i \in 1..l : fix_data'[i] = b[i]
    <3>1. \A i \in 1..l : i \in 1..BUFFER_SIZE /\ i <= l
      BY <2>8, PacketAssumption
    <3> QED
      BY <2>5, <3>1
  <2>10. Holds(packet)'
    BY <2>3, <2>4, <2>8, <2>9 DEF Holds
  <2> QED
    BY <2>2, <2>7, <2>10 DEF Buffered
<1>2. CASE Poll
  <2>1. stage = "arrived" /\ stage' = "polled" /\ volume' = VolumeIn
    BY <1>2 DEF Poll
  <2>2. packet' = packet /\ pkt_len' = pkt_len /\ fix_data' = fix_data
    BY <1>2 DEF Poll
  <2>3. Buffered'
    BY <2>1, <2>2 DEF Buffered
  <2>4. ASSUME packet.cut = 0
        PROVE  volume' = IF Quantities = {} THEN 0
                         ELSE Number(packet.fields[Min(Quantities)].value)
    BY <2>1, <2>4, VolumeFound DEF Buffered
  <2>5. Quantities' = Quantities
    BY <2>2 DEF Quantities
  <2>6. VolumeOfMessage'
    BY <2>2, <2>4, <2>5 DEF VolumeOfMessage
  <2> QED
    BY <2>3, <2>6
<1>3. CASE Commit
  <2>1. stage' = "committed" /\ fix_data' = fix_data
    BY <1>3 DEF Commit
  <2> QED
    BY <2>1 DEF Buffered, VolumeOfMessage
<1>4. CASE UNCHANGED volumesVars
  <2>1. /\ stage' = stage /\ packet' = packet /\ pkt_len' = pkt_len
        /\ fix_data' = fix_data /\ volume' = volume
    BY <1>4 DEF volumesVars
  <2>2. Buffered'
    BY <2>1 DEF Buffered, Holds
  <2>3. Quantities' = Quantities
    BY <2>1 DEF Quantities
  <2>4. VolumeOfMessage'
    BY <2>1, <2>3 DEF VolumeOfMessage
  <2> QED
    BY <2>2, <2>4
<1> QED
  BY <1>1, <1>2, <1>3, <1>4 DEF VolumesNext

\* The volume that virtio_net_poll_rx reads from a whole message is that of the
\* first quantity in it, however long the message and whatever the buffer held.
THEOREM VolumeCorrect == VolumesSpec => []VolumeOfMessage
<1>1. VolumesInit => Buffered /\ VolumeOfMessage
  <2> SUFFICES ASSUME VolumesInit PROVE Buffered /\ VolumeOfMessage
    OBVIOUS
  <2>1. stage = "empty" /\ fix_data = [i \in 1..BUFFER_SIZE |-> 0]
    BY DEF VolumesInit
  <2> QED
    BY <2>1 DEF Buffered, VolumeOfMessage
<1> QED
  BY <1>1, VolumesInductive, PTL DEF VolumesSpec
=============================================================================
