------------------------------ MODULE Watcher ------------------------------
(***************************************************************************)
(* kernel/watcher.c: the sovereign memory.  A ring of the most recent      *)
(* events, and the bridge that copies the receipts (LEDGER_COMMIT events)  *)
(* logged since the last synchronisation into LEDGER.LOG.                  *)
(*                                                                         *)
(* The kernel runs with interrupts masked, so a call of the watcher is     *)
(* only interleaved with a loss of power.  watcher_sync_to_disk is broken  *)
(* into its disk accesses for that reason; the other calls are one step.   *)
(*                                                                         *)
(* An event is its timestamp and its type.  The system timer is strictly   *)
(* increasing and never 0 when the kernel logs, so the timestamp of the    *)
(* n-th event since the start is modelled as n, which also stands for the  *)
(* context string and the process id.                                      *)
(*                                                                         *)
(* LEDGER.LOG is modelled as the sequence of the appends that reached the  *)
(* disk.  What the file holds after them, and what becomes of them when it *)
(* outgrows its first sector, is the business of module Fat32.             *)
(***************************************************************************)
EXTENDS Integers, Sequences

CONSTANTS
  WATCHER_HISTORY_MAX,  \* slots of the ring (64 in the code)
  AccessTypes,          \* the event types the kernel logs beside receipts
  MaxEvents,            \* bound: events logged between two starts
  MaxBoots              \* bound: restarts

ASSUME HistoryAssumption == WATCHER_HISTORY_MAX \in Nat \ {0}
ASSUME AccessAssumption ==
  AccessTypes \subseteq {"KEYSTROKE", "FS_READ", "FS_WRITE", "PROC_SPAWN"}
ASSUME BoundAssumption == MaxEvents \in Nat /\ MaxBoots \in Nat

VARIABLES
  events,       \* watcher.events
  head,         \* watcher.head: the slot the next event goes to
  tail,         \* watcher.tail: the oldest event in memory
  count,        \* watcher.count: events stored
  sync_cursor,  \* the high-water mark of the synchronisation
  pc,           \* where watcher_sync_to_disk stands
  current,      \* its loop variable
  said,         \* the last line of watcher_sync_to_disk on the console
  ledger,       \* appends to LEDGER.LOG that reached the disk: records, line ends
  history,      \* ghost: the type of every event logged since the start
  passed,       \* ghost: how many of them the cursor (or the loop) is past
  skipped,      \* ghost: receipts the cursor passed without a sync
  dropped,      \* ghost: receipts whose append did not reach the disk
  boots         \* ghost: restarts

ring == <<events, head, tail, count>>
ghosts == <<history, passed, skipped, dropped, boots>>
vars == <<events, head, tail, count, sync_cursor, pc, current, said, ledger,
          history, passed, skipped, dropped, boots>>

Slots == 0..(WATCHER_HISTORY_MAX - 1)
LEDGER_COMMIT == "LEDGER_COMMIT"
LoggedTypes == AccessTypes \cup {LEDGER_COMMIT}
Event == [timestamp : Nat, type : LoggedTypes \cup {"NONE"}]
NoEvent == [timestamp |-> 0, type |-> "NONE"]

NextSlot(i) == (i + 1) % WATCHER_HISTORY_MAX

get_system_timer == Len(history) + 1

Receipt(t) == [boot |-> boots, stamp |-> t]
LineEnd == [boot |-> 0, stamp |-> 0]

-----------------------------------------------------------------------------
\* watcher_init: every slot empty, nothing to synchronise.
Init ==
  /\ events = [i \in Slots |-> NoEvent]
  /\ head = 0 /\ tail = 0 /\ count = 0 /\ sync_cursor = 0
  /\ pc = "idle" /\ current = 0 /\ said = "nothing"
  /\ ledger = <<>>
  /\ history = <<>> /\ passed = 0 /\ skipped = {} /\ dropped = {} /\ boots = 0

RingFullEarly == ~(count < WATCHER_HISTORY_MAX - 1)  \* mutant: off by one
RingFull == ~(count < WATCHER_HISTORY_MAX)

\* A full ring overwrites its oldest event and pushes a cursor standing on it.
CursorNotPushed == FALSE  \* mutant: without the fix of lines 64-68
CursorPushed == RingFull /\ sync_cursor = tail

\* watcher_log_event.
LogEvent(type) ==
  /\ pc = "idle"
  /\ Len(history) < MaxEvents
  /\ events' = [events EXCEPT
       ![head] = [timestamp |-> get_system_timer, type |-> type]]
  /\ head' = NextSlot(head)
  /\ count' = IF RingFull THEN count ELSE count + 1
  /\ tail' = IF RingFull THEN NextSlot(tail) ELSE tail
  /\ sync_cursor' = IF CursorPushed THEN tail' ELSE sync_cursor
  /\ history' = Append(history, type)
  /\ passed' = IF CursorPushed THEN passed + 1 ELSE passed
  /\ skipped' = IF CursorPushed /\ history'[passed + 1] = LEDGER_COMMIT
                THEN skipped \cup {passed + 1} ELSE skipped
  /\ said' = "nothing"
  /\ UNCHANGED <<pc, current, ledger, dropped, boots>>

LogAccess == \E type \in AccessTypes : LogEvent(type)

\* watcher_commit_ledger: formats the receipt and logs it.
CommitLedger == LogEvent(LEDGER_COMMIT)

-----------------------------------------------------------------------------
(* watcher_sync_to_disk *)

SyncUpToDate ==
  /\ pc = "idle"
  /\ sync_cursor = head
  /\ said' = "uptodate"
  /\ UNCHANGED <<ring, sync_cursor, pc, current, ledger, ghosts>>

\* mutant: starts one slot late
SyncStartLate ==
  /\ pc = "idle" /\ sync_cursor # head
  /\ current' = NextSlot(sync_cursor) /\ pc' = "scan" /\ said' = "nothing"
  /\ UNCHANGED <<ring, sync_cursor, ledger, ghosts>>

\* mutant: starts at the oldest event, as before the high-water mark
SyncStartOldest ==
  /\ pc = "idle" /\ sync_cursor # head
  /\ current' = tail /\ pc' = "scan" /\ said' = "nothing"
  /\ UNCHANGED <<ring, sync_cursor, ledger, ghosts>>

SyncStart ==
  /\ pc = "idle"
  /\ sync_cursor # head
  /\ current' = sync_cursor
  /\ pc' = "scan"
  /\ said' = "nothing"
  /\ UNCHANGED <<ring, sync_cursor, ledger, ghosts>>

\* The pre-flight guard and the type test of one iteration.
IsReceipt(e) == e.timestamp # 0 /\ e.type = LEDGER_COMMIT

\* mutant: the advance is inside the test
SyncSkipStays ==
  /\ pc = "scan" /\ current # head /\ ~IsReceipt(events[current])
  /\ UNCHANGED vars

SyncSkip ==
  /\ pc = "scan"
  /\ current # head
  /\ ~IsReceipt(events[current])
  /\ current' = NextSlot(current)
  /\ passed' = passed + 1
  /\ UNCHANGED <<ring, sync_cursor, pc, said, ledger, history, skipped, dropped, boots>>

\* The first fs_append_file_content of an iteration.  It returns nothing: the
\* text reaches the disk, or (an I/O error, no free cluster) it does not.
SyncText ==
  /\ pc = "scan"
  /\ current # head
  /\ IsReceipt(events[current])
  /\ pc' = "lineend"
  /\ \/ /\ ledger' = Append(ledger, Receipt(events[current].timestamp))
        /\ UNCHANGED dropped
     \/ /\ dropped' = dropped \cup {events[current].timestamp}
        /\ UNCHANGED ledger
  /\ UNCHANGED <<ring, sync_cursor, current, said, history, passed, skipped, boots>>

\* The second one, and the end of the iteration.
SyncLineEnd ==
  /\ pc = "lineend"
  /\ ledger' \in {ledger, Append(ledger, LineEnd)}
  /\ current' = NextSlot(current)
  /\ passed' = passed + 1
  /\ pc' = "scan"
  /\ UNCHANGED <<ring, sync_cursor, said, history, skipped, dropped, boots>>

SyncDone ==
  /\ pc = "scan"
  /\ current = head
  /\ sync_cursor' = head
  /\ pc' = "idle"
  /\ said' = "complete"
  /\ UNCHANGED <<ring, current, ledger, ghosts>>

-----------------------------------------------------------------------------
\* watcher_dump_history: what it prints, from the oldest event on.
DumpFromHead == [i \in 1..count |-> events[(head + i - 1) % WATCHER_HISTORY_MAX]]  \* mutant
Dump == [i \in 1..count |-> events[(tail + i - 1) % WATCHER_HISTORY_MAX]]

-----------------------------------------------------------------------------
\* Power is lost and the kernel starts again: RAM is gone, the disk is not.
Restart ==
  /\ boots < MaxBoots
  /\ boots' = boots + 1
  /\ events' = [i \in Slots |-> NoEvent]
  /\ head' = 0 /\ tail' = 0 /\ count' = 0 /\ sync_cursor' = 0
  /\ pc' = "idle" /\ current' = 0 /\ said' = "nothing"
  /\ history' = <<>> /\ passed' = 0 /\ skipped' = {} /\ dropped' = {}
  /\ UNCHANGED ledger

SyncStep == SyncSkip \/ SyncText \/ SyncLineEnd \/ SyncDone

Next ==
  \/ LogAccess
  \/ CommitLedger
  \/ SyncUpToDate
  \/ SyncStart
  \/ SyncStep
  \/ Restart

Spec == Init /\ [][Next]_vars

\* The loop of watcher_sync_to_disk is straight-line code that nothing preempts.
FairSpec == Spec /\ WF_vars(SyncStep)

-----------------------------------------------------------------------------
(* Properties *)

Receipts == {t \in 1..Len(history) : history[t] = LEDGER_COMMIT}
Persisted == {ledger[i].stamp : i \in {j \in 1..Len(ledger) : ledger[j].boot = boots}} \ {0}
OnDisk == {i \in 1..Len(ledger) : ledger[i] # LineEnd}

TypeOK ==
  /\ events \in [Slots -> Event]
  /\ head \in Slots /\ tail \in Slots /\ sync_cursor \in Slots /\ current \in Slots
  /\ count \in 0..WATCHER_HISTORY_MAX
  /\ pc \in {"idle", "scan", "lineend"}
  /\ said \in {"nothing", "uptodate", "complete"}
  /\ ledger \in Seq([boot : Nat, stamp : Nat])
  /\ history \in Seq(LoggedTypes)
  /\ passed \in Nat /\ boots \in Nat
  /\ skipped \subseteq Nat /\ dropped \subseteq Nat

\* watcher_dump_history shows exactly the most recent events, oldest first, as
\* many as the ring can hold: a wrap of the ring neither repeats nor loses one.
DumpShowsLatest ==
  /\ count = IF Len(history) < WATCHER_HISTORY_MAX
             THEN Len(history) ELSE WATCHER_HISTORY_MAX
  /\ \A i \in 1..count :
       LET t == Len(history) - count + i
       IN  Dump[i] = [timestamp |-> t, type |-> history[t]]

\* The slot the synchronisation reads holds the oldest event it has not
\* passed: never an empty slot, an overwritten one or one already written out.
SyncReadsOldestPending ==
  (pc # "idle" /\ current # head) =>
    /\ passed < Len(history)
    /\ events[current] = [timestamp |-> passed + 1, type |-> history[passed + 1]]

\* Across every restart and every synchronisation, interrupted ones included,
\* the records appended to LEDGER.LOG are receipts, none twice, in the order
\* of their logging (the idempotency the high-water mark is there for).
LedgerInOrder ==
  /\ \A i \in OnDisk :
       ledger[i].boot = boots => ledger[i].stamp \in Receipts
  /\ \A i, j \in OnDisk : i < j =>
       \/ ledger[i].boot < ledger[j].boot
       \/ ledger[i].boot = ledger[j].boot /\ ledger[i].stamp < ledger[j].stamp

\* A receipt the synchronisation is past was appended, unless its append failed
\* or watcher_log_event moved the cursor over it.
ReceiptsAccounted ==
  \A t \in Receipts : t <= passed => t \in Persisted \cup dropped \cup skipped

\* Until the ring has been filled once, the cursor is moved by nothing but a
\* synchronisation: no receipt is passed over.
NothingSkippedBeforeFull == Len(history) <= WATCHER_HISTORY_MAX => skipped = {}

\* The loop of watcher_sync_to_disk ends: current meets head.
SyncEnds == (pc = "scan") ~> (pc = "idle")

\* The ring and its cursor keep the promise of the ledger vault.
Vault == INSTANCE LedgerVault WITH logged <- history
VaultSpec == Vault!VaultSpec

-----------------------------------------------------------------------------
(* The inductive invariant behind the properties, proved in Watcher_proofs.  *)
(* Back(k) is the slot k events behind the head.                             *)

Back(k) == IF head >= k THEN head - k ELSE head - k + WATCHER_HISTORY_MAX

RingInv ==
  /\ count = IF Len(history) < WATCHER_HISTORY_MAX
             THEN Len(history) ELSE WATCHER_HISTORY_MAX
  /\ tail = Back(count)
  /\ \A k \in 1..count :
       LET t == Len(history) + 1 - k
       IN  events[Back(k)] = [timestamp |-> t, type |-> history[t]]

Pending == Len(history) - passed

CursorInv ==
  /\ Pending \in 0..WATCHER_HISTORY_MAX
  /\ (IF pc = "idle" THEN sync_cursor ELSE current) = Back(Pending)
  /\ pc # "idle" => Pending < WATCHER_HISTORY_MAX
  /\ pc = "lineend" => Pending > 0 /\ history[passed + 1] = LEDGER_COMMIT

\* The receipts up to this one have been handed to the file system.
Written == IF pc = "lineend" THEN passed + 1 ELSE passed

LedgerInv ==
  /\ \A i \in OnDisk :
       /\ ledger[i].boot <= boots
       /\ ledger[i].boot = boots =>
            ledger[i].stamp \in Receipts /\ ledger[i].stamp <= Written
  /\ \A i, j \in OnDisk : i < j =>
       \/ ledger[i].boot < ledger[j].boot
       \/ ledger[i].boot = ledger[j].boot /\ ledger[i].stamp < ledger[j].stamp

AccountInv ==
  /\ \A t \in Receipts : t <= Written => t \in Persisted \cup dropped \cup skipped
  /\ Len(history) <= WATCHER_HISTORY_MAX => skipped = {}

WatcherInv == TypeOK /\ RingInv /\ CursorInv /\ LedgerInv /\ AccountInv
=============================================================================
