------------------------------ MODULE RxQueue ------------------------------
(***************************************************************************)
(* The receive queues of kernel/virtio.c (keyboard) and                    *)
(* kernel/virtio_net.c (network): a driver that polls and a device that    *)
(* works at the same time.  The driver posts buffers in the available      *)
(* ring, the device fills them and returns them in the used ring; both     *)
(* rings are read modulo their size, with indices of 16 bits that are      *)
(* compared for equality.  One step is one access to shared memory.        *)
(***************************************************************************)
EXTENDS Integers, Sequences

CONSTANTS
  QUEUE_SIZE,  \* buffers of the queue (256 for the keyboard, 8 for the network)
  IndexRange,  \* values of an index (65536)
  Events,      \* what a buffer may be filled with
  NoEvent,     \* what a poll returns when nothing has arrived
  MaxEvents    \* bound: events that arrive

ASSUME SizeAssumption == QUEUE_SIZE \in Nat \ {0}
ASSUME IndexAssumption ==
  IndexRange \in Nat /\ QUEUE_SIZE < IndexRange /\ IndexRange % QUEUE_SIZE = 0
ASSUME EventAssumption == NoEvent \notin Events
ASSUME BoundAssumption == MaxEvents \in Nat

Buffers == 0..(QUEUE_SIZE - 1)
Indices == 0..(IndexRange - 1)

VARIABLES
  avail_ring, avail_idx,  \* written by the driver
  used_ring, used_idx,    \* written by the device
  buffers,                \* what the buffers hold
  pc,                     \* of the poll: "idle", "read", "recycle", "publish"
  last_used_idx, desc_idx, evt,
  polled,                 \* what the last poll returned
  dev_pc,                 \* of the device: "idle", "fill", "use", "publish"
  dev_avail, dev_desc, dev_evt,
  taken, used, returned,  \* ghosts: buffers taken and used by the device, and
                          \* returned to it by the driver, since the start
  lost                    \* ghost: events that found no buffer

driver == <<avail_ring, avail_idx, pc, last_used_idx, desc_idx, evt, polled, returned>>
device == <<used_ring, used_idx, buffers, dev_pc, dev_avail, dev_desc, dev_evt, taken, used, lost>>
vars == <<driver, device>>

NextIndex(i) == (i + 1) % IndexRange
Slot(i) == i % QUEUE_SIZE

\* Every buffer is posted before the device starts.
PostedShort == QUEUE_SIZE - 1  \* mutant: one buffer is forgotten
PostedAtStart == QUEUE_SIZE

Init ==
  /\ avail_ring = [j \in Buffers |-> j] /\ avail_idx = PostedAtStart
  /\ used_ring = [j \in Buffers |-> 0] /\ used_idx = 0
  /\ buffers = [j \in Buffers |-> NoEvent]
  /\ pc = "idle" /\ last_used_idx = 0 /\ desc_idx = 0 /\ evt = NoEvent /\ polled = NoEvent
  /\ dev_pc = "idle" /\ dev_avail = 0 /\ dev_desc = 0 /\ dev_evt = NoEvent
  /\ taken = 0 /\ used = 0 /\ returned = 0 /\ lost = 0

-----------------------------------------------------------------------------
(* The driver: virtio_input_poll, virtio_net_poll_rx *)

PollEmpty ==
  /\ pc = "idle" /\ used_idx = last_used_idx
  /\ polled' = NoEvent
  /\ UNCHANGED <<avail_ring, avail_idx, pc, last_used_idx, desc_idx, evt, returned, device>>

PollEager ==  \* mutant: the used ring is read before the index is compared
  /\ pc = "idle"
  /\ desc_idx' = used_ring[Slot(last_used_idx)]
  /\ pc' = "read"
  /\ UNCHANGED <<avail_ring, avail_idx, last_used_idx, evt, polled, returned, device>>

PollUsed ==
  /\ pc = "idle" /\ used_idx # last_used_idx
  /\ desc_idx' = used_ring[Slot(last_used_idx)]
  /\ pc' = "read"
  /\ UNCHANGED <<avail_ring, avail_idx, last_used_idx, evt, polled, returned, device>>

ReadEvent ==
  /\ pc = "read"
  /\ evt' = buffers[desc_idx]
  /\ pc' = "recycle"
  /\ UNCHANGED <<avail_ring, avail_idx, last_used_idx, desc_idx, polled, returned, device>>

RecycleNextSlot ==  \* mutant: one slot too far
  /\ pc = "recycle"
  /\ avail_ring' = [avail_ring EXCEPT ![Slot(avail_idx + 1)] = desc_idx]
  /\ pc' = "publish"
  /\ UNCHANGED <<avail_idx, last_used_idx, desc_idx, evt, polled, returned, device>>

RecycleHidden ==  \* mutant: the new index is never shown to the device
  /\ pc = "recycle"
  /\ avail_ring' = [avail_ring EXCEPT ![Slot(avail_idx)] = desc_idx]
  /\ pc' = "idle"
  /\ UNCHANGED <<avail_idx, last_used_idx, desc_idx, evt, polled, returned, device>>

Recycle ==
  /\ pc = "recycle"
  /\ avail_ring' = [avail_ring EXCEPT ![Slot(avail_idx)] = desc_idx]
  /\ pc' = "publish"
  /\ UNCHANGED <<avail_idx, last_used_idx, desc_idx, evt, polled, returned, device>>

\* The new index is what the device sees; last_used_idx is the driver's own.
Publish ==
  /\ pc = "publish"
  /\ avail_idx' = NextIndex(avail_idx)
  /\ last_used_idx' = NextIndex(last_used_idx)
  /\ returned' = returned + 1
  /\ polled' = evt
  /\ pc' = "idle"
  /\ UNCHANGED <<avail_ring, desc_idx, evt, device>>

Poll == PollEmpty \/ PollUsed \/ ReadEvent \/ Recycle \/ Publish

-----------------------------------------------------------------------------
(* The device *)

\* An event arrives and takes the next posted buffer.
Take(e) ==
  /\ dev_pc = "idle" /\ dev_avail # avail_idx /\ taken + lost < MaxEvents
  /\ dev_desc' = avail_ring[Slot(dev_avail)]
  /\ dev_avail' = NextIndex(dev_avail)
  /\ dev_evt' = e
  /\ taken' = taken + 1
  /\ dev_pc' = "fill"
  /\ UNCHANGED <<used_ring, used_idx, buffers, used, lost, driver>>

\* Without a posted buffer it is lost.
Lose ==
  /\ dev_pc = "idle" /\ dev_avail = avail_idx /\ taken + lost < MaxEvents
  /\ lost' = lost + 1
  /\ UNCHANGED <<used_ring, used_idx, buffers, dev_pc, dev_avail, dev_desc, dev_evt, taken,
                 used, driver>>

Fill ==
  /\ dev_pc = "fill"
  /\ buffers' = [buffers EXCEPT ![dev_desc] = dev_evt]
  /\ dev_pc' = "use"
  /\ UNCHANGED <<used_ring, used_idx, dev_avail, dev_desc, dev_evt, taken, used, lost, driver>>

Use ==
  /\ dev_pc = "use"
  /\ used_ring' = [used_ring EXCEPT ![Slot(used_idx)] = dev_desc]
  /\ dev_pc' = "publish"
  /\ UNCHANGED <<used_idx, buffers, dev_avail, dev_desc, dev_evt, taken, used, lost, driver>>

Deliver ==
  /\ dev_pc = "publish"
  /\ used_idx' = NextIndex(used_idx)
  /\ used' = used + 1
  /\ dev_pc' = "idle"
  /\ UNCHANGED <<used_ring, buffers, dev_avail, dev_desc, dev_evt, taken, lost, driver>>

Device == (\E e \in Events : Take(e) \/ Lose) \/ Fill \/ Use \/ Deliver

Next == Poll \/ Device

Spec == Init /\ [][Next]_vars

\* The shell drains its devices again and again, and the device goes on once
\* it has taken a buffer.
FairSpec == Spec /\ WF_vars(Poll) /\ WF_vars(Fill \/ Use \/ Deliver)

-----------------------------------------------------------------------------
(* Properties *)

\* Buffers that wait in a ring: posted for the device, or filled for the driver.
Posted == {avail_ring[c % QUEUE_SIZE] : c \in taken..(QUEUE_SIZE + returned - 1)}
Filled == {used_ring[c % QUEUE_SIZE] : c \in returned..(used - 1)}

TypeOK ==
  /\ avail_ring \in [Buffers -> Buffers] /\ avail_idx \in Indices
  /\ used_ring \in [Buffers -> Buffers] /\ used_idx \in Indices
  /\ buffers \in [Buffers -> Events \cup {NoEvent}]
  /\ pc \in {"idle", "read", "recycle", "publish"}
  /\ last_used_idx \in Indices /\ desc_idx \in Buffers
  /\ evt \in Events \cup {NoEvent} /\ polled \in Events \cup {NoEvent}
  /\ dev_pc \in {"idle", "fill", "use", "publish"}
  /\ dev_avail \in Indices /\ dev_desc \in Buffers /\ dev_evt \in Events \cup {NoEvent}
  /\ taken \in Nat /\ used \in Nat /\ returned \in Nat /\ lost \in Nat

\* The device never writes into a buffer that is filled and not yet read, nor
\* into the one the driver is reading, and no buffer is posted twice.
OneOwner ==
  /\ Posted \cap Filled = {}
  /\ dev_pc # "idle" => dev_desc \notin Posted \cup Filled
  /\ pc # "idle" => desc_idx \notin Posted /\ (dev_pc # "idle" => desc_idx # dev_desc)

\* No buffer gets lost between driver and device: an event finds none only when
\* every one of them waits for the driver.
LostOnlyWhenFull == [][lost' # lost => used - returned = QUEUE_SIZE]_vars

\* The events that have arrived and that no poll has returned, oldest first.
arrived == [i \in 1..(used - returned) |-> buffers[used_ring[(returned + i - 1) % QUEUE_SIZE]]]

\* A queue of as many events as there are buffers: polls return the events in
\* the order they arrived, each once, and one is lost only when all buffers hold
\* events that no poll has returned.
Queue == INSTANCE BoundedMailbox WITH
  Capacity <- QUEUE_SIZE, Messages <- Events, NoMessage <- NoEvent,
  mailbox <- arrived, buffer <- polled, drops <- lost
QueueSpec == Queue!MailSpec

\* Every event that was not lost is polled.
EventsPolled == \A n \in 1..MaxEvents : (taken = n) ~> (returned >= n)

-----------------------------------------------------------------------------
(* The inductive invariant behind these properties, proved in                *)
(* RxQueue_proofs: the indices count rounds of the same order of buffers.    *)

IndexInv ==
  /\ avail_idx = (QUEUE_SIZE + returned) % IndexRange
  /\ last_used_idx = returned % IndexRange
  /\ used_idx = used % IndexRange
  /\ dev_avail = taken % IndexRange
  /\ returned <= used /\ taken <= QUEUE_SIZE + returned
  /\ taken = IF dev_pc = "idle" THEN used ELSE used + 1

\* A buffer stays in its slot of both rings.
SlotInv ==
  /\ \A j \in Buffers : avail_ring[j] = j
  /\ \A c \in returned..(used - 1) : used_ring[c % QUEUE_SIZE] = c % QUEUE_SIZE
  /\ dev_pc # "idle" => dev_desc = used % QUEUE_SIZE
  /\ dev_pc = "publish" => used_ring[used % QUEUE_SIZE] = used % QUEUE_SIZE
  /\ pc # "idle" => returned < used /\ desc_idx = returned % QUEUE_SIZE

EventInv ==
  /\ dev_pc # "idle" => dev_evt \in Events
  /\ dev_pc \in {"use", "publish"} => buffers[used % QUEUE_SIZE] = dev_evt
  /\ \A c \in returned..(used - 1) : buffers[c % QUEUE_SIZE] \in Events
  /\ pc \in {"recycle", "publish"} => evt = buffers[returned % QUEUE_SIZE]

RxInv == TypeOK /\ IndexInv /\ SlotInv /\ EventInv
=============================================================================
