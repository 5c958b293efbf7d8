---------------------------- MODULE CommandQueue ----------------------------
(***************************************************************************)
(* The command queues of kernel/virtio.c: send_gpu_command,                *)
(* virtio_blk_read_sector and virtio_blk_write_sector on the driver's      *)
(* side, and a device for each queue that works at the same time.  A       *)
(* request is a chain of descriptors in the queue's table; the ids of its  *)
(* descriptors are drawn from one counter of 16 bits that both queues      *)
(* share, taken modulo the size of a table.  One step is one store to or   *)
(* load from memory that the device reads or writes.                       *)
(*                                                                         *)
(* Headers, responses and status bytes are fresh memory of the DMA heap    *)
(* for every request, so a descriptor says of which request it is.         *)
(***************************************************************************)
EXTENDS Integers, Sequences

CONSTANTS
  VIRTQ_SIZE,   \* descriptors of a queue (256 in the code)
  IndexRange,   \* values of a counter (65536)
  Sectors, Contents, Buffers,
  MaxRequests   \* bound: requests made

Queues == {"gpu", "blk"}
Parts(q) == IF q = "blk" THEN <<"header", "data", "status">> ELSE <<"request", "response">>

ASSUME SizeAssumption == VIRTQ_SIZE \in Nat /\ VIRTQ_SIZE >= 3
ASSUME RangeAssumption == IndexRange \in Nat \ {0} /\ IndexRange % VIRTQ_SIZE = 0
ASSUME RequestsAssumption == MaxRequests \in Nat

Ids == 0..(VIRTQ_SIZE - 1)
Indices == 0..(IndexRange - 1)

VARIABLES
  present,                      \* the devices found at start-up
  global_desc_idx,
  desc, ring, avail_idx,        \* of each queue, written by the driver
  used_idx,                     \* of each queue, written by its device
  last_used_idx,
  notified,                     \* the device was told to look at the queue
  pc,                           \* "idle", "describe", "ring", "show", "notify", "wait"
  chain, described,             \* ids of the request, and how many are written
  requests,                     \* ghost: requests made
  seen, dev_pc, dev_at, walk,   \* of each device
  disk, buffer, call, status, result

table == <<global_desc_idx, desc, ring>>
driver == <<pc, chain, described, requests, call, last_used_idx, avail_idx>>
device == <<seen, dev_pc, dev_at, walk, used_idx>>
memory == <<disk, buffer, status>>
vars == <<present, table, driver, device, memory, notified, result>>

\* status is "none" until the device writes it: 0xFF, or the zero that a
\* response is cleared to.
Atomic == INSTANCE AtomicDevices WITH outcome <- status

Blank == [part |-> "none", of |-> 0, more |-> FALSE, next |-> 0]
OfQueues(v) == [q \in Queues |-> v]

Init ==
  /\ present \in SUBSET Queues
  /\ global_desc_idx = 0
  /\ desc = OfQueues([d \in Ids |-> Blank]) /\ ring = OfQueues([d \in Ids |-> 0])
  /\ avail_idx = OfQueues(0) /\ used_idx = OfQueues(0) /\ last_used_idx = OfQueues(0)
  /\ notified = OfQueues(FALSE)
  /\ pc = "idle" /\ chain = <<>> /\ described = 0 /\ requests = 0
  /\ seen = OfQueues(0) /\ dev_pc = OfQueues("idle") /\ dev_at = OfQueues(0)
  /\ walk = OfQueues(<<>>)
  /\ Atomic!AtomicInit

NextIndex(i) == (i + 1) % IndexRange
Slot(i) == i % VIRTQ_SIZE
queue == call.dev

-----------------------------------------------------------------------------
(* The driver *)

\* global_desc_idx++ % VIRTQ_SIZE, as often as the chain has descriptors
ChainOfOne(q) == [k \in DOMAIN Parts(q) |-> Slot(global_desc_idx)]  \* mutant: ++ is lost
ChainOf(q) == [k \in DOMAIN Parts(q) |-> Slot((global_desc_idx + k - 1) % IndexRange)]

Begin(r) ==
  /\ pc = "idle" /\ requests < MaxRequests
  /\ requests' = requests + 1
  /\ Atomic!Filled(r)
  /\ IF r.dev \in present
     THEN /\ call' = r /\ status' = "none"
          /\ chain' = ChainOf(r.dev) /\ described' = 0 /\ pc' = "describe"
          /\ global_desc_idx' = (global_desc_idx + Len(Parts(r.dev))) % IndexRange
          /\ UNCHANGED result
     ELSE /\ result' = IF r.dev = "blk" THEN -1 ELSE 0
          /\ UNCHANGED <<call, status, chain, described, pc, global_desc_idx>>
  /\ UNCHANGED <<present, desc, ring, avail_idx, last_used_idx, device, disk, notified>>

Descriptor(k) ==
  [part |-> Parts(queue)[k], of |-> requests, more |-> k < Len(chain),
   next |-> IF k < Len(chain) THEN chain[k + 1] ELSE 0]

\* The four fields of one descriptor: the device reads none of them before
\* the chain is shown.
Describe ==
  /\ pc = "describe"
  /\ desc' = [desc EXCEPT ![queue][chain[described + 1]] = Descriptor(described + 1)]
  /\ described' = described + 1
  /\ pc' = IF described + 1 < Len(chain) THEN "describe" ELSE "ring"
  /\ UNCHANGED <<present, global_desc_idx, ring, chain, requests, call, last_used_idx,
                 avail_idx, device, memory, notified, result>>

PutRing ==
  /\ pc = "ring"
  /\ ring' = [ring EXCEPT ![queue][Slot(avail_idx[queue])] = chain[1]]
  /\ pc' = "show"
  /\ UNCHANGED <<present, global_desc_idx, desc, chain, described, requests, call,
                 last_used_idx, avail_idx, device, memory, notified, result>>

Show ==
  /\ pc = "show"
  /\ avail_idx' = [avail_idx EXCEPT ![queue] = NextIndex(@)]
  /\ pc' = "notify"
  /\ UNCHANGED <<present, table, chain, described, requests, call, last_used_idx,
                 device, memory, notified, result>>

\* mutant: the device is never told
NotifyNobody ==
  /\ pc = "notify" /\ pc' = "wait"
  /\ UNCHANGED <<present, table, chain, described, requests, call, last_used_idx,
                 avail_idx, device, memory, notified, result>>

\* The write to the notify register
Notify ==
  /\ pc = "notify"
  /\ notified' = [notified EXCEPT ![queue] = TRUE]
  /\ pc' = "wait"
  /\ UNCHANGED <<present, table, chain, described, requests, call, last_used_idx,
                 avail_idx, device, memory, result>>

\* The wait has no limit; the answer is taken from the status byte.
AnsweredEarly == avail_idx[queue] # last_used_idx[queue]  \* mutant: the wrong ring
Answered == used_idx[queue] # last_used_idx[queue]
Return ==
  /\ pc = "wait" /\ Answered
  /\ last_used_idx' = [last_used_idx EXCEPT ![queue] = NextIndex(@)]
  /\ result' = IF queue = "blk" /\ status # "ok" THEN -1 ELSE 0
  /\ call' = Atomic!NoCall /\ status' = "none" /\ pc' = "idle"
  /\ UNCHANGED <<present, table, chain, described, requests, avail_idx, device, disk,
                 buffer, notified>>

Driver == Describe \/ PutRing \/ Show \/ Notify \/ Return

-----------------------------------------------------------------------------
(* A device *)

\* It may look at the ring at any time, and does when it has been told to.
Take(q) ==
  /\ dev_pc[q] = "idle" /\ seen[q] # avail_idx[q]
  /\ dev_at' = [dev_at EXCEPT ![q] = ring[q][Slot(seen[q])]]
  /\ seen' = [seen EXCEPT ![q] = NextIndex(@)]
  /\ dev_pc' = [dev_pc EXCEPT ![q] = "walk"]
  /\ walk' = [walk EXCEPT ![q] = <<>>]
  /\ notified' = [notified EXCEPT ![q] = FALSE]
  /\ UNCHANGED <<present, table, driver, used_idx, memory, result>>

\* One descriptor of the chain
Walk(q) ==
  LET d == desc[q][dev_at[q]] IN
  /\ dev_pc[q] = "walk"
  /\ walk' = [walk EXCEPT ![q] = Append(@, <<d.part, d.of>>)]
  /\ dev_at' = [dev_at EXCEPT ![q] = d.next]
  /\ dev_pc' = [dev_pc EXCEPT ![q] = IF d.more THEN "walk" ELSE "perform"]
  /\ UNCHANGED <<present, table, driver, seen, used_idx, memory, notified, result>>

\* The memory a request consists of
Request(q) == [k \in DOMAIN Parts(q) |-> <<Parts(q)[k], requests>>]

\* A device that is handed anything but a whole request is not answerable
\* for what it does; this one stops.
Perform(q) ==
  /\ dev_pc[q] = "perform" /\ walk[q] = Request(q) /\ call # Atomic!NoCall
  /\ status' \in {"ok", "error"}
  /\ Atomic!Effect(call, status')
  /\ dev_pc' = [dev_pc EXCEPT ![q] = "publish"]
  /\ UNCHANGED <<present, table, driver, seen, dev_at, walk, used_idx, notified, result>>

Publish(q) ==
  /\ dev_pc[q] = "publish"
  /\ used_idx' = [used_idx EXCEPT ![q] = NextIndex(@)]
  /\ dev_pc' = [dev_pc EXCEPT ![q] = "idle"]
  /\ UNCHANGED <<present, table, driver, seen, dev_at, walk, memory, notified, result>>

Device(q) == Take(q) \/ Walk(q) \/ Perform(q) \/ Publish(q)
Diligent(q) == (notified[q] /\ Take(q)) \/ Walk(q) \/ Perform(q) \/ Publish(q)

Next == (\E r \in Atomic!Calls : Begin(r)) \/ Driver \/ \E q \in Queues : Device(q)
Spec == Init /\ [][Next]_vars

\* The driver spins; a device that has been told to look does its work.  A
\* device may look earlier, but nothing makes it.
FairSpec == Spec /\ WF_vars(Driver) /\ \A q \in Queues : WF_vars(Diligent(q))

-----------------------------------------------------------------------------
(* Properties *)

PartNames == {"header", "data", "status", "request", "response"}
Descriptors ==
  [part : PartNames \cup {"none"}, of : Nat, more : BOOLEAN, next : Ids]

\* Types: ids stay in the tables and counters in their width.
TypeOK ==
  /\ present \in SUBSET Queues
  /\ global_desc_idx \in Indices
  /\ desc \in [Queues -> [Ids -> Descriptors]] /\ ring \in [Queues -> [Ids -> Ids]]
  /\ avail_idx \in [Queues -> Indices] /\ used_idx \in [Queues -> Indices]
  /\ last_used_idx \in [Queues -> Indices] /\ seen \in [Queues -> Indices]
  /\ notified \in [Queues -> BOOLEAN]
  /\ pc \in {"idle", "describe", "ring", "show", "notify", "wait"}
  /\ call \in Atomic!Calls \cup {Atomic!NoCall}
  /\ requests \in Nat /\ described \in Nat
  /\ dev_pc \in [Queues -> {"idle", "walk", "perform", "publish"}]
  /\ dev_at \in [Queues -> Ids]
  /\ walk \in [Queues -> Seq((PartNames \cup {"none"}) \X Nat)]
  /\ status \in {"none", "ok", "error"} /\ result \in {-1, 0}

\* What a device walks through is the beginning of the one request in
\* progress, part by part, never a descriptor that an earlier request left in
\* the table, one that is not written yet, or one of the other queue's turn of
\* the counter; it performs it only when whole (lines 88-99 and 350-371).
ChainsWhole ==
  \A q \in Queues : dev_pc[q] # "idle" =>
    /\ call # Atomic!NoCall /\ queue = q
    /\ Len(walk[q]) <= Len(Parts(q))
    /\ \A k \in 1..Len(walk[q]) : walk[q][k] = <<Parts(q)[k], requests>>
    /\ dev_pc[q] \in {"perform", "publish"} <=> Len(walk[q]) = Len(Parts(q))

\* Driver, rings and devices together carry out every request once, between
\* its call and its return, and the caller is told how it went.
AtomicSpec == Atomic!AtomicSpec

\* A request returns, if the device answers: the driver waits without a limit
\* (lines 113 and 393), so that no wake-up may be missed.
RequestReturns == (call # Atomic!NoCall) ~> (call = Atomic!NoCall)

-----------------------------------------------------------------------------
(* The inductive invariant behind ChainsWhole and AtomicSpec, proved in      *)
(* CommandQueue_proofs.                                                      *)

\* What the driver has written of the request: its descriptors lie apart.
ChainInv ==
  /\ call = Atomic!NoCall <=> pc = "idle"
  /\ pc # "idle" =>
       /\ chain \in [1..Len(Parts(queue)) -> Ids]
       /\ \A i, j \in 1..Len(Parts(queue)) : chain[i] = chain[j] => i = j
       /\ described \in 0..Len(Parts(queue))
       /\ pc = "describe" <=> described < Len(Parts(queue))
       /\ \A k \in 1..described : desc[queue][chain[k]] = Descriptor(k)

\* The device of the request is at one of five places; any other one has
\* nothing to do.
Counted(q) == seen[q] = avail_idx[q] /\ used_idx[q] = last_used_idx[q]
Quiet(q) == dev_pc[q] = "idle" /\ Counted(q)
HeadInRing(q) == ring[q][Slot(seen[q])] = chain[1]
Shown(q) ==
  /\ dev_pc[q] = "idle" /\ status = "none" /\ HeadInRing(q)
  /\ avail_idx[q] = NextIndex(seen[q]) /\ used_idx[q] = last_used_idx[q]
Walking(q) ==
  /\ dev_pc[q] = "walk" /\ status = "none" /\ Counted(q)
  /\ Len(walk[q]) < Len(Parts(q)) /\ dev_at[q] = chain[Len(walk[q]) + 1]
Walked(q) == dev_pc[q] = "perform" /\ status = "none" /\ Counted(q)
Performed(q) == dev_pc[q] = "publish" /\ status # "none" /\ Counted(q)
Published(q) ==
  /\ dev_pc[q] = "idle" /\ status # "none"
  /\ seen[q] = avail_idx[q] /\ used_idx[q] = NextIndex(last_used_idx[q])

RoundInv ==
  /\ \A q \in Queues : pc \notin {"notify", "wait"} \/ queue # q => Quiet(q)
  /\ pc \notin {"notify", "wait"} => status = "none"
  /\ pc = "show" => HeadInRing(queue)
  /\ pc \in {"notify", "wait"} =>
       \/ Shown(queue) \/ Walking(queue) \/ Walked(queue) \/ Performed(queue)
       \/ Published(queue)

CommandInv == TypeOK /\ ChainInv /\ RoundInv /\ ChainsWhole
=============================================================================
