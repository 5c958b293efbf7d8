------------------------ MODULE CommandQueue_proofs ------------------------
(***************************************************************************)
(* The command queues of screen and disk: whatever the size of the tables  *)
(* and the width of the counters, a device is handed whole requests, and   *)
(* driver and device together carry out each request once.                 *)
(***************************************************************************)
EXTENDS CommandQueue, SequenceTheorems, TLAPS

USE SizeAssumption, RangeAssumption, RequestsAssumption

-----------------------------------------------------------------------------
(* Numbers *)

\* Division with a remainder.
LEMMA Quotient ==
  ASSUME NEW a \in Nat, NEW n \in Nat \ {0}
  PROVE  \E q \in Nat, r \in 0..(n - 1) : q * n \in Nat /\ a = q * n + r /\ a % n = r
<1>1. a \div n \in Nat /\ a % n \in 0..(n - 1)
  BY SMTT(30)
<1>2. a = n * (a \div n) + (a % n)
  BY SMTT(30)
<1>3. PICK q \in Nat, r \in 0..(n - 1) : q = a \div n /\ r = a % n
  BY <1>1
<1>4. q * n \in Nat /\ n * q = q * n
  BY SMTT(30)
<1>5. QED
  BY <1>1, <1>2, <1>3, <1>4

\* The remainder is the only number below n that differs by a multiple of n.
LEMMA Remainder ==
  ASSUME NEW q \in Nat, NEW n \in Nat \ {0}, NEW r \in 0..(n - 1)
  PROVE  (q * n + r) % n = r
  BY SMTT(30)

\* Less than n apart, two numbers have different remainders.
LEMMA ModDistinct ==
  ASSUME NEW a \in Nat, NEW b \in Nat, NEW n \in Nat \ {0},
         a <= b, b < a + n, a % n = b % n
  PROVE  a = b
<1>1. PICK p \in Nat, r \in 0..(n - 1) : p * n \in Nat /\ a = p * n + r /\ a % n = r
  BY Quotient
<1>2. PICK q \in Nat, s \in 0..(n - 1) : q * n \in Nat /\ b = q * n + s /\ b % n = s
  BY Quotient
<1>3. r = s
  BY <1>1, <1>2
<1>4. p <= q
  <2>1. SUFFICES ASSUME q < p PROVE FALSE
    OBVIOUS
  <2>2. q * n + n <= p * n
    BY <2>1, SMTT(30)
  <2>3. QED
    BY <1>1, <1>2, <1>3, <2>2
<1>5. q <= p
  <2>1. SUFFICES ASSUME p < q PROVE FALSE
    OBVIOUS
  <2>2. p * n + n <= q * n
    BY <2>1, SMTT(30)
  <2>3. QED
    BY <1>1, <1>2, <1>3, <2>2
<1>6. QED
  BY <1>1, <1>2, <1>3, <1>4, <1>5

LEMMA ModRange ==
  ASSUME NEW a \in Nat, NEW n \in Nat \ {0}
  PROVE  a % n \in 0..(n - 1)
  BY Quotient

LEMMA ModSmall ==
  ASSUME NEW n \in Nat \ {0}, NEW r \in 0..(n - 1)
  PROVE  r % n = r
  BY SMTT(30)

\* An index counts modulo IndexRange, a slot modulo VIRTQ_SIZE.
LEMMA SlotOfIndex ==
  ASSUME NEW a \in Nat
  PROVE  Slot(a % IndexRange) = a % VIRTQ_SIZE
<1>1. IndexRange \in Nat \ {0} /\ VIRTQ_SIZE \in Nat \ {0} /\ IndexRange % VIRTQ_SIZE = 0
  OBVIOUS
<1>2. PICK q \in Nat, r \in 0..(IndexRange - 1) :
        q * IndexRange \in Nat /\ a = q * IndexRange + r /\ a % IndexRange = r
  BY <1>1, Quotient
<1>3. PICK k \in Nat : k * VIRTQ_SIZE \in Nat /\ IndexRange = k * VIRTQ_SIZE
  <2>1. PICK k \in Nat, s \in 0..(VIRTQ_SIZE - 1) :
          k * VIRTQ_SIZE \in Nat /\ IndexRange = k * VIRTQ_SIZE + s /\ IndexRange % VIRTQ_SIZE = s
    BY <1>1, Quotient
  <2>2. s = 0
    BY <1>1, <2>1
  <2>3. QED
    BY <2>1, <2>2
<1>4. PICK p \in Nat, t \in 0..(VIRTQ_SIZE - 1) :
        p * VIRTQ_SIZE \in Nat /\ r = p * VIRTQ_SIZE + t /\ r % VIRTQ_SIZE = t
  BY Quotient
<1>5. q * IndexRange = (q * k) * VIRTQ_SIZE /\ q * k \in Nat
  BY <1>3, SMTT(30)
<1>6. PICK m \in Nat : m = q * k
  BY <1>5
<1>7. a = (m + p) * VIRTQ_SIZE + t
  <2>1. (m + p) * VIRTQ_SIZE = m * VIRTQ_SIZE + p * VIRTQ_SIZE
    BY SMTT(30)
  <2>2. q * IndexRange = m * VIRTQ_SIZE
    BY <1>5, <1>6
  <2>3. QED
    BY <1>2, <1>4, <2>1, <2>2
<1>8. a % VIRTQ_SIZE = t
  BY <1>7, Remainder
<1>9. QED
  BY <1>2, <1>4, <1>8 DEF Slot

-----------------------------------------------------------------------------
(* Requests *)

Size(q) == Len(Parts(q))

LEMMA PartsFacts ==
  ASSUME NEW q \in Queues
  PROVE  /\ Size(q) \in 2..3 /\ DOMAIN Parts(q) = 1..Size(q)
         /\ \A k \in 1..Size(q) : Parts(q)[k] \in PartNames
<1>1. CASE q = "gpu"
  BY <1>1 DEF Parts, Size, PartNames
<1>2. CASE q = "blk"
  BY <1>2 DEF Parts, Size, PartNames
<1>3. QED
  BY <1>1, <1>2 DEF Queues

LEMMA CallFacts ==
  /\ \A r \in Atomic!Calls : r.dev \in Queues /\ r # Atomic!NoCall
  /\ Atomic!NoCall.dev \notin Queues
  BY DEF Atomic!Calls, Atomic!Transfers, Atomic!Command, Atomic!NoCall, Queues

\* The length of a function that is a sequence.
LEMMA LenOfFunction ==
  ASSUME NEW S, NEW n \in Nat, NEW f \in [1..n -> S]
  PROVE  f \in Seq(S) /\ Len(f) = n
<1>1. f \in Seq(S)
  OBVIOUS
<1>2. QED
  BY <1>1, LenProperties

LEMMA Counting ==
  ASSUME NEW i \in Indices
  PROVE  NextIndex(i) \in Indices /\ NextIndex(i) # i /\ Slot(i) \in Ids
<1>1. IndexRange \in Nat \ {0} /\ VIRTQ_SIZE \in Nat \ {0} /\ i \in Nat /\ i + 1 \in Nat
  BY DEF Indices
<1>2. NextIndex(i) \in Indices /\ Slot(i) \in Ids
  BY <1>1, ModRange DEF NextIndex, Slot, Indices, Ids
<1>3. IndexRange > 1
  <2>1. SUFFICES ASSUME IndexRange = 1 PROVE FALSE
    BY <1>1
  <2>2. 1 \in 0..(VIRTQ_SIZE - 1)
    OBVIOUS
  <2>3. IndexRange % VIRTQ_SIZE = 1
    BY <1>1, <2>1, <2>2, ModSmall
  <2>4. QED
    BY <2>3
<1>4. NextIndex(i) # i
  <2>1. CASE i + 1 < IndexRange
    BY <1>1, <2>1, ModSmall DEF NextIndex
  <2>2. CASE i + 1 = IndexRange
    <3>1. 0 \in 0..(IndexRange - 1) /\ 1 \in Nat
      BY <1>1
    <3>2. (1 * IndexRange + 0) % IndexRange = 0
      BY <1>1, <3>1, Remainder
    <3>3. NextIndex(i) = 0
      BY <1>1, <2>2, <3>2 DEF NextIndex
    <3>4. QED
      BY <1>3, <2>2, <3>3
  <2>3. QED
    BY <1>1, <2>1, <2>2 DEF Indices
<1>5. QED
  BY <1>2, <1>4

\* The descriptors of a chain lie apart, across the wrap of the counter.
LEMMA ChainApart ==
  ASSUME NEW q \in Queues, global_desc_idx \in Indices
  PROVE  /\ ChainOf(q) \in [1..Size(q) -> Ids]
         /\ \A i, j \in 1..Size(q) : ChainOf(q)[i] = ChainOf(q)[j] => i = j
<1>1. /\ IndexRange \in Nat \ {0} /\ VIRTQ_SIZE \in Nat \ {0} /\ global_desc_idx \in Nat
      /\ Size(q) \in 2..3 /\ DOMAIN Parts(q) = 1..Size(q)
  BY PartsFacts DEF Indices
<1>2. \A k \in 1..Size(q) : global_desc_idx + k - 1 \in Nat
  BY <1>1
<1>3. \A k \in 1..Size(q) : ChainOf(q)[k] = (global_desc_idx + k - 1) % VIRTQ_SIZE
  BY <1>1, <1>2, SlotOfIndex DEF ChainOf
<1>4. ChainOf(q) \in [1..Size(q) -> Ids]
  <2>1. \A k \in 1..Size(q) : (global_desc_idx + k - 1) % VIRTQ_SIZE \in Ids
    BY <1>1, <1>2, ModRange DEF Ids
  <2>2. \A k \in 1..Size(q) : Slot((global_desc_idx + k - 1) % IndexRange) \in Ids
    BY <1>2, <2>1, SlotOfIndex
  <2>3. QED
    BY <1>1, <2>2 DEF ChainOf
<1>5. ASSUME NEW i \in 1..Size(q), NEW j \in 1..Size(q), i <= j, ChainOf(q)[i] = ChainOf(q)[j]
      PROVE  i = j
  <2>1. PICK a \in Nat : a = global_desc_idx + i - 1
    BY <1>2
  <2>2. PICK b \in Nat : b = global_desc_idx + j - 1
    BY <1>2
  <2>3. a <= b /\ b < a + VIRTQ_SIZE /\ a % VIRTQ_SIZE = b % VIRTQ_SIZE
    BY <1>1, <1>3, <1>5, <2>1, <2>2
  <2>4. a = b
    BY <1>1, <2>3, ModDistinct
  <2>5. QED
    BY <1>1, <2>1, <2>2, <2>4
<1>6. QED
  <2>1. ASSUME NEW i \in 1..Size(q), NEW j \in 1..Size(q), ChainOf(q)[i] = ChainOf(q)[j]
        PROVE  i = j
    <3>1. i <= j \/ j <= i
      BY <1>1
    <3>2. QED
      BY <1>5, <2>1, <3>1
  <2>2. QED
    BY <1>4, <2>1

-----------------------------------------------------------------------------
(* The inductive invariant *)

LEMMA InitInv == Init => CommandInv
<1> SUFFICES ASSUME Init PROVE CommandInv
  OBVIOUS
<1>1. /\ call = Atomic!NoCall /\ status = "none" /\ result = 0 /\ pc = "idle"
      /\ \A q \in Queues : queue # q
  BY CallFacts DEF Init, Atomic!AtomicInit, queue
<1>2. 0 \in Indices /\ 0 \in Ids /\ Blank \in Descriptors /\ <<>> \in Seq((PartNames \cup {"none"}) \X Nat)
  BY DEF Indices, Ids, Blank, Descriptors
<1>3. TypeOK
  BY <1>1, <1>2 DEF Init, TypeOK, OfQueues
<1>4. \A q \in Queues : Quiet(q)
  BY DEF Init, Quiet, Counted, OfQueues
<1>5. ChainInv /\ RoundInv /\ ChainsWhole
  BY <1>1, <1>4 DEF ChainInv, RoundInv, ChainsWhole, Quiet
<1>6. QED
  BY <1>3, <1>5 DEF CommandInv

\* While a request is in progress it is for one of the queues, and its chain
\* has its length.
LEMMA InProgress ==
  ASSUME CommandInv, pc # "idle"
  PROVE  /\ queue \in Queues /\ call # Atomic!NoCall /\ call \in Atomic!Calls
         /\ Size(queue) \in 2..3 /\ DOMAIN Parts(queue) = 1..Size(queue)
         /\ chain \in [1..Size(queue) -> Ids] /\ Len(chain) = Size(queue)
         /\ 1 \in 1..Size(queue) /\ chain[1] \in Ids
<1>1. call # Atomic!NoCall /\ call \in Atomic!Calls
  BY DEF CommandInv, ChainInv, TypeOK
<1>2. queue \in Queues
  BY <1>1, CallFacts DEF queue
<1>3. Size(queue) \in 2..3 /\ DOMAIN Parts(queue) = 1..Size(queue)
  BY <1>2, PartsFacts
<1>4. chain \in [1..Size(queue) -> Ids]
  BY DEF CommandInv, ChainInv, Size
<1>5. Len(chain) = Size(queue)
  BY <1>3, <1>4, LenOfFunction
<1>6. QED
  BY <1>1, <1>2, <1>3, <1>4, <1>5

\* A device that is not idle works on the request, which the driver has shown.
LEMMA Working ==
  ASSUME CommandInv, NEW q \in Queues, dev_pc[q] # "idle"
  PROVE  /\ pc \in {"notify", "wait"} /\ queue = q /\ pc # "idle"
         /\ described = Size(q)
         /\ dev_pc[q] = "walk" => Walking(q)
         /\ dev_pc[q] = "perform" => Walked(q)
         /\ dev_pc[q] = "publish" => Performed(q)
<1>1. pc \in {"notify", "wait"} /\ queue = q
  BY DEF CommandInv, RoundInv, Quiet
<1>2. described = Size(q)
  BY <1>1, InProgress DEF CommandInv, ChainInv, Size
<1>3. Shown(q) \/ Walking(q) \/ Walked(q) \/ Performed(q) \/ Published(q)
  BY <1>1 DEF CommandInv, RoundInv
<1>4. QED
  BY <1>1, <1>2, <1>3 DEF Shown, Walking, Walked, Performed, Published

LEMMA BeginKeeps ==
  ASSUME CommandInv, NEW r \in Atomic!Calls, Begin(r)
  PROVE  CommandInv'
<1>1. /\ pc = "idle" /\ requests' = requests + 1
      /\ UNCHANGED <<present, desc, ring, avail_idx, last_used_idx, device, disk, notified>>
      /\ call = Atomic!NoCall /\ status = "none"
  BY DEF Begin, CommandInv, ChainInv, RoundInv
<1>2. \A q \in Queues : Quiet(q)
  BY <1>1, CallFacts DEF CommandInv, RoundInv, queue
<1>3. (\A q \in Queues : Quiet(q))' /\ ChainsWhole'
  BY <1>1, <1>2 DEF Quiet, Counted, device, ChainsWhole
<1>4. CASE r.dev \in present
  <2>1. /\ call' = r /\ status' = "none" /\ chain' = ChainOf(r.dev) /\ described' = 0
        /\ pc' = "describe" /\ UNCHANGED result
        /\ global_desc_idx' = (global_desc_idx + Size(r.dev)) % IndexRange
    BY <1>4 DEF Begin, Size
  <2>2. r.dev \in Queues /\ r # Atomic!NoCall /\ queue' = r.dev
    BY <2>1, CallFacts DEF queue
  <2>3. Size(r.dev) \in 2..3 /\ global_desc_idx \in Nat /\ IndexRange \in Nat \ {0}
    BY <2>2, PartsFacts DEF CommandInv, TypeOK, Indices
  <2>4. global_desc_idx' \in Indices
    <3>1. global_desc_idx + Size(r.dev) \in Nat
      BY <2>3
    <3>2. QED
      BY <2>1, <2>3, <3>1, ModRange DEF Indices
  <2>5. TypeOK'
    BY <1>1, <2>1, <2>4 DEF CommandInv, TypeOK, device
  <2>6. ChainInv'
    <3>1. /\ chain' \in [1..Size(r.dev) -> Ids]
          /\ \A i, j \in 1..Size(r.dev) : chain'[i] = chain'[j] => i = j
      BY <2>1, <2>2, ChainApart DEF CommandInv, TypeOK
    <3>2. /\ call' # Atomic!NoCall /\ pc' # "idle" /\ pc' = "describe"
          /\ described' \in 0..Size(r.dev) /\ described' < Size(r.dev)
          /\ \A k \in 1..described' : desc'[queue'][chain'[k]] = Descriptor(k)'
      BY <2>1, <2>2, <2>3
    <3>3. Len(Parts(queue))' = Size(r.dev)
      BY <2>2 DEF Size
    <3>4. QED
      BY <3>1, <3>2, <3>3 DEF ChainInv
  <2>7. RoundInv'
    BY <1>3, <2>1 DEF RoundInv
  <2>8. QED
    BY <1>3, <2>5, <2>6, <2>7 DEF CommandInv
<1>5. CASE r.dev \notin present
  <2>1. /\ result' \in {-1, 0}
        /\ UNCHANGED <<call, status, chain, described, pc, global_desc_idx>>
    BY <1>5 DEF Begin
  <2>2. TypeOK'
    BY <1>1, <2>1 DEF CommandInv, TypeOK, device
  <2>3. ChainInv' /\ RoundInv'
    BY <1>1, <1>3, <2>1 DEF CommandInv, ChainInv, RoundInv
  <2>4. QED
    BY <1>3, <2>2, <2>3 DEF CommandInv
<1>6. QED
  BY <1>4, <1>5

\* The steps of the driver before it shows the request: no device has anything
\* to do.
LEMMA AllQuiet ==
  ASSUME CommandInv, pc \in {"describe", "ring", "show"}
  PROVE  (\A q \in Queues : Quiet(q)) /\ status = "none"
  BY DEF CommandInv, RoundInv

LEMMA DescribeKeeps ==
  ASSUME CommandInv, Describe
  PROVE  CommandInv'
<1> DEFINE n == described + 1
<1>1. /\ pc = "describe" /\ pc # "idle"
      /\ desc' = [desc EXCEPT ![queue][chain[n]] = Descriptor(n)]
      /\ described' = n /\ pc' = IF n < Len(chain) THEN "describe" ELSE "ring"
      /\ UNCHANGED <<present, global_desc_idx, ring, chain, requests, call, last_used_idx,
                     avail_idx, device, memory, notified, result>>
  BY DEF Describe
<1>2. /\ queue \in Queues /\ queue' = queue /\ call # Atomic!NoCall
      /\ Size(queue) \in 2..3 /\ chain \in [1..Size(queue) -> Ids] /\ Len(chain) = Size(queue)
  BY <1>1, InProgress DEF queue
<1>3. described \in Nat /\ described < Size(queue) /\ n \in 1..Size(queue)
  BY <1>1, <1>2 DEF CommandInv, ChainInv, Size
<1> HIDE DEF n
<1>4. Descriptor(n) \in Descriptors
  <2>1. Parts(queue)[n] \in PartNames /\ requests \in Nat
    BY <1>2, <1>3, PartsFacts DEF CommandInv, TypeOK
  <2>2. (n < Len(chain)) \in BOOLEAN
    BY <1>2, <1>3
  <2>3. (IF n < Len(chain) THEN chain[n + 1] ELSE 0) \in Ids
    BY <1>2, <1>3 DEF Ids
  <2>4. QED
    BY <2>1, <2>2, <2>3 DEF Descriptor, Descriptors
<1>5. desc \in [Queues -> [Ids -> Descriptors]]
  BY DEF CommandInv, TypeOK
<1>6. /\ desc' \in [Queues -> [Ids -> Descriptors]]
      /\ desc'[queue][chain[n]] = Descriptor(n)
      /\ \A d \in Ids : d # chain[n] => desc'[queue][d] = desc[queue][d]
  BY <1>1, <1>2, <1>3, <1>4, <1>5
<1>7. TypeOK'
  BY <1>1, <1>3, <1>6 DEF CommandInv, TypeOK, device, memory
<1>8. \A k \in 1..n : desc'[queue][chain[k]] = Descriptor(k)
  <2> SUFFICES ASSUME NEW k \in 1..n PROVE desc'[queue][chain[k]] = Descriptor(k)
    OBVIOUS
  <2>1. CASE k = n
    BY <1>6, <2>1
  <2>2. CASE k # n
    <3>1. k \in 1..described /\ k \in 1..Size(queue)
      BY <1>2, <1>3, <2>2 DEF n
    <3>2. chain[k] # chain[n] /\ chain[k] \in Ids
      BY <1>1, <1>2, <1>3, <2>2, <3>1 DEF CommandInv, ChainInv, Size
    <3>3. desc[queue][chain[k]] = Descriptor(k)
      BY <1>1, <3>1 DEF CommandInv, ChainInv
    <3>4. QED
      BY <1>6, <3>2, <3>3
  <2>3. QED
    BY <2>1, <2>2
<1>9. ChainInv'
  <2>1. \A k \in 1..n : Descriptor(k)' = Descriptor(k)
    BY <1>1, <1>2 DEF Descriptor
  <2>2. \A k \in 1..described' : desc'[queue'][chain'[k]] = Descriptor(k)'
    BY <1>1, <1>2, <1>8, <2>1
  <2>3. /\ call' # Atomic!NoCall /\ pc' # "idle" /\ described' \in 0..Size(queue)
        /\ pc' = "describe" <=> described' < Size(queue)
    BY <1>1, <1>2, <1>3
  <2>4. /\ chain' \in [1..Size(queue) -> Ids]
        /\ \A i, j \in 1..Size(queue) : chain'[i] = chain'[j] => i = j
    BY <1>1, <1>2 DEF CommandInv, ChainInv, Size
  <2>5. Len(Parts(queue))' = Size(queue)
    BY <1>2 DEF Size
  <2>6. QED
    BY <2>2, <2>3, <2>4, <2>5 DEF ChainInv
<1>10. RoundInv' /\ ChainsWhole'
  BY <1>1, AllQuiet DEF RoundInv, ChainsWhole, Quiet, Counted, device, memory
<1>11. QED
  BY <1>7, <1>9, <1>10 DEF CommandInv

\* What the driver wrote of the chain stays as it is until the next request.
LEMMA ChainKept ==
  ASSUME ChainInv, pc \notin {"idle", "describe"}, pc' \notin {"idle", "describe"},
         UNCHANGED <<desc, chain, described, requests, call>>
  PROVE  ChainInv'
<1>1. queue' = queue /\ (\A k : Descriptor(k)' = Descriptor(k))
  BY DEF queue, Descriptor
<1>2. QED
  BY <1>1 DEF ChainInv

LEMMA PutRingKeeps ==
  ASSUME CommandInv, PutRing
  PROVE  CommandInv'
<1>1. /\ pc = "ring" /\ pc' = "show"
      /\ ring' = [ring EXCEPT ![queue][Slot(avail_idx[queue])] = chain[1]]
      /\ UNCHANGED <<present, global_desc_idx, desc, chain, described, requests, call,
                     last_used_idx, avail_idx, device, memory, notified, result>>
  BY DEF PutRing
<1>2. queue \in Queues /\ queue' = queue /\ chain[1] \in Ids
  BY <1>1, InProgress DEF queue
<1>3. ring \in [Queues -> [Ids -> Ids]] /\ avail_idx[queue] \in Indices
  BY <1>2 DEF CommandInv, TypeOK
<1>4. Slot(avail_idx[queue]) \in Ids
  BY <1>3, Counting
<1>5. ring' \in [Queues -> [Ids -> Ids]] /\ ring'[queue][Slot(avail_idx[queue])] = chain[1]
  BY <1>1, <1>2, <1>3, <1>4
<1>6. TypeOK'
  BY <1>1, <1>5 DEF CommandInv, TypeOK, device, memory
<1>7. ChainInv'
  BY <1>1, ChainKept DEF CommandInv
<1>8. (\A q \in Queues : Quiet(q)) /\ status = "none"
  BY <1>1, AllQuiet
<1>9. HeadInRing(queue)'
  BY <1>1, <1>2, <1>5, <1>8 DEF HeadInRing, Quiet, Counted, device, Slot
<1>10. RoundInv' /\ ChainsWhole'
  BY <1>1, <1>8, <1>9 DEF RoundInv, ChainsWhole, Quiet, Counted, device, memory
<1>11. QED
  BY <1>6, <1>7, <1>10 DEF CommandInv

LEMMA ShowKeeps ==
  ASSUME CommandInv, Show
  PROVE  CommandInv'
<1>1. /\ pc = "show" /\ pc' = "notify"
      /\ avail_idx' = [avail_idx EXCEPT ![queue] = NextIndex(@)]
      /\ UNCHANGED <<present, table, chain, described, requests, call, last_used_idx,
                     device, memory, notified, result>>
  BY DEF Show
<1>2. queue \in Queues /\ queue' = queue
  BY <1>1, InProgress DEF queue
<1>3. avail_idx \in [Queues -> Indices]
  BY DEF CommandInv, TypeOK
<1>4. NextIndex(avail_idx[queue]) \in Indices
  BY <1>2, <1>3, Counting
<1>5. /\ avail_idx' \in [Queues -> Indices]
      /\ avail_idx'[queue] = NextIndex(avail_idx[queue])
      /\ \A q \in Queues : q # queue => avail_idx'[q] = avail_idx[q]
  BY <1>1, <1>2, <1>3, <1>4
<1>6. TypeOK'
  BY <1>1, <1>5 DEF CommandInv, TypeOK, table, device, memory
<1>7. ChainInv'
  BY <1>1, ChainKept DEF CommandInv, table
<1>8. (\A q \in Queues : Quiet(q)) /\ status = "none" /\ HeadInRing(queue)
  BY <1>1, AllQuiet DEF CommandInv, RoundInv
<1>9. Shown(queue)'
  BY <1>1, <1>2, <1>5, <1>8 DEF Shown, HeadInRing, Quiet, Counted, device, table, memory, Slot, NextIndex
<1>10. \A q \in Queues : q # queue => Quiet(q)'
  BY <1>1, <1>5, <1>8 DEF Quiet, Counted, device
<1>11. RoundInv'
  BY <1>1, <1>2, <1>9, <1>10 DEF RoundInv
<1>12. ChainsWhole'
  BY <1>1, <1>8 DEF ChainsWhole, Quiet, device
<1>13. QED
  BY <1>6, <1>7, <1>11, <1>12 DEF CommandInv

LEMMA NotifyKeeps ==
  ASSUME CommandInv, Notify
  PROVE  CommandInv'
<1>1. /\ pc = "notify" /\ pc' = "wait"
      /\ notified' = [notified EXCEPT ![queue] = TRUE]
      /\ UNCHANGED <<present, table, chain, described, requests, call, last_used_idx,
                     avail_idx, device, memory, result>>
  BY DEF Notify
<1>2. queue' = queue
  BY <1>1 DEF queue
<1>3. TypeOK'
  BY <1>1 DEF CommandInv, TypeOK, table, device, memory
<1>4. ChainInv'
  BY <1>1, ChainKept DEF CommandInv, table
<1>5. RoundInv'
  BY <1>1, <1>2 DEF CommandInv, RoundInv, Quiet, Counted, HeadInRing, Shown, Walking, Walked, Performed,
                    Published, table, device, memory
<1>6. ChainsWhole'
  BY <1>1, <1>2 DEF CommandInv, ChainsWhole, table, device, memory
<1>7. QED
  BY <1>3, <1>4, <1>5, <1>6 DEF CommandInv

\* When the wait is over the device has carried the request out.
LEMMA WaitOver ==
  ASSUME CommandInv, pc = "wait", Answered
  PROVE  Published(queue)
<1>1. queue \in Queues
  BY InProgress
<1>2. Shown(queue) \/ Walking(queue) \/ Walked(queue) \/ Performed(queue) \/ Published(queue)
  BY DEF CommandInv, RoundInv
<1>3. QED
  BY <1>1, <1>2 DEF Answered, Shown, Walking, Walked, Performed, Counted

LEMMA ReturnKeeps ==
  ASSUME CommandInv, Return
  PROVE  CommandInv'
<1>1. /\ pc = "wait" /\ Answered /\ pc' = "idle"
      /\ last_used_idx' = [last_used_idx EXCEPT ![queue] = NextIndex(@)]
      /\ result' \in {-1, 0} /\ call' = Atomic!NoCall /\ status' = "none"
      /\ UNCHANGED <<present, table, chain, described, requests, avail_idx, device, disk,
                     buffer, notified>>
  BY DEF Return
<1>2. queue \in Queues /\ Published(queue)
  BY <1>1, WaitOver, InProgress
<1>3. last_used_idx \in [Queues -> Indices]
  BY DEF CommandInv, TypeOK
<1>4. NextIndex(last_used_idx[queue]) \in Indices
  BY <1>2, <1>3, Counting
<1>5. /\ last_used_idx' \in [Queues -> Indices]
      /\ last_used_idx'[queue] = NextIndex(last_used_idx[queue])
      /\ \A q \in Queues : q # queue => last_used_idx'[q] = last_used_idx[q]
  BY <1>1, <1>2, <1>3, <1>4
<1>6. TypeOK'
  BY <1>1, <1>5 DEF CommandInv, TypeOK, table, device
<1>7. \A q \in Queues : q # queue => Quiet(q)
  BY DEF CommandInv, RoundInv
<1>8. \A q \in Queues : Quiet(q)'
  BY <1>1, <1>2, <1>5, <1>7 DEF Quiet, Counted, Published, device
<1>9. ChainInv' /\ RoundInv'
  BY <1>1, <1>8 DEF ChainInv, RoundInv
<1>10. ChainsWhole'
  BY <1>8 DEF ChainsWhole, Quiet
<1>11. QED
  BY <1>6, <1>9, <1>10 DEF CommandInv

-----------------------------------------------------------------------------
(* The steps of a device *)

\* They leave alone all that the driver writes.
LEMMA DriverKept ==
  ASSUME CommandInv, UNCHANGED <<table, driver>>, pc \in {"notify", "wait"}
  PROVE  ChainInv' /\ queue' = queue
<1>1. queue' = queue
  BY DEF driver, queue
<1>2. ChainInv'
  BY ChainKept DEF CommandInv, table, driver
<1>3. QED
  BY <1>1, <1>2

LEMMA TakeKeeps ==
  ASSUME CommandInv, NEW q \in Queues, Take(q)
  PROVE  CommandInv'
<1>1. /\ dev_pc[q] = "idle" /\ seen[q] # avail_idx[q]
      /\ dev_at' = [dev_at EXCEPT ![q] = ring[q][Slot(seen[q])]]
      /\ seen' = [seen EXCEPT ![q] = NextIndex(@)]
      /\ dev_pc' = [dev_pc EXCEPT ![q] = "walk"]
      /\ walk' = [walk EXCEPT ![q] = <<>>]
      /\ notified' = [notified EXCEPT ![q] = FALSE]
      /\ UNCHANGED <<present, table, driver, used_idx, memory, result>>
  BY DEF Take
<1>2. pc \in {"notify", "wait"} /\ queue = q /\ pc # "idle"
  BY <1>1 DEF CommandInv, RoundInv, Quiet, Counted
<1>3. Shown(q)
  BY <1>1, <1>2 DEF CommandInv, RoundInv, Shown, Walking, Walked, Performed, Published, Counted
<1>4. Size(q) \in 2..3 /\ chain[1] \in Ids
  BY <1>2, InProgress
<1>5. /\ dev_at \in [Queues -> Ids] /\ seen \in [Queues -> Indices]
      /\ dev_pc \in [Queues -> {"idle", "walk", "perform", "publish"}]
      /\ walk \in [Queues -> Seq((PartNames \cup {"none"}) \X Nat)]
      /\ notified \in [Queues -> BOOLEAN]
  BY DEF CommandInv, TypeOK
<1>6. NextIndex(seen[q]) \in Indices /\ ring[q][Slot(seen[q])] = chain[1]
  BY <1>3, <1>5, Counting DEF Shown, HeadInRing
<1>7. <<>> \in Seq((PartNames \cup {"none"}) \X Nat) /\ Len(<<>>) = 0
  BY EmptySeq
<1>8. /\ dev_at' \in [Queues -> Ids] /\ dev_at'[q] = chain[1]
      /\ seen' \in [Queues -> Indices] /\ seen'[q] = avail_idx[q]
      /\ dev_pc' \in [Queues -> {"idle", "walk", "perform", "publish"}] /\ dev_pc'[q] = "walk"
      /\ walk' \in [Queues -> Seq((PartNames \cup {"none"}) \X Nat)] /\ walk'[q] = <<>>
      /\ notified' \in [Queues -> BOOLEAN]
      /\ \A p \in Queues : p # q => seen'[p] = seen[p] /\ dev_pc'[p] = dev_pc[p]
  BY <1>1, <1>3, <1>4, <1>5, <1>6, <1>7 DEF Shown
<1>9. TypeOK'
  BY <1>1, <1>8 DEF CommandInv, TypeOK, table, driver, memory
<1>10. ChainInv' /\ queue' = q /\ pc' = pc
  BY <1>1, <1>2, DriverKept DEF driver
<1>11. Walking(q)'
  <2>1. dev_pc'[q] = "walk" /\ status' = "none" /\ Counted(q)'
    BY <1>1, <1>3, <1>8 DEF Counted, Shown, driver, memory
  <2>2. Len(walk'[q]) = 0 /\ 0 < Size(q) /\ dev_at'[q] = chain'[0 + 1]
    BY <1>1, <1>4, <1>7, <1>8 DEF driver
  <2>3. QED
    BY <2>1, <2>2 DEF Walking, Size
<1>12. \A p \in Queues : p # q => Quiet(p)'
  BY <1>1, <1>2, <1>8 DEF CommandInv, RoundInv, Quiet, Counted, driver
<1>13. RoundInv'
  BY <1>2, <1>10, <1>11, <1>12 DEF RoundInv
<1>14. ChainsWhole'
  <2>1. call' # Atomic!NoCall
    BY <1>1, <1>2, InProgress DEF driver
  <2>2. \A p \in Queues : p # q => dev_pc'[p] = "idle"
    BY <1>12 DEF Quiet
  <2>3. Len(walk'[q]) = 0 /\ 0 < Size(q) /\ dev_pc'[q] = "walk"
    BY <1>4, <1>7, <1>8
  <2>4. QED
    BY <1>10, <2>1, <2>2, <2>3 DEF ChainsWhole, Size
<1>15. QED
  BY <1>9, <1>10, <1>13, <1>14 DEF CommandInv

LEMMA WalkKeeps ==
  ASSUME CommandInv, NEW q \in Queues, Walk(q)
  PROVE  CommandInv'
<1> DEFINE d == desc[q][dev_at[q]]
           n == Len(walk[q]) + 1
           Visited == Seq((PartNames \cup {"none"}) \X Nat)
<1>1. /\ dev_pc[q] = "walk"
      /\ walk' = [walk EXCEPT ![q] = Append(@, <<d.part, d.of>>)]
      /\ dev_at' = [dev_at EXCEPT ![q] = d.next]
      /\ dev_pc' = [dev_pc EXCEPT ![q] = IF d.more THEN "walk" ELSE "perform"]
      /\ UNCHANGED <<present, table, driver, seen, used_idx, memory, notified, result>>
  BY DEF Walk
<1>2. pc \in {"notify", "wait"} /\ queue = q /\ pc # "idle" /\ described = Size(q) /\ Walking(q)
  BY <1>1, Working
<1>3. /\ Size(q) \in 2..3 /\ chain \in [1..Size(q) -> Ids] /\ Len(chain) = Size(q)
      /\ call # Atomic!NoCall
  BY <1>2, InProgress
<1>4. /\ dev_at \in [Queues -> Ids] /\ walk \in [Queues -> Visited] /\ requests \in Nat
      /\ dev_pc \in [Queues -> {"idle", "walk", "perform", "publish"}]
  BY DEF CommandInv, TypeOK
<1>5. Len(walk[q]) \in Nat
  BY <1>4, LenProperties
<1>6. n \in 1..Size(q) /\ dev_at[q] = chain[n]
  BY <1>2, <1>3, <1>5 DEF Walking, Size
<1>7. d = Descriptor(n)
  BY <1>2, <1>6 DEF CommandInv, ChainInv
<1>8. /\ d.part = Parts(q)[n] /\ d.of = requests /\ d.more = (n < Size(q))
      /\ d.next = IF n < Size(q) THEN chain[n + 1] ELSE 0
  BY <1>2, <1>3, <1>7 DEF Descriptor
<1>9. d.part \in PartNames /\ d.next \in Ids
  <2>1. Parts(q)[n] \in PartNames
    BY <1>6, PartsFacts
  <2>2. n < Size(q) => chain[n + 1] \in Ids
    BY <1>3, <1>6
  <2>3. QED
    BY <1>8, <2>1, <2>2 DEF Ids
<1> HIDE DEF d
<1>10. /\ Append(walk[q], <<d.part, d.of>>) \in Visited
       /\ Len(Append(walk[q], <<d.part, d.of>>)) = n
       /\ \A k \in 1..Len(walk[q]) : Append(walk[q], <<d.part, d.of>>)[k] = walk[q][k]
       /\ Append(walk[q], <<d.part, d.of>>)[n] = <<d.part, d.of>>
  <2>1. <<d.part, d.of>> \in (PartNames \cup {"none"}) \X Nat
    BY <1>4, <1>8, <1>9
  <2>2. walk[q] \in Visited
    BY <1>4
  <2>3. QED
    BY <2>1, <2>2, AppendProperties
<1>11. /\ walk' \in [Queues -> Visited] /\ Len(walk'[q]) = n
       /\ \A k \in 1..Len(walk[q]) : walk'[q][k] = walk[q][k]
       /\ walk'[q][n] = <<Parts(q)[n], requests>>
  BY <1>1, <1>4, <1>8, <1>10
<1>12. /\ dev_at' \in [Queues -> Ids] /\ dev_at'[q] = d.next
       /\ dev_pc' \in [Queues -> {"idle", "walk", "perform", "publish"}]
       /\ dev_pc'[q] = IF n < Size(q) THEN "walk" ELSE "perform"
       /\ \A p \in Queues : p # q => dev_pc'[p] = dev_pc[p]
  BY <1>1, <1>4, <1>8, <1>9
<1>13. TypeOK'
  BY <1>1, <1>11, <1>12 DEF CommandInv, TypeOK, table, driver, memory
<1>14. ChainInv' /\ queue' = q /\ pc' = pc /\ call' # Atomic!NoCall
  BY <1>1, <1>2, <1>3, DriverKept DEF driver
<1>15. Counted(q)' /\ status' = "none"
  BY <1>1, <1>2 DEF Walking, Counted, driver, memory
<1>16. Walking(q)' \/ Walked(q)'
  <2>1. CASE n < Size(q)
    BY <1>1, <1>8, <1>11, <1>12, <1>15, <2>1 DEF Walking, Size, driver
  <2>2. CASE ~(n < Size(q))
    BY <1>12, <1>15, <2>2 DEF Walked
  <2>3. QED
    BY <2>1, <2>2
<1>17. \A p \in Queues : p # q => Quiet(p)'
  BY <1>1, <1>2, <1>12 DEF CommandInv, RoundInv, Quiet, Counted, driver
<1>18. RoundInv'
  BY <1>2, <1>14, <1>16, <1>17 DEF RoundInv
<1>19. ChainsWhole'
  <2>1. \A p \in Queues : p # q => dev_pc'[p] = "idle"
    BY <1>17 DEF Quiet
  <2>2. \A k \in 1..Len(walk[q]) : walk[q][k] = <<Parts(q)[k], requests>>
    BY <1>1 DEF CommandInv, ChainsWhole
  <2>3. \A k \in 1..n : walk'[q][k] = <<Parts(q)[k], requests'>>
    <3>1. requests' = requests
      BY <1>1 DEF driver
    <3>2. \A k \in 1..n : k \in 1..Len(walk[q]) \/ k = n
      BY <1>5
    <3>3. QED
      BY <1>11, <2>2, <3>1, <3>2
  <2>4. dev_pc'[q] \in {"perform", "publish"} <=> Len(walk'[q]) = Size(q)
    BY <1>3, <1>6, <1>11, <1>12
  <2>5. Len(walk'[q]) <= Size(q)
    BY <1>3, <1>6, <1>11
  <2>6. QED
    BY <1>11, <1>14, <2>1, <2>3, <2>4, <2>5 DEF ChainsWhole, Size
<1>20. QED
  BY <1>13, <1>14, <1>18, <1>19 DEF CommandInv

LEMMA PerformKeeps ==
  ASSUME CommandInv, NEW q \in Queues, Perform(q)
  PROVE  CommandInv' /\ status = "none"
<1>1. /\ dev_pc[q] = "perform" /\ status' \in {"ok", "error"}
      /\ dev_pc' = [dev_pc EXCEPT ![q] = "publish"]
      /\ UNCHANGED <<present, table, driver, seen, dev_at, walk, used_idx, notified, result>>
  BY DEF Perform
<1>2. pc \in {"notify", "wait"} /\ queue = q /\ pc # "idle" /\ Walked(q)
  BY <1>1, Working
<1>3. dev_pc \in [Queues -> {"idle", "walk", "perform", "publish"}]
  BY DEF CommandInv, TypeOK
<1>4. /\ dev_pc' \in [Queues -> {"idle", "walk", "perform", "publish"}]
      /\ dev_pc'[q] = "publish" /\ \A p \in Queues : p # q => dev_pc'[p] = dev_pc[p]
  BY <1>1, <1>3
<1>5. TypeOK'
  BY <1>1, <1>4 DEF CommandInv, TypeOK, table, driver
<1>6. ChainInv' /\ queue' = q /\ pc' = pc
  BY <1>1, <1>2, DriverKept DEF driver
<1>7. Performed(q)'
  BY <1>1, <1>2, <1>4 DEF Walked, Performed, Counted, driver
<1>8. \A p \in Queues : p # q => Quiet(p)'
  BY <1>1, <1>2, <1>4 DEF CommandInv, RoundInv, Quiet, Counted, driver
<1>9. RoundInv'
  BY <1>2, <1>6, <1>7, <1>8 DEF RoundInv
<1>10. ChainsWhole'
  <2>1. \A p \in Queues : p # q => dev_pc'[p] = "idle"
    BY <1>8 DEF Quiet
  <2>2. QED
    BY <1>1, <1>2, <1>4, <1>6, <2>1 DEF CommandInv, ChainsWhole, driver
<1>11. QED
  BY <1>2, <1>5, <1>6, <1>9, <1>10 DEF CommandInv, Walked

LEMMA PublishKeeps ==
  ASSUME CommandInv, NEW q \in Queues, Publish(q)
  PROVE  CommandInv'
<1>1. /\ dev_pc[q] = "publish"
      /\ used_idx' = [used_idx EXCEPT ![q] = NextIndex(@)]
      /\ dev_pc' = [dev_pc EXCEPT ![q] = "idle"]
      /\ UNCHANGED <<present, table, driver, seen, dev_at, walk, memory, notified, result>>
  BY DEF Publish
<1>2. pc \in {"notify", "wait"} /\ queue = q /\ pc # "idle" /\ Performed(q)
  BY <1>1, Working
<1>3. /\ dev_pc \in [Queues -> {"idle", "walk", "perform", "publish"}]
      /\ used_idx \in [Queues -> Indices]
  BY DEF CommandInv, TypeOK
<1>4. NextIndex(used_idx[q]) \in Indices
  BY <1>3, Counting
<1>5. /\ dev_pc' \in [Queues -> {"idle", "walk", "perform", "publish"}] /\ dev_pc'[q] = "idle"
      /\ used_idx' \in [Queues -> Indices] /\ used_idx'[q] = NextIndex(used_idx[q])
      /\ \A p \in Queues : p # q => dev_pc'[p] = dev_pc[p] /\ used_idx'[p] = used_idx[p]
  BY <1>1, <1>3, <1>4
<1>6. TypeOK'
  BY <1>1, <1>5 DEF CommandInv, TypeOK, table, driver, memory
<1>7. ChainInv' /\ queue' = q /\ pc' = pc
  BY <1>1, <1>2, DriverKept DEF driver
<1>8. Published(q)'
  BY <1>1, <1>2, <1>5 DEF Performed, Published, Counted, driver, memory, NextIndex
<1>9. \A p \in Queues : p # q => Quiet(p)'
  BY <1>1, <1>2, <1>5 DEF CommandInv, RoundInv, Quiet, Counted, driver
<1>10. RoundInv'
  BY <1>2, <1>7, <1>8, <1>9 DEF RoundInv
<1>11. ChainsWhole'
  BY <1>5, <1>9 DEF ChainsWhole, Quiet
<1>12. QED
  BY <1>6, <1>7, <1>10, <1>11 DEF CommandInv

LEMMA StutterKeeps ==
  ASSUME CommandInv, UNCHANGED vars
  PROVE  CommandInv'
<1>1. UNCHANGED <<table, driver, device, memory, present, notified, result>>
  BY DEF vars
<1>2. queue' = queue /\ (\A k : Descriptor(k)' = Descriptor(k))
  BY <1>1 DEF driver, table, queue, Descriptor
<1>3. TypeOK'
  BY <1>1 DEF CommandInv, TypeOK, table, driver, device, memory
<1>4. ChainInv'
  BY <1>1, <1>2 DEF CommandInv, ChainInv, table, driver
<1>5. RoundInv'
  BY <1>1, <1>2 DEF CommandInv, RoundInv, Quiet, Counted, HeadInRing, Shown, Walking, Walked, Performed,
                    Published, table, driver, device, memory
<1>6. ChainsWhole'
  BY <1>1, <1>2 DEF CommandInv, ChainsWhole, driver, device
<1>7. QED
  BY <1>3, <1>4, <1>5, <1>6 DEF CommandInv

LEMMA CommandStep == CommandInv /\ [Next]_vars => CommandInv'
  BY BeginKeeps, DescribeKeeps, PutRingKeeps, ShowKeeps, NotifyKeeps, ReturnKeeps,
     TakeKeeps, WalkKeeps, PerformKeeps, PublishKeeps, StutterKeeps
  DEF Next, Driver, Device

LEMMA CommandInvariant == Spec => []CommandInv
  BY InitInv, CommandStep, PTL DEF Spec

-----------------------------------------------------------------------------
(* The refinement *)

LEMMA AtomicInitial == Init => Atomic!AtomicInit
  BY DEF Init

LEMMA AtomicStep ==
  CommandInv /\ [Next]_vars => [Atomic!AtomicNext]_(Atomic!atomicVars)
<1> SUFFICES ASSUME CommandInv, [Next]_vars
             PROVE  Atomic!AtomicNext \/ UNCHANGED <<disk, buffer, call, status, result>>
  BY DEF Atomic!atomicVars
<1>1. ASSUME NEW r \in Atomic!Calls, Begin(r) PROVE Atomic!Invoke(r) \/ Atomic!Refuse(r)
  <2>1. call = Atomic!NoCall /\ Atomic!Filled(r) /\ UNCHANGED disk
    BY <1>1 DEF Begin, CommandInv, ChainInv
  <2>2. CASE r.dev \in present
    BY <1>1, <2>1, <2>2 DEF Begin, Atomic!Invoke
  <2>3. CASE r.dev \notin present
    BY <1>1, <2>1, <2>3 DEF Begin, Atomic!Refuse
  <2>4. QED
    BY <2>2, <2>3
<1>2. ASSUME Return PROVE Atomic!Return
  <2>1. status # "none" /\ call # Atomic!NoCall
    BY <1>2, WaitOver DEF Return, Published, CommandInv, ChainInv
  <2>2. QED
    BY <1>2, <2>1 DEF Return, Atomic!Return, queue
<1>3. ASSUME NEW q \in Queues, Perform(q) PROVE Atomic!Do
  BY <1>3, PerformKeeps DEF Perform, Atomic!Do, driver
<1>4. ASSUME Describe \/ PutRing \/ Show \/ Notify
      PROVE  UNCHANGED <<disk, buffer, call, status, result>>
  BY <1>4 DEF Describe, PutRing, Show, Notify, memory
<1>5. ASSUME NEW q \in Queues, Take(q) \/ Walk(q) \/ Publish(q)
      PROVE  UNCHANGED <<disk, buffer, call, status, result>>
  BY <1>5 DEF Take, Walk, Publish, driver, memory
<1>6. ASSUME UNCHANGED vars PROVE UNCHANGED <<disk, buffer, call, status, result>>
  BY <1>6 DEF vars, driver, memory
<1>7. QED
  BY <1>1, <1>2, <1>3, <1>4, <1>5, <1>6 DEF Next, Driver, Device, Atomic!AtomicNext

-----------------------------------------------------------------------------
(* Theorems *)

\* Ids stay in the tables and counters in their width.
THEOREM TypeCorrect == Spec => []TypeOK
<1>1. CommandInv => TypeOK
  BY DEF CommandInv
<1>2. QED
  BY <1>1, CommandInvariant, PTL

\* A device walks through nothing but the request in progress, although both
\* queues draw their ids from one counter that wraps.
THEOREM WholeChains == Spec => []ChainsWhole
<1>1. CommandInv => ChainsWhole
  BY DEF CommandInv
<1>2. QED
  BY <1>1, CommandInvariant, PTL

\* Driver, rings and devices carry out every request once, between its call and
\* its return, and tell the caller how it went.
THEOREM ImplementsAtomic == Spec => AtomicSpec
<1>1. QED
  BY AtomicInitial, AtomicStep, CommandInvariant, PTL DEF Spec, AtomicSpec, Atomic!AtomicSpec
=============================================================================
