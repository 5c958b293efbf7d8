--------------------------- MODULE RxQueue_proofs ---------------------------
(***************************************************************************)
(* The receive queues of the drivers: every buffer has one owner, none is  *)
(* lost, and polls return the events in order, each once, for queues of    *)
(* every size and indices of every width that is a multiple of it.         *)
(***************************************************************************)
EXTENDS RxQueue, SequenceTheorems, TLAPS

USE SizeAssumption, IndexAssumption, EventAssumption

-----------------------------------------------------------------------------
(* Indices *)

\* Division with a remainder.
LEMMA Quotient ==
  ASSUME NEW a \in Nat, NEW n \in Nat \ {0}
  PROVE  \E q \in Nat, r \in 0..(n - 1) : q * n \in Nat /\ a = q * n + r /\ a % n = r
<1>1. a \div n \in Nat /\ a % n \in 0..(n - 1)
  BY SMTT(30)
<1>2. a = n * (a \div n) + (a % n)
  BY SMTT(30)
<1>3. PICK q \in Nat, r \in 0..(n - 1) : q = a \div n /\ r = a % n
  BY <1>1
<1>4. q * n \in Nat /\ n * q = q * n
  BY SMTT(30)
<1>5. QED
  BY <1>1, <1>2, <1>3, <1>4

\* The remainder is the only number below n that differs by a multiple of n.
LEMMA Remainder ==
  ASSUME NEW q \in Nat, NEW n \in Nat \ {0}, NEW r \in 0..(n - 1)
  PROVE  (q * n + r) % n = r
  BY SMTT(30)

\* Less than n apart, two numbers have different remainders.
LEMMA ModDistinct ==
  ASSUME NEW a \in Nat, NEW b \in Nat, NEW n \in Nat \ {0},
         a <= b, b < a + n, a % n = b % n
  PROVE  a = b
<1>1. PICK p \in Nat, r \in 0..(n - 1) : p * n \in Nat /\ a = p * n + r /\ a % n = r
  BY Quotient
<1>2. PICK q \in Nat, s \in 0..(n - 1) : q * n \in Nat /\ b = q * n + s /\ b % n = s
  BY Quotient
<1>3. r = s
  BY <1>1, <1>2
<1>4. p <= q
  <2>1. SUFFICES ASSUME q < p PROVE FALSE
    OBVIOUS
  <2>2. q * n + n <= p * n
    BY <2>1, SMTT(30)
  <2>3. QED
    BY <1>1, <1>2, <1>3, <2>2
<1>5. q <= p
  <2>1. SUFFICES ASSUME p < q PROVE FALSE
    OBVIOUS
  <2>2. p * n + n <= q * n
    BY <2>1, SMTT(30)
  <2>3. QED
    BY <1>1, <1>2, <1>3, <2>2
<1>6. QED
  BY <1>1, <1>2, <1>3, <1>4, <1>5

LEMMA ModSucc ==
  ASSUME NEW a \in Nat, NEW n \in Nat \ {0}
  PROVE  ((a % n) + 1) % n = (a + 1) % n
<1>1. PICK q \in Nat, r \in 0..(n - 1) : q * n \in Nat /\ a = q * n + r /\ a % n = r
  BY Quotient
<1>2. CASE r + 1 < n
  <2>1. (q * n + (r + 1)) % n = r + 1
    BY <1>2, Remainder
  <2>2. (r + 1) % n = r + 1
    BY <1>2, SMTT(30)
  <2>3. a + 1 = q * n + (r + 1)
    BY <1>1
  <2>4. QED
    BY <1>1, <2>1, <2>2, <2>3
<1>3. CASE r + 1 = n
  <2>1. (q + 1) * n = q * n + n /\ q + 1 \in Nat
    BY SMTT(30)
  <2>2. ((q + 1) * n + 0) % n = 0
    BY <2>1, Remainder
  <2>3. a + 1 = (q + 1) * n + 0
    BY <1>1, <1>3, <2>1
  <2>4. n % n = 0
    BY SMTT(30)
  <2>5. QED
    BY <1>1, <1>3, <2>2, <2>3, <2>4
<1>4. QED
  BY <1>1, <1>2, <1>3

LEMMA ModRange ==
  ASSUME NEW a \in Nat, NEW n \in Nat \ {0}
  PROVE  a % n \in 0..(n - 1)
  BY Quotient

LEMMA ModSmall ==
  ASSUME NEW n \in Nat \ {0}, NEW r \in 0..(n - 1)
  PROVE  r % n = r
  BY SMTT(30)

\* An index counts modulo IndexRange, a slot modulo QUEUE_SIZE.
LEMMA SlotOfIndex ==
  ASSUME NEW a \in Nat
  PROVE  Slot(a % IndexRange) = a % QUEUE_SIZE
<1>1. IndexRange \in Nat \ {0} /\ QUEUE_SIZE \in Nat \ {0}
  OBVIOUS
<1>2. PICK q \in Nat, r \in 0..(IndexRange - 1) :
        q * IndexRange \in Nat /\ a = q * IndexRange + r /\ a % IndexRange = r
  BY <1>1, Quotient
<1>3. PICK k \in Nat : k * QUEUE_SIZE \in Nat /\ IndexRange = k * QUEUE_SIZE
  <2>1. PICK k \in Nat, s \in 0..(QUEUE_SIZE - 1) :
          k * QUEUE_SIZE \in Nat /\ IndexRange = k * QUEUE_SIZE + s /\ IndexRange % QUEUE_SIZE = s
    BY Quotient
  <2>2. s = 0
    BY <2>1
  <2>3. QED
    BY <2>1, <2>2
<1>4. PICK p \in Nat, t \in 0..(QUEUE_SIZE - 1) :
        p * QUEUE_SIZE \in Nat /\ r = p * QUEUE_SIZE + t /\ r % QUEUE_SIZE = t
  BY Quotient
<1>5. q * IndexRange = (q * k) * QUEUE_SIZE /\ q * k \in Nat
  BY <1>3, SMTT(30)
<1>6. PICK m \in Nat : m = q * k
  BY <1>5
<1>7. a = (m + p) * QUEUE_SIZE + t
  <2>1. (m + p) * QUEUE_SIZE = m * QUEUE_SIZE + p * QUEUE_SIZE
    BY SMTT(30)
  <2>2. q * IndexRange = m * QUEUE_SIZE
    BY <1>5, <1>6
  <2>3. QED
    BY <1>2, <1>4, <2>1, <2>2
<1>8. a % QUEUE_SIZE = t
  BY <1>7, Remainder
<1>9. QED
  BY <1>2, <1>4, <1>8 DEF Slot

LEMMA NextOfIndex ==
  ASSUME NEW a \in Nat
  PROVE  NextIndex(a % IndexRange) = (a + 1) % IndexRange
<1>1. IndexRange \in Nat \ {0}
  OBVIOUS
<1>2. QED
  BY <1>1, ModSucc DEF NextIndex

\* The slot QUEUE_SIZE positions on is the same slot.
LEMMA SlotNextRound ==
  ASSUME NEW a \in Nat
  PROVE  (QUEUE_SIZE + a) % QUEUE_SIZE = a % QUEUE_SIZE
<1>1. PICK q \in Nat, r \in 0..(QUEUE_SIZE - 1) :
        q * QUEUE_SIZE \in Nat /\ a = q * QUEUE_SIZE + r /\ a % QUEUE_SIZE = r
  BY Quotient
<1>2. (q + 1) * QUEUE_SIZE = q * QUEUE_SIZE + QUEUE_SIZE
  BY SMTT(30)
<1>3. ((q + 1) * QUEUE_SIZE + r) % QUEUE_SIZE = r
  BY Remainder
<1>4. QUEUE_SIZE + a = (q + 1) * QUEUE_SIZE + r
  BY <1>1, <1>2
<1>5. QED
  BY <1>1, <1>3, <1>4

LEMMA Ranges ==
  ASSUME NEW a \in Nat
  PROVE  a % QUEUE_SIZE \in Buffers /\ a % IndexRange \in Indices
<1>1. IndexRange \in Nat \ {0}
  OBVIOUS
<1>2. QED
  BY <1>1, ModRange DEF Buffers, Indices

\* Positions less than a round apart have different slots.
LEMMA SlotsDiffer ==
  ASSUME NEW a \in Nat, NEW b \in Nat, a < b, b < a + QUEUE_SIZE
  PROVE  a % QUEUE_SIZE # b % QUEUE_SIZE
<1>1. SUFFICES ASSUME a % QUEUE_SIZE = b % QUEUE_SIZE PROVE FALSE
  OBVIOUS
<1>2. a <= b /\ QUEUE_SIZE \in Nat \ {0}
  OBVIOUS
<1>3. a = b
  BY <1>1, <1>2, ModDistinct
<1>4. QED
  BY <1>3

\* The same of indices: those of driver and device are never further apart
\* than a round, which is less than IndexRange.
LEMMA IndicesDiffer ==
  ASSUME NEW a \in Nat, NEW b \in Nat, a <= b, b <= a + QUEUE_SIZE,
         a % IndexRange = b % IndexRange
  PROVE  a = b
<1>1. IndexRange \in Nat \ {0} /\ b < a + IndexRange
  OBVIOUS
<1>2. QED
  BY <1>1, ModDistinct

-----------------------------------------------------------------------------
(* The inductive invariant *)

LEMMA RxInit == Init => RxInv
<1> SUFFICES ASSUME Init PROVE RxInv
  OBVIOUS
<1>1. QUEUE_SIZE \in 0..(IndexRange - 1) /\ 0 \in 0..(IndexRange - 1) /\ IndexRange \in Nat \ {0}
  OBVIOUS
<1>2. QUEUE_SIZE % IndexRange = QUEUE_SIZE /\ 0 % IndexRange = 0
  BY <1>1, ModSmall
<1>3. TypeOK
  BY <1>1 DEF Init, TypeOK, Buffers, Indices, PostedAtStart
<1>4. IndexInv
  BY <1>1, <1>2 DEF Init, IndexInv, PostedAtStart
<1>5. SlotInv /\ EventInv
  BY DEF Init, SlotInv, EventInv
<1>6. QED
  BY <1>3, <1>4, <1>5 DEF RxInv

\* What the counters say of each other.
LEMMA CounterFacts ==
  ASSUME RxInv
  PROVE  /\ taken \in Nat /\ used \in Nat /\ returned \in Nat /\ lost \in Nat
         /\ returned <= used /\ used <= taken /\ taken <= QUEUE_SIZE + returned
         /\ dev_pc = "idle" => taken = used
         /\ dev_pc # "idle" => taken = used + 1
  BY DEF RxInv, TypeOK, IndexInv

LEMMA PollStep ==
  ASSUME RxInv, Poll
  PROVE  RxInv'
<1> USE DEF driver, device
<1>1. CASE PollEmpty
  <2>1. TypeOK'
    BY <1>1 DEF RxInv, PollEmpty, TypeOK
  <2>2. IndexInv' /\ SlotInv' /\ EventInv'
    BY <1>1 DEF RxInv, PollEmpty, IndexInv, SlotInv, EventInv
  <2>3. QED
    BY <2>1, <2>2 DEF RxInv
<1>2. CASE PollUsed
  <2>1. returned < used
    BY <1>2, CounterFacts DEF RxInv, IndexInv, PollUsed
  <2>2. Slot(last_used_idx) = returned % QUEUE_SIZE /\ returned % QUEUE_SIZE \in Buffers
    BY SlotOfIndex, CounterFacts, Ranges DEF RxInv, IndexInv
  <2>3. returned \in returned..(used - 1)
    BY <2>1, CounterFacts
  <2>4. used_ring[returned % QUEUE_SIZE] = returned % QUEUE_SIZE
    BY <2>3 DEF RxInv, SlotInv
  <2>5. desc_idx' = returned % QUEUE_SIZE /\ desc_idx' \in Buffers /\ pc' = "read"
    BY <1>2, <2>2, <2>4 DEF PollUsed
  <2>6. TypeOK'
    BY <1>2, <2>5 DEF RxInv, PollUsed, TypeOK
  <2>7. IndexInv'
    BY <1>2 DEF RxInv, PollUsed, IndexInv
  <2>8. SlotInv'
    BY <1>2, <2>1, <2>5 DEF RxInv, PollUsed, SlotInv
  <2>9. EventInv'
    BY <1>2, <2>5 DEF RxInv, PollUsed, EventInv
  <2>10. QED
    BY <2>6, <2>7, <2>8, <2>9 DEF RxInv
<1>3. CASE ReadEvent
  <2>1. TypeOK'
    BY <1>3 DEF RxInv, ReadEvent, TypeOK
  <2>2. IndexInv' /\ SlotInv'
    BY <1>3 DEF RxInv, ReadEvent, IndexInv, SlotInv
  <2>3. EventInv'
    BY <1>3 DEF RxInv, ReadEvent, SlotInv, EventInv
  <2>4. QED
    BY <2>1, <2>2, <2>3 DEF RxInv
<1>4. CASE Recycle
  <2>1. desc_idx = returned % QUEUE_SIZE /\ desc_idx \in Buffers
    BY <1>4 DEF RxInv, TypeOK, Recycle, SlotInv
  <2>2. Slot(avail_idx) = desc_idx
    <3>1. QUEUE_SIZE + returned \in Nat
      BY CounterFacts
    <3>2. QED
      BY <2>1, <3>1, SlotOfIndex, SlotNextRound, CounterFacts DEF RxInv, IndexInv
  <2>3. avail_ring' = avail_ring
    BY <1>4, <2>1, <2>2 DEF RxInv, TypeOK, SlotInv, Recycle
  <2>4. TypeOK'
    BY <1>4, <2>3 DEF RxInv, Recycle, TypeOK
  <2>5. IndexInv' /\ SlotInv' /\ EventInv'
    BY <1>4, <2>3 DEF RxInv, Recycle, IndexInv, SlotInv, EventInv
  <2>6. QED
    BY <2>4, <2>5 DEF RxInv
<1>5. CASE Publish
  <2>1. returned < used
    BY <1>5 DEF RxInv, SlotInv, Publish
  <2>2. avail_idx' = (QUEUE_SIZE + returned') % IndexRange
    <3>1. QUEUE_SIZE + returned \in Nat /\ QUEUE_SIZE + returned' = (QUEUE_SIZE + returned) + 1
      BY <1>5, CounterFacts DEF Publish
    <3>2. QED
      BY <1>5, <3>1, NextOfIndex DEF RxInv, IndexInv, Publish
  <2>3. last_used_idx' = returned' % IndexRange
    BY <1>5, NextOfIndex, CounterFacts DEF RxInv, IndexInv, Publish
  <2>4. returned' \in Nat /\ returned' = returned + 1 /\ QUEUE_SIZE + returned' \in Nat
    BY <1>5, CounterFacts DEF Publish
  <2>5. TypeOK'
    BY <1>5, <2>2, <2>3, <2>4, Ranges DEF RxInv, TypeOK, Publish
  <2>6. IndexInv'
    BY <1>5, <2>1, <2>2, <2>3, <2>4, CounterFacts DEF RxInv, IndexInv, Publish
  <2>7. \A c \in returned'..(used' - 1) : c \in returned..(used - 1)
    BY <1>5, <2>4, CounterFacts DEF Publish
  <2>8. SlotInv' /\ EventInv'
    BY <1>5, <2>7 DEF RxInv, SlotInv, EventInv, Publish
  <2>9. QED
    BY <2>5, <2>6, <2>8 DEF RxInv
<1>6. QED
  BY <1>1, <1>2, <1>3, <1>4, <1>5 DEF Poll

LEMMA DeviceStep ==
  ASSUME RxInv, Device
  PROVE  RxInv'
<1> USE DEF driver, device
<1>1. ASSUME NEW e \in Events, Take(e) PROVE RxInv'
  <2>1. taken # QUEUE_SIZE + returned /\ taken = used
    BY <1>1, CounterFacts DEF RxInv, IndexInv, Take
  <2>2. dev_desc' = taken % QUEUE_SIZE /\ dev_desc' \in Buffers
    BY <1>1, SlotOfIndex, CounterFacts, Ranges DEF RxInv, IndexInv, SlotInv, Take
  <2>3. taken' = taken + 1 /\ taken' \in Nat /\ dev_avail' = taken' % IndexRange
    BY <1>1, NextOfIndex, CounterFacts DEF RxInv, IndexInv, Take
  <2>4. TypeOK'
    BY <1>1, <2>2, <2>3, Ranges DEF RxInv, TypeOK, Take
  <2>5. IndexInv'
    <3>1. UNCHANGED <<avail_idx, last_used_idx, used_idx, returned, used>> /\ dev_pc' = "fill"
      BY <1>1 DEF Take
    <3>2. taken' = used' + 1 /\ taken' <= QUEUE_SIZE + returned' /\ returned' <= used'
      BY <2>1, <2>3, <3>1, CounterFacts
    <3>3. QED
      BY <2>3, <3>1, <3>2 DEF RxInv, IndexInv
  <2>6. SlotInv' /\ EventInv'
    BY <1>1, <2>1, <2>2 DEF RxInv, SlotInv, EventInv, Take
  <2>7. QED
    BY <2>4, <2>5, <2>6 DEF RxInv
<1>2. CASE Lose
  <2>1. TypeOK'
    BY <1>2, CounterFacts DEF RxInv, TypeOK, Lose
  <2>2. IndexInv' /\ SlotInv' /\ EventInv'
    BY <1>2 DEF RxInv, IndexInv, SlotInv, EventInv, Lose
  <2>3. QED
    BY <2>1, <2>2 DEF RxInv
<1>3. CASE Fill
  <2>1. dev_desc = used % QUEUE_SIZE /\ dev_desc \in Buffers /\ dev_evt \in Events
    BY <1>3 DEF RxInv, TypeOK, SlotInv, EventInv, Fill
  <2>2. \A b \in Buffers : buffers'[b] = IF b = dev_desc THEN dev_evt ELSE buffers[b]
    BY <1>3, <2>1 DEF RxInv, TypeOK, Fill
  <2>3. ASSUME NEW c \in returned..(used - 1)
        PROVE  c % QUEUE_SIZE # dev_desc /\ c % QUEUE_SIZE \in Buffers
    <3>1. c \in Nat /\ c < used /\ used < c + QUEUE_SIZE
      BY <1>3, <2>3, CounterFacts DEF Fill
    <3>2. QED
      BY <2>1, <3>1, SlotsDiffer, CounterFacts, Ranges
  <2>4. TypeOK'
    BY <1>3, <2>1 DEF RxInv, TypeOK, Fill
  <2>5. IndexInv' /\ SlotInv'
    BY <1>3 DEF RxInv, IndexInv, SlotInv, Fill
  <2>6. \A c \in returned..(used - 1) : buffers'[c % QUEUE_SIZE] = buffers[c % QUEUE_SIZE]
    BY <2>2, <2>3
  <2>7. pc # "idle" => returned \in returned..(used - 1)
    BY CounterFacts DEF RxInv, SlotInv
  <2>8. EventInv'
    BY <1>3, <2>1, <2>2, <2>6, <2>7 DEF RxInv, EventInv, Fill
  <2>9. QED
    BY <2>4, <2>5, <2>8 DEF RxInv
<1>4. CASE Use
  <2>1. dev_desc = used % QUEUE_SIZE /\ dev_desc \in Buffers /\ Slot(used_idx) = dev_desc
    BY <1>4, SlotOfIndex, CounterFacts DEF RxInv, TypeOK, IndexInv, SlotInv, Use
  <2>2. \A b \in Buffers : used_ring'[b] = IF b = dev_desc THEN dev_desc ELSE used_ring[b]
    BY <1>4, <2>1 DEF RxInv, TypeOK, Use
  <2>3. ASSUME NEW c \in returned..(used - 1)
        PROVE  c % QUEUE_SIZE # dev_desc /\ c % QUEUE_SIZE \in Buffers
    <3>1. c \in Nat /\ c < used /\ used < c + QUEUE_SIZE
      BY <1>4, <2>3, CounterFacts DEF Use
    <3>2. QED
      BY <2>1, <3>1, SlotsDiffer, CounterFacts, Ranges
  <2>4. TypeOK'
    BY <1>4, <2>1 DEF RxInv, TypeOK, Use
  <2>5. IndexInv' /\ EventInv'
    BY <1>4 DEF RxInv, IndexInv, EventInv, Use
  <2>6. \A c \in returned..(used - 1) : used_ring'[c % QUEUE_SIZE] = used_ring[c % QUEUE_SIZE]
    BY <2>2, <2>3
  <2>7. SlotInv'
    BY <1>4, <2>1, <2>2, <2>6 DEF RxInv, SlotInv, Use
  <2>8. QED
    BY <2>4, <2>5, <2>7 DEF RxInv
<1>5. CASE Deliver
  <2>1. used' = used + 1 /\ used' \in Nat /\ used_idx' = used' % IndexRange
    BY <1>5, NextOfIndex, CounterFacts DEF RxInv, IndexInv, Deliver
  <2>2. TypeOK'
    BY <1>5, <2>1, Ranges DEF RxInv, TypeOK, Deliver
  <2>3. IndexInv'
    BY <1>5, <2>1, CounterFacts DEF RxInv, IndexInv, Deliver
  <2>4. \A c \in returned..(used' - 1) : c \in returned..(used - 1) \/ c = used
    BY <2>1, CounterFacts
  <2>5. SlotInv'
    BY <1>5, <2>1, <2>4, CounterFacts DEF RxInv, SlotInv, Deliver
  <2>6. EventInv'
    BY <1>5, <2>4 DEF RxInv, EventInv, Deliver
  <2>7. QED
    BY <2>2, <2>3, <2>5, <2>6 DEF RxInv
<1>6. QED
  BY <1>1, <1>2, <1>3, <1>4, <1>5 DEF Device

LEMMA RxStep == RxInv /\ [Next]_vars => RxInv'
<1> SUFFICES ASSUME RxInv, [Next]_vars PROVE RxInv'
  OBVIOUS
<1>1. CASE UNCHANGED vars
  BY <1>1 DEF vars, driver, device, RxInv, TypeOK, IndexInv, SlotInv, EventInv
<1>2. QED
  BY <1>1, PollStep, DeviceStep DEF Next

LEMMA RxInvariant == Spec => []RxInv
  BY RxInit, RxStep, PTL DEF Spec

-----------------------------------------------------------------------------
(* Ownership *)

LEMMA OwnersApart == RxInv => OneOwner
<1> SUFFICES ASSUME RxInv PROVE OneOwner
  OBVIOUS
<1>1. ASSUME NEW c \in taken..(QUEUE_SIZE + returned - 1)
      PROVE  avail_ring[c % QUEUE_SIZE] = c % QUEUE_SIZE /\ c \in Nat
  <2>1. c \in Nat
    BY CounterFacts
  <2>2. QED
    BY <2>1, Ranges DEF RxInv, SlotInv
<1>2. ASSUME NEW d \in returned..(used - 1)
      PROVE  used_ring[d % QUEUE_SIZE] = d % QUEUE_SIZE /\ d \in Nat
  BY CounterFacts DEF RxInv, SlotInv
<1>3. ASSUME NEW c \in taken..(QUEUE_SIZE + returned - 1), NEW d \in Nat,
             returned <= d, d < c
      PROVE  d % QUEUE_SIZE # c % QUEUE_SIZE
  <2>1. c \in Nat /\ c < d + QUEUE_SIZE
    BY <1>3, CounterFacts
  <2>2. QED
    BY <1>3, <2>1, SlotsDiffer
<1>4. Posted \cap Filled = {}
  <2>1. SUFFICES ASSUME NEW c \in taken..(QUEUE_SIZE + returned - 1),
                        NEW d \in returned..(used - 1)
                 PROVE  avail_ring[c % QUEUE_SIZE] # used_ring[d % QUEUE_SIZE]
    BY DEF Posted, Filled
  <2>2. d \in Nat /\ returned <= d /\ d < c
    BY CounterFacts
  <2>3. QED
    BY <1>1, <1>2, <1>3, <2>2
<1>5. ASSUME dev_pc # "idle" PROVE dev_desc \notin Posted \cup Filled
  <2>1. dev_desc = used % QUEUE_SIZE /\ taken = used + 1 /\ used \in Nat /\ returned <= used
    BY <1>5, CounterFacts DEF RxInv, SlotInv
  <2>2. dev_desc \notin Posted
    <3>1. ASSUME NEW c \in taken..(QUEUE_SIZE + returned - 1)
          PROVE  avail_ring[c % QUEUE_SIZE] # dev_desc
      <4>1. used < c
        BY <2>1, CounterFacts
      <4>2. QED
        BY <1>1, <1>3, <2>1, <4>1
    <3>2. QED
      BY <3>1 DEF Posted
  <2>3. dev_desc \notin Filled
    <3>1. ASSUME NEW d \in returned..(used - 1) PROVE used_ring[d % QUEUE_SIZE] # dev_desc
      <4>1. d \in Nat /\ d < used /\ used < d + QUEUE_SIZE
        BY <2>1, CounterFacts
      <4>2. QED
        BY <1>2, <2>1, <4>1, SlotsDiffer
    <3>2. QED
      BY <3>1 DEF Filled
  <2>4. QED
    BY <2>2, <2>3
<1>6. ASSUME pc # "idle"
      PROVE  desc_idx \notin Posted /\ (dev_pc # "idle" => desc_idx # dev_desc)
  <2>1. desc_idx = returned % QUEUE_SIZE /\ returned < used
    BY <1>6 DEF RxInv, SlotInv
  <2>2. ASSUME NEW c \in taken..(QUEUE_SIZE + returned - 1)
        PROVE  avail_ring[c % QUEUE_SIZE] # desc_idx
    <3>1. returned < c /\ returned \in Nat
      BY <2>1, CounterFacts
    <3>2. QED
      BY <1>1, <1>3, <2>1, <3>1
  <2>3. dev_pc # "idle" => desc_idx # dev_desc
    <3>1. SUFFICES ASSUME dev_pc # "idle" PROVE desc_idx # dev_desc
      OBVIOUS
    <3>2. dev_desc = used % QUEUE_SIZE /\ used < returned + QUEUE_SIZE
      BY <3>1, CounterFacts DEF RxInv, SlotInv
    <3>3. QED
      BY <2>1, <3>2, CounterFacts, SlotsDiffer
  <2>4. QED
    BY <2>2, <2>3 DEF Posted
<1>7. QED
  BY <1>4, <1>5, <1>6 DEF OneOwner

-----------------------------------------------------------------------------
(* Losses *)

\* The device finds no buffer only when all of them are full.
LEMMA LossStep == RxInv /\ [Next]_vars => [lost' # lost => used - returned = QUEUE_SIZE]_vars
<1> SUFFICES ASSUME RxInv, Next, lost' # lost PROVE used - returned = QUEUE_SIZE
  OBVIOUS
<1>1. Lose
  BY DEF Next, Poll, PollEmpty, PollUsed, ReadEvent, Recycle, Publish, Device, Take, Fill, Use,
         Deliver, device
<1>2. taken = used /\ taken % IndexRange = (QUEUE_SIZE + returned) % IndexRange
  BY <1>1 DEF RxInv, IndexInv, Lose
<1>3. taken \in Nat /\ QUEUE_SIZE + returned \in Nat /\ taken <= QUEUE_SIZE + returned
      /\ QUEUE_SIZE + returned <= taken + QUEUE_SIZE
  BY CounterFacts
<1>4. taken = QUEUE_SIZE + returned
  BY <1>2, <1>3, IndicesDiffer
<1>5. QED
  BY <1>2, <1>4, CounterFacts

-----------------------------------------------------------------------------
(* The queue of events *)

\* Contents of a used ring u and buffers b between two counters.
Waiting(u, b, lo, hi) == [i \in 1..(hi - lo) |-> b[u[(lo + i - 1) % QUEUE_SIZE]]]

\* Each filled slot names its buffer, which holds an event.
InSlots(u, b, lo, hi) ==
  \A c \in lo..(hi - 1) : u[c % QUEUE_SIZE] = c % QUEUE_SIZE /\ b[c % QUEUE_SIZE] \in Events

\* Two states of the buffers agree on the filled slots.
Agree(b, b2, lo, hi) == \A c \in lo..(hi - 1) : b2[c % QUEUE_SIZE] = b[c % QUEUE_SIZE]

LEMMA InSlotsPart ==
  ASSUME NEW u, NEW b, NEW lo \in Nat, NEW hi \in Nat
  PROVE  /\ InSlots(u, b, lo, hi) => InSlots(u, b, lo + 1, hi)
         /\ InSlots(u, b, lo, hi + 1) => InSlots(u, b, lo, hi)
<1>1. ((lo + 1)..(hi - 1)) \subseteq (lo..(hi - 1))
  OBVIOUS
<1>2. (lo..(hi - 1)) \subseteq (lo..((hi + 1) - 1))
  OBVIOUS
<1>3. QED
  BY <1>1, <1>2, Zenon DEF InSlots

LEMMA WaitingForm ==
  ASSUME NEW u, NEW b, NEW lo \in Nat, NEW hi \in Nat, lo <= hi, InSlots(u, b, lo, hi)
  PROVE  /\ Waiting(u, b, lo, hi) \in Seq(Events)
         /\ Len(Waiting(u, b, lo, hi)) = hi - lo
         /\ \A i \in 1..(hi - lo) : Waiting(u, b, lo, hi)[i] = b[(lo + i - 1) % QUEUE_SIZE]
<1>1. ASSUME NEW i \in 1..(hi - lo)
      PROVE  /\ u[(lo + i - 1) % QUEUE_SIZE] = (lo + i - 1) % QUEUE_SIZE
             /\ b[(lo + i - 1) % QUEUE_SIZE] \in Events
  <2>1. PICK c \in lo..(hi - 1) : c = lo + i - 1
    OBVIOUS
  <2>2. QED
    BY <2>1 DEF InSlots
<1>2. PICK n \in Nat : n = hi - lo
  OBVIOUS
<1>3. ASSUME NEW i \in 1..n
      PROVE  Waiting(u, b, lo, hi)[i] = b[(lo + i - 1) % QUEUE_SIZE]
  BY <1>1, <1>2 DEF Waiting
<1>4. Waiting(u, b, lo, hi) = [i \in 1..n |-> b[u[(lo + i - 1) % QUEUE_SIZE]]]
  BY <1>2 DEF Waiting
<1>5. \A i \in 1..n : b[u[(lo + i - 1) % QUEUE_SIZE]] \in Events
  BY <1>1, <1>2
<1>6. Waiting(u, b, lo, hi) \in [1..n -> Events]
  BY <1>4, <1>5, Zenon
<1>7. Waiting(u, b, lo, hi) \in Seq(Events) /\ Len(Waiting(u, b, lo, hi)) = n
  BY <1>2, <1>6, LenProperties, SeqDef
<1>8. QED
  BY <1>2, <1>3, <1>7

\* Rings and buffers that agree on the filled slots hold the same events.
LEMMA WaitingSame ==
  ASSUME NEW u, NEW b, NEW u2, NEW b2, NEW lo \in Nat, NEW hi \in Nat, lo <= hi,
         InSlots(u, b, lo, hi), InSlots(u2, b2, lo, hi), Agree(b, b2, lo, hi)
  PROVE  Waiting(u2, b2, lo, hi) = Waiting(u, b, lo, hi)
<1> DEFINE s == Waiting(u, b, lo, hi)
           t == Waiting(u2, b2, lo, hi)
<1>1. /\ s \in Seq(Events) /\ Len(s) = hi - lo
      /\ \A i \in 1..(hi - lo) : s[i] = b[(lo + i - 1) % QUEUE_SIZE]
  BY WaitingForm
<1>2. /\ t \in Seq(Events) /\ Len(t) = hi - lo
      /\ \A i \in 1..(hi - lo) : t[i] = b2[(lo + i - 1) % QUEUE_SIZE]
  BY WaitingForm
<1>3. ASSUME NEW i \in 1..(hi - lo) PROVE t[i] = s[i]
  <2>1. PICK c \in lo..(hi - 1) : c = lo + i - 1
    OBVIOUS
  <2>2. QED
    BY <1>1, <1>2, <2>1 DEF Agree
<1> HIDE DEF s, t
<1>4. QED
  BY <1>1, <1>2, <1>3, SeqEqual DEF s, t

LEMMA WaitingTail ==
  ASSUME NEW u, NEW b, NEW lo \in Nat, NEW hi \in Nat, lo < hi, InSlots(u, b, lo, hi)
  PROVE  /\ Waiting(u, b, lo, hi) # <<>>
         /\ Head(Waiting(u, b, lo, hi)) = b[lo % QUEUE_SIZE]
         /\ Tail(Waiting(u, b, lo, hi)) = Waiting(u, b, lo + 1, hi)
<1> DEFINE s == Waiting(u, b, lo, hi)
           t == Waiting(u, b, lo + 1, hi)
<1>1. /\ s \in Seq(Events) /\ Len(s) = hi - lo
      /\ \A i \in 1..(hi - lo) : s[i] = b[(lo + i - 1) % QUEUE_SIZE]
  BY WaitingForm
<1>2. InSlots(u, b, lo + 1, hi) /\ lo + 1 \in Nat /\ lo + 1 <= hi
  BY InSlotsPart
<1>3. /\ t \in Seq(Events) /\ Len(t) = hi - (lo + 1)
      /\ \A i \in 1..(hi - (lo + 1)) : t[i] = b[((lo + 1) + i - 1) % QUEUE_SIZE]
  <2>1. PICK m \in Nat : m = lo + 1
    OBVIOUS
  <2>2. InSlots(u, b, m, hi) /\ m <= hi
    BY <1>2, <2>1
  <2>3. /\ Waiting(u, b, m, hi) \in Seq(Events) /\ Len(Waiting(u, b, m, hi)) = hi - m
        /\ \A i \in 1..(hi - m) : Waiting(u, b, m, hi)[i] = b[(m + i - 1) % QUEUE_SIZE]
    BY <2>2, WaitingForm
  <2>4. QED
    BY <2>1, <2>3
<1> HIDE DEF s, t
<1>4. s # <<>> /\ Head(s) = s[1]
  BY <1>1
<1>5. s[1] = b[lo % QUEUE_SIZE]
  <2>1. 1 \in 1..(hi - lo) /\ lo + 1 - 1 = lo
    OBVIOUS
  <2>2. QED
    BY <1>1, <2>1
<1>6. /\ Tail(s) \in Seq(Events) /\ Len(Tail(s)) = hi - lo - 1
      /\ \A i \in 1..(hi - lo - 1) : Tail(s)[i] = s[i + 1]
  BY <1>1, <1>4, HeadTailProperties
<1>7. ASSUME NEW i \in 1..(hi - lo - 1) PROVE Tail(s)[i] = t[i]
  <2>1. i + 1 \in 1..(hi - lo) /\ i \in 1..(hi - (lo + 1))
    OBVIOUS
  <2>2. lo + (i + 1) - 1 = (lo + 1) + i - 1
    OBVIOUS
  <2>3. QED
    BY <1>1, <1>3, <1>6, <2>1, <2>2
<1>8. Tail(s) = t
  BY <1>1, <1>3, <1>6, <1>7, SeqEqual
<1>9. QED
  BY <1>4, <1>5, <1>8 DEF s, t

LEMMA WaitingAppend ==
  ASSUME NEW u, NEW b, NEW lo \in Nat, NEW hi \in Nat, lo <= hi, InSlots(u, b, lo, hi + 1)
  PROVE  Waiting(u, b, lo, hi + 1) = Append(Waiting(u, b, lo, hi), b[hi % QUEUE_SIZE])
<1> DEFINE s == Waiting(u, b, lo, hi)
           t == Waiting(u, b, lo, hi + 1)
           e == b[hi % QUEUE_SIZE]
<1>1. InSlots(u, b, lo, hi)
  BY InSlotsPart
<1>2. /\ s \in Seq(Events) /\ Len(s) = hi - lo
      /\ \A i \in 1..(hi - lo) : s[i] = b[(lo + i - 1) % QUEUE_SIZE]
  BY <1>1, WaitingForm
<1>3. hi + 1 \in Nat /\ lo <= hi + 1
  OBVIOUS
<1>4. /\ t \in Seq(Events) /\ Len(t) = hi + 1 - lo
      /\ \A i \in 1..(hi + 1 - lo) : t[i] = b[(lo + i - 1) % QUEUE_SIZE]
  <2>1. PICK m \in Nat : m = hi + 1
    OBVIOUS
  <2>2. InSlots(u, b, lo, m) /\ lo <= m
    BY <1>3, <2>1
  <2>3. /\ Waiting(u, b, lo, m) \in Seq(Events) /\ Len(Waiting(u, b, lo, m)) = m - lo
        /\ \A i \in 1..(m - lo) : Waiting(u, b, lo, m)[i] = b[(lo + i - 1) % QUEUE_SIZE]
    BY <2>2, WaitingForm
  <2>4. QED
    BY <2>1, <2>3
<1>5. e \in Events
  <2>1. hi \in lo..((hi + 1) - 1)
    OBVIOUS
  <2>2. QED
    BY <2>1 DEF InSlots
<1> HIDE DEF s, t, e
<1>6. /\ Append(s, e) \in Seq(Events) /\ Len(Append(s, e)) = hi - lo + 1
      /\ \A i \in 1..(hi - lo) : Append(s, e)[i] = s[i]
      /\ Append(s, e)[hi - lo + 1] = e
  BY <1>2, <1>5, AppendProperties
<1>7. ASSUME NEW i \in 1..(hi + 1 - lo) PROVE t[i] = Append(s, e)[i]
  <2>1. CASE i <= hi - lo
    <3>1. i \in 1..(hi - lo)
      BY <2>1
    <3>2. QED
      BY <1>2, <1>4, <1>6, <3>1
  <2>2. CASE i = hi - lo + 1
    <3>1. lo + i - 1 = hi
      BY <2>2
    <3>2. t[i] = e
      BY <1>4, <3>1 DEF e
    <3>3. QED
      BY <1>6, <2>2, <3>2
  <2>3. i <= hi - lo \/ i = hi - lo + 1
    OBVIOUS
  <2>4. QED
    BY <2>1, <2>2, <2>3
<1>8. t = Append(s, e)
  BY <1>4, <1>6, <1>7, SeqEqual
<1>9. QED
  BY <1>8 DEF s, t, e

\* The events that wait, as the counters see them.
LEMMA ArrivedForm ==
  /\ arrived = Waiting(used_ring, buffers, returned, used)
  /\ RxInv => InSlots(used_ring, buffers, returned, used)
  BY DEF arrived, Waiting, RxInv, SlotInv, EventInv, InSlots

LEMMA ArrivedFormNext ==
  /\ arrived' = Waiting(used_ring', buffers', returned', used')
  /\ RxInv' => InSlots(used_ring', buffers', returned', used')
  BY DEF arrived, Waiting, RxInv, SlotInv, EventInv, InSlots

\* A step of the driver is a receive, or it changes nothing that is seen.
LEMMA PollReceives ==
  ASSUME RxInv, RxInv', Poll
  PROVE  Queue!MailReceive \/ UNCHANGED <<arrived, polled, lost>>
<1> USE DEF device
<1>1. InSlots(used_ring, buffers, returned, used) /\ returned \in Nat /\ used \in Nat
      /\ returned <= used
  BY ArrivedForm, CounterFacts
<1>2. CASE PollEmpty
  <2>1. used_idx = last_used_idx /\ polled' = NoEvent
        /\ UNCHANGED <<used_ring, buffers, returned, used, lost>>
    BY <1>2 DEF PollEmpty
  <2>2. used = returned
    <3>1. returned % IndexRange = used % IndexRange /\ used <= returned + QUEUE_SIZE
      BY <2>1, CounterFacts DEF RxInv, IndexInv
    <3>2. QED
      BY <1>1, <3>1, IndicesDiffer
  <2>3. arrived = <<>> /\ arrived' = arrived
    BY <1>1, <2>1, <2>2 DEF arrived
  <2>4. QED
    BY <2>1, <2>3 DEF Queue!MailReceive, Queue!Delivered, Queue!Remaining
<1>3. CASE PollUsed \/ ReadEvent \/ Recycle
  BY <1>3 DEF PollUsed, ReadEvent, Recycle, arrived
<1>4. CASE Publish
  <2>1. /\ returned' = returned + 1 /\ polled' = evt
        /\ UNCHANGED <<used_ring, buffers, used, lost>>
    BY <1>4 DEF Publish
  <2>2. returned < used /\ evt = buffers[returned % QUEUE_SIZE]
    BY <1>4 DEF RxInv, SlotInv, EventInv, Publish
  <2>3. arrived # <<>> /\ polled' = Head(arrived) /\ arrived' = Tail(arrived)
    BY <1>1, <2>1, <2>2, ArrivedForm, ArrivedFormNext, WaitingTail
  <2>4. QED
    BY <2>1, <2>3 DEF Queue!MailReceive, Queue!Delivered, Queue!Remaining
<1>5. QED
  BY <1>2, <1>3, <1>4 DEF Poll

\* Deliver sends, Lose sends to a full queue; the other steps of the device change nothing that is seen.
LEMMA DeviceSends ==
  ASSUME RxInv, RxInv', Device
  PROVE  (\E e \in Events : Queue!MailSend(e)) \/ UNCHANGED <<arrived, polled, lost>>
<1> USE DEF driver
<1>1. InSlots(used_ring, buffers, returned, used) /\ returned \in Nat /\ used \in Nat
      /\ returned <= used
  BY ArrivedForm, CounterFacts
<1>2. CASE \E e \in Events : Take(e)
  BY <1>2 DEF Take, arrived
<1>3. ASSUME NEW e \in Events, Lose
      PROVE  Queue!MailSend(e)
  <2>1. lost' = lost + 1 /\ UNCHANGED <<used_ring, buffers, returned, used, polled>>
    BY <1>3 DEF Lose
  <2>2. used - returned = QUEUE_SIZE
    <3>1. lost' # lost
      BY <2>1 DEF RxInv, TypeOK
    <3>2. QED
      BY <1>3, <3>1, LossStep DEF Next, Device, vars, device
  <2>3. Len(arrived) = QUEUE_SIZE
    <3>1. Len(arrived) = used - returned
      BY <1>1, ArrivedForm, WaitingForm
    <3>2. QED
      BY <2>2, <3>1
  <2>4. arrived' = arrived
    BY <2>1 DEF arrived
  <2>5. QED
    BY <2>1, <2>3, <2>4, SizeAssumption
    DEF Queue!MailSend, Queue!Sent, Queue!Dropped
<1>4. CASE Fill
  <2>1. dev_desc = used % QUEUE_SIZE /\ UNCHANGED <<used_ring, returned, used, polled, lost>>
        /\ buffers' = [buffers EXCEPT ![dev_desc] = dev_evt]
    BY <1>4 DEF RxInv, SlotInv, Fill
  <2>2. ASSUME NEW c \in returned..(used - 1)
        PROVE  buffers'[c % QUEUE_SIZE] = buffers[c % QUEUE_SIZE]
    <3>1. c \in Nat /\ c < used /\ used < c + QUEUE_SIZE
      BY <1>4, CounterFacts DEF Fill
    <3>2. c % QUEUE_SIZE # dev_desc /\ c % QUEUE_SIZE \in Buffers
      BY <2>1, <3>1, SlotsDiffer, CounterFacts, Ranges
    <3>3. QED
      BY <2>1, <3>2 DEF RxInv, TypeOK
  <2>3. InSlots(used_ring, buffers', returned, used)
    BY <2>1, ArrivedFormNext
  <2>4. arrived' = arrived
    <3>1. Agree(buffers, buffers', returned, used)
      BY <2>2 DEF Agree
    <3>2. Waiting(used_ring, buffers', returned, used)
            = Waiting(used_ring, buffers, returned, used)
      BY <1>1, <2>3, <3>1, WaitingSame
    <3>3. QED
      BY <2>1, <3>2, ArrivedForm, ArrivedFormNext
  <2>5. QED
    BY <2>1, <2>4
<1>5. CASE Use
  <2>1. UNCHANGED <<buffers, returned, used, polled, lost>>
    BY <1>5 DEF Use
  <2>2. InSlots(used_ring', buffers, returned, used)
    BY <2>1, ArrivedFormNext
  <2>3. Waiting(used_ring', buffers, returned, used) = Waiting(used_ring, buffers, returned, used)
    BY <1>1, <2>2, WaitingSame DEF Agree
  <2>4. arrived' = arrived
    BY <2>1, <2>3, ArrivedForm, ArrivedFormNext
  <2>5. QED
    BY <2>1, <2>4
<1>6. CASE Deliver
  <2>1. used' = used + 1 /\ UNCHANGED <<used_ring, buffers, returned, polled, lost>>
    BY <1>6 DEF Deliver
  <2>2. dev_evt \in Events /\ buffers[used % QUEUE_SIZE] = dev_evt /\ used - returned < QUEUE_SIZE
    BY <1>6, CounterFacts DEF RxInv, EventInv, Deliver
  <2>3. InSlots(used_ring, buffers, returned, used + 1)
    BY <2>1, ArrivedFormNext
  <2>4. arrived' = Append(arrived, dev_evt)
    BY <1>1, <2>1, <2>2, <2>3, ArrivedForm, ArrivedFormNext, WaitingAppend
  <2>5. Len(arrived) = used - returned
    BY <1>1, ArrivedForm, WaitingForm
  <2>6. Queue!MailSend(dev_evt)
    BY <2>1, <2>2, <2>4, <2>5, SizeAssumption, CounterFacts
    DEF Queue!MailSend, Queue!Sent, Queue!Dropped, RxInv, TypeOK
  <2>7. QED
    BY <2>2, <2>6
<1>7. QED
  BY <1>2, <1>3, <1>4, <1>5, <1>6 DEF Device

LEMMA QueueInit == Init => Queue!MailInit
<1> SUFFICES ASSUME Init PROVE arrived = <<>> /\ polled = NoEvent /\ lost = 0
  BY DEF Queue!MailInit
<1>1. QED
  BY DEF Init, arrived

LEMMA QueueStep == RxInv /\ RxInv' /\ [Next]_vars => [Queue!MailNext]_(Queue!mailVars)
<1> SUFFICES ASSUME RxInv, RxInv', [Next]_vars
             PROVE  Queue!MailNext \/ UNCHANGED <<arrived, polled, lost>>
  BY DEF Queue!mailVars
<1>1. CASE UNCHANGED vars
  BY <1>1 DEF vars, driver, device, arrived
<1>2. CASE Poll
  BY <1>2, PollReceives DEF Queue!MailNext
<1>3. CASE Device
  BY <1>3, DeviceSends DEF Queue!MailNext
<1>4. QED
  BY <1>1, <1>2, <1>3 DEF Next

-----------------------------------------------------------------------------
(* Theorems *)

\* Descriptors stay in the queue and indices in their width.
THEOREM TypeCorrect == Spec => []TypeOK
<1>1. RxInv => TypeOK
  BY DEF RxInv
<1>2. QED
  BY <1>1, RxInvariant, PTL

\* No buffer is posted while it is filled, read or with the device already, for
\* queues of every size.
THEOREM BuffersOwned == Spec => []OneOwner
  BY OwnersApart, RxInvariant, PTL

\* The recycling of the two drivers keeps every buffer in circulation.
THEOREM NoBufferLost == Spec => LostOnlyWhenFull
<1>1. Spec => [][lost' # lost => used - returned = QUEUE_SIZE]_vars
  BY RxInvariant, LossStep, PTL DEF Spec
<1>2. QED
  BY <1>1 DEF LostOnlyWhenFull

\* Driver, rings and device together are a bounded queue of events.
THEOREM ImplementsQueue == Spec => QueueSpec
<1>1. QED
  BY QueueInit, QueueStep, RxInvariant, PTL DEF Spec, QueueSpec, Queue!MailSpec
=============================================================================
