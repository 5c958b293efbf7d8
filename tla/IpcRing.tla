------------------------------ MODULE IpcRing ------------------------------
(***************************************************************************)
(* The global IPC mailbox of kernel/syscall.c: an array of IPC_QUEUE_SIZE  *)
(* messages with a head and a tail index.  One slot stays empty, so that   *)
(* head = tail can only mean an empty mailbox.                             *)
(***************************************************************************)
EXTENDS Integers, Sequences

CONSTANTS
  IPC_QUEUE_SIZE,  \* slots of the array (256 in the code)
  Messages,        \* what may be sent
  NoMessage,       \* a buffer of type IPC_MSG_NONE
  MaxDrops         \* bound: messages dropped

ASSUME QueueAssumption == IPC_QUEUE_SIZE \in Nat \ {0, 1}
ASSUME NoMessageAssumption == NoMessage \notin Messages
ASSUME DropsAssumption == MaxDrops \in Nat

VARIABLES ipc_queue, ipc_head, ipc_tail,
          msg,   \* the buffer handed to SYS_IPC_RECV
          drops  \* ghost: messages thrown away by a send

ring == <<ipc_queue, ipc_head, ipc_tail>>
ringVars == <<ring, msg, drops>>

RingSlots == 0..(IPC_QUEUE_SIZE - 1)
NextSlot(i) == (i + 1) % IPC_QUEUE_SIZE

\* The array is in .bss: its slots start zeroed, which is IPC_MSG_NONE.
RingStart ==
  /\ ipc_queue = [i \in RingSlots |-> NoMessage]
  /\ ipc_head = 0 /\ ipc_tail = 0
  /\ msg = NoMessage /\ drops = 0

\* mutant: the head is compared with the slot after the next
FullEarly == NextSlot(NextSlot(ipc_tail)) = ipc_head
Full == NextSlot(ipc_tail) = ipc_head

\* ipc_kernel_send: a message for a full ring is dropped, and nobody is told.
Enqueue(m) ==
  /\ ~Full
  /\ ipc_queue' = [ipc_queue EXCEPT ![ipc_tail] = m]
  /\ ipc_tail' = NextSlot(ipc_tail)
  /\ UNCHANGED <<ipc_head, msg, drops>>

Drop ==
  /\ Full /\ drops < MaxDrops
  /\ drops' = drops + 1
  /\ UNCHANGED <<ring, msg>>

Send(m) == Enqueue(m) \/ Drop

\* SYS_IPC_RECV.
Dequeue ==
  /\ ipc_head # ipc_tail
  /\ msg' = ipc_queue[ipc_head]
  /\ ipc_head' = NextSlot(ipc_head)
  /\ UNCHANGED <<ipc_queue, ipc_tail, drops>>

ReceiveNone ==
  /\ ipc_head = ipc_tail
  /\ msg' = NoMessage
  /\ UNCHANGED <<ring, drops>>

RingNext == (\E m \in Messages : Send(m)) \/ Dequeue \/ ReceiveNone

RingSpec == RingStart /\ [][RingNext]_ringVars

-----------------------------------------------------------------------------
(* Properties *)

\* The messages between index h and index t of an array q, oldest first.
Size(h, t) == (t - h) % IPC_QUEUE_SIZE
Queued(q, h, t) == [i \in 1..Size(h, t) |-> q[(h + i - 1) % IPC_QUEUE_SIZE]]
Contents == Queued(ipc_queue, ipc_head, ipc_tail)

\* Every slot between head and tail holds a message: a receiver never gets the
\* contents of a slot nobody wrote.
RingTypeOK ==
  /\ ipc_queue \in [RingSlots -> Messages \cup {NoMessage}]
  /\ ipc_head \in RingSlots /\ ipc_tail \in RingSlots
  /\ msg \in Messages \cup {NoMessage}
  /\ Contents \in Seq(Messages)
  /\ drops \in 0..MaxDrops

\* The ring is a mailbox of IPC_QUEUE_SIZE - 1 messages: in order, each message
\* delivered once, none overwritten.  A message that disappears is counted, and no
\* step of MailSpec counts one unless Capacity others are queued: while one of
\* these slots is free, the test for a full ring turns nothing away.
Mailbox == INSTANCE BoundedMailbox
  WITH Capacity <- IPC_QUEUE_SIZE - 1, mailbox <- Contents, buffer <- msg
MailboxSpec == Mailbox!MailSpec
=============================================================================
