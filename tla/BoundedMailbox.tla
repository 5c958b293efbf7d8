--------------------------- MODULE BoundedMailbox ---------------------------
(***************************************************************************)
(* What the kernel mailbox promises to its users: a queue of at most       *)
(* Capacity messages.  A message sent to a full mailbox disappears without *)
(* a word to the sender; what is queued is delivered in order.  The count  *)
(* of the messages that disappeared makes a loss visible: no step loses a  *)
(* message while there is room.                                            *)
(***************************************************************************)
EXTENDS Integers, Sequences

CONSTANTS
  Capacity,   \* messages the mailbox holds
  Messages,   \* what may be sent
  NoMessage   \* what a receiver finds in its buffer when nothing is queued

ASSUME CapacityAssumption == Capacity \in Nat \ {0}
ASSUME NoMessageAssumption == NoMessage \notin Messages

VARIABLES
  mailbox,    \* the messages queued, oldest first
  buffer,     \* the buffer of the last receiver
  drops       \* ghost: messages that found the mailbox full

mailVars == <<mailbox, buffer, drops>>

\* The queue after a send, the messages a send drops, and the message a receive
\* delivers.
Sent(q, m) == IF Len(q) < Capacity THEN Append(q, m) ELSE q
Dropped(q) == IF Len(q) < Capacity THEN 0 ELSE 1
Delivered(q) == IF q = <<>> THEN NoMessage ELSE Head(q)
Remaining(q) == IF q = <<>> THEN q ELSE Tail(q)

MailInit == mailbox = <<>> /\ buffer = NoMessage /\ drops = 0

MailSend(m) ==
  /\ mailbox' = Sent(mailbox, m)
  /\ drops' = drops + Dropped(mailbox)
  /\ UNCHANGED buffer

MailReceive ==
  /\ buffer' = Delivered(mailbox)
  /\ mailbox' = Remaining(mailbox)
  /\ UNCHANGED drops

MailNext == (\E m \in Messages : MailSend(m)) \/ MailReceive

MailSpec == MailInit /\ [][MailNext]_mailVars
=============================================================================
