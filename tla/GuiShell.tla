------------------------------ MODULE GuiShell ------------------------------
(***************************************************************************)
(* The GUI shell (modules/shell_gui/main.c) and the kernel behind its      *)
(* system calls (kernel/syscall.c).  The two take turns on one core with   *)
(* interrupts masked; what runs beside them is the keyboard and the UART,  *)
(* which a user and the host's agent scripts type on at any time.          *)
(*                                                                         *)
(* One step is one poll of a device inside SYS_HW_DRAIN, one of the other  *)
(* system calls, or the shell's own code up to the next system call.       *)
(* Device input is a sequence of characters; NoChar is what a poll reports *)
(* as 0: a key release, a SYN or shift event of the keyboard, a NUL byte   *)
(* of the UART.  It ends the drain loop that meets it.                     *)
(***************************************************************************)
EXTENDS BoundedMailbox, FiniteSets

CONSTANTS
  Printable,    \* characters that extend the command line
  Commands,     \* function: the command lines that do more than print
  CMD_MAX_LEN,  \* size of cmd_buffer (256 in the code)
  MaxTyped      \* bound: characters typed

Requests == {"FS_LIST", "FS_READ", "FS_WRITE", "ATK_EXEC", "WATCHER_DUMP", "WATCHER_SYNC"}
Keys == Printable \cup {"NL", "BS"}
KbdEvents == Keys \cup {"NoChar"}
UartBytes == Keys \cup {"CR", "NoChar"}

\* "fault" is a line whose answer is one of the two string literals that the
\* linker leaves among the kernel's read-only data (lines 430 and 453).
ASSUME CommandAssumption ==
  /\ DOMAIN Commands \subseteq Seq(Printable) \ {<<>>}
  /\ \A line \in DOMAIN Commands : Commands[line] \in Requests \cup {"fault"}
ASSUME CmdMaxAssumption == CMD_MAX_LEN \in Nat \ {0}
ASSUME TypedAssumption == MaxTyped \in Nat
ASSUME CharAssumption == {"NL", "BS", "CR", "NoChar"} \cap Printable = {}

Key(c) == [type |-> "KEY_PRESS", payload |-> c]
Response(r) == [type |-> r, payload |-> "text"]
ASSUME MessageAssumption ==
  /\ NoMessage = [type |-> "NONE", payload |-> "none"]
  /\ Messages = {Key(c) : c \in Keys} \cup {Response(r) : r \in Requests}

VARIABLES
  kbd, uart,  \* what the devices hold, oldest first
  pc,         \* the next system call or step of shell_main
  after,      \* what follows the drain: "recv", or "prompt" after a command
  cmd,        \* cmd_buffer[0 .. cmd_idx - 1]
  request,    \* the type of the last request sent
  typed,      \* ghost: characters typed so far
  lost,       \* ghost: the shell threw a key away, waiting for an answer or
              \*        with a full command line
  hasty       \* ghost: a key was typed behind an unhandled line end, behind
              \*        a mailboxful of keys, while the other device was busy,
              \*        or beyond what the command line holds

shell == <<pc, after, cmd, request>>
vars == <<mailVars, kbd, uart, pc, after, cmd, request, typed, lost, hasty>>

Init ==
  /\ MailInit
  /\ kbd = <<>> /\ uart = <<>>
  /\ pc = "kbd" /\ after = "recv" /\ cmd = <<>> /\ request = "none"
  /\ typed = 0 /\ lost = FALSE /\ hasty = FALSE

-----------------------------------------------------------------------------
(* The outside world *)

KeysIn(q) == {i \in 1..Len(q) : q[i].type = "KEY_PRESS"}
LineEndPending ==
  \/ \E i \in 1..Len(kbd) : kbd[i] = "NL"
  \/ \E i \in 1..Len(uart) : uart[i] \in {"NL", "CR"}
  \/ \E i \in KeysIn(mailbox) : mailbox[i].payload = "NL"
  \/ (pc = "key" /\ buffer.payload = "NL")
Backlog == Len(kbd) + Len(uart) + Len(mailbox)

\* The line that the next letter will extend: a command leaves an empty one.
InCommand ==
  \/ pc \in {"send", "wait", "resp", "hung"}
  \/ after = "prompt" /\ pc \in {"kbd", "uart"}
Line == IF InCommand THEN <<>> ELSE cmd

\* Letters on their way to the line.
Count(q, S) == Cardinality({i \in 1..Len(q) : q[i] \in S})
Letters ==
  Count(kbd, Printable) + Count(uart, Printable) + Count(mailbox, {Key(c) : c \in Printable})
    + (IF pc = "key" /\ buffer.payload \in Printable THEN 1 ELSE 0)
LineFilled == Len(Line) + Letters >= CMD_MAX_LEN - 1

\* Typing on a device while the other one holds characters is hasty as well:
\* the keyboard is drained first, so its line end can overtake.
Typing(c, other) ==
  /\ typed < MaxTyped
  /\ typed' = typed + 1
  /\ hasty' = (\/ hasty \/ LineEndPending \/ Backlog >= Capacity \/ other # <<>>
               \/ c \in Printable /\ LineFilled)
  /\ UNCHANGED <<mailVars, shell, lost>>

TypeKbd ==
  \E c \in KbdEvents : Typing(c, uart) /\ kbd' = Append(kbd, c) /\ UNCHANGED uart
TypeUart ==
  \E c \in UartBytes : Typing(c, kbd) /\ uart' = Append(uart, c) /\ UNCHANGED kbd

-----------------------------------------------------------------------------
(* SYS_HW_DRAIN *)

\* ipc_kernel_send of a key: a full mailbox drops it.
PostKey(c) ==
  /\ mailbox' = Sent(mailbox, Key(c))
  /\ drops' = drops + Dropped(mailbox)

\* One turn of the keyboard loop: it goes on until a poll reports 0.
PollKbd ==
  /\ pc = "kbd"
  /\ \/ /\ kbd # <<>> /\ Head(kbd) # "NoChar"
        /\ PostKey(Head(kbd))
        /\ kbd' = Tail(kbd) /\ UNCHANGED pc
     \/ /\ kbd # <<>> /\ Head(kbd) = "NoChar"
        /\ kbd' = Tail(kbd) /\ pc' = "uart"
        /\ UNCHANGED <<mailbox, drops>>
     \/ /\ kbd = <<>> /\ pc' = "uart"
        /\ UNCHANGED <<mailbox, drops, kbd>>
  /\ UNCHANGED <<buffer, uart, after, cmd, request, typed, lost, hasty>>

\* A carriage return becomes a line end.
Received(c) == IF c = "CR" THEN "NL" ELSE c

\* One turn of the UART loop.
PollUart ==
  /\ pc = "uart"
  /\ uart # <<>> /\ Head(uart) # "NoChar"
  /\ PostKey(Received(Head(uart)))
  /\ uart' = Tail(uart)
  /\ UNCHANGED <<buffer, kbd, shell, typed, lost, hasty>>

\* mutant: a NUL byte is seen but not taken
DrainDoneStuck ==
  /\ pc = "uart" /\ (uart # <<>> => Head(uart) = "NoChar")
  /\ \/ after = "recv" /\ pc' = "recv" /\ UNCHANGED <<after, cmd>>
     \/ after = "prompt" /\ pc' = "kbd" /\ after' = "recv" /\ cmd' = <<>>
  /\ UNCHANGED <<mailVars, kbd, uart, request, typed, lost, hasty>>

\* The end of the drain: back to the main loop, after a command by way of
\* cmd_idx = 0 and the prompt.
DrainDone ==
  /\ pc = "uart"
  /\ \/ uart = <<>> /\ UNCHANGED uart
     \/ uart # <<>> /\ Head(uart) = "NoChar" /\ uart' = Tail(uart)
  /\ \/ after = "recv" /\ pc' = "recv" /\ UNCHANGED <<after, cmd>>
     \/ after = "prompt" /\ pc' = "kbd" /\ after' = "recv" /\ cmd' = <<>>
  /\ UNCHANGED <<mailVars, kbd, request, typed, lost, hasty>>

-----------------------------------------------------------------------------
(* The main loop of shell_main *)

\* ipc_receive: no message, or one that is not a key, sends the loop back to
\* the drain.
Receive ==
  /\ pc = "recv"
  /\ MailReceive
  /\ pc' = IF buffer'.type = "KEY_PRESS" THEN "key" ELSE "kbd"
  /\ UNCHANGED <<kbd, uart, after, cmd, request, typed, lost, hasty>>

EditNoLimit(c) == Append(cmd, c)  \* mutant: no test of the buffer's size
Edit(c) == IF Len(cmd) < CMD_MAX_LEN - 1 THEN Append(cmd, c) ELSE cmd
Erase == IF cmd = <<>> THEN cmd ELSE SubSeq(cmd, 1, Len(cmd) - 1)

\* With a full line the character is thrown away.
EditLine ==
  /\ pc = "key"
  /\ buffer.payload # "NL"
  /\ cmd' = IF buffer.payload = "BS" THEN Erase ELSE Edit(buffer.payload)
  /\ lost' = (lost \/ (buffer.payload # "BS" /\ cmd' = cmd))
  /\ pc' = "kbd"
  /\ UNCHANGED <<mailVars, kbd, uart, after, request, typed, hasty>>

LineEntered == pc = "key" /\ buffer.payload = "NL"

\* An empty line, clear, help, a usage line, an unknown command: nothing but
\* output, and the line is empty again.
LocalCommand ==
  /\ LineEntered
  /\ cmd \notin DOMAIN Commands
  /\ cmd' = <<>> /\ pc' = "kbd"
  /\ UNCHANGED <<mailVars, kbd, uart, after, request, typed, lost, hasty>>

\* The shell reads a literal that EL0 may not read: fatal_exception_handler.
FaultingCommand ==
  /\ LineEntered
  /\ cmd \in DOMAIN Commands /\ Commands[cmd] = "fault"
  /\ pc' = "halted"
  /\ UNCHANGED <<mailVars, kbd, uart, after, cmd, request, typed, lost, hasty>>

KernelCommand ==
  /\ LineEntered
  /\ cmd \in DOMAIN Commands /\ Commands[cmd] \in Requests
  /\ request' = Commands[cmd]
  /\ pc' = "send"
  /\ UNCHANGED <<mailVars, kbd, uart, after, cmd, typed, lost, hasty>>

-----------------------------------------------------------------------------
(* SYS_IPC_SEND to the kernel, and the wait for the answer *)

ServeSilent == mailbox  \* mutant: a branch of the handler without its answer
\* Every branch of the handler ends with ipc_kernel_send of its answer.
Serve == Sent(mailbox, Response(request))

SendRequest ==
  /\ pc = "send"
  /\ mailbox' = Serve
  /\ drops' = drops + Dropped(mailbox)
  /\ pc' = "wait"
  /\ UNCHANGED <<buffer, kbd, uart, after, cmd, request, typed, lost, hasty>>

\* autarky_execute does not come back for every program.
ProgramDiverges ==
  /\ pc = "send" /\ request = "ATK_EXEC"
  /\ pc' = "hung"
  /\ UNCHANGED <<mailVars, kbd, uart, after, cmd, request, typed, lost, hasty>>

\* mutant: the polling loop drains the UART as well
WaitReceiveDrains ==
  /\ pc = "wait"
  /\ \/ /\ uart # <<>> /\ PostKey(Received(Head(uart)))
        /\ uart' = Tail(uart) /\ UNCHANGED <<buffer, pc>>
     \/ MailReceive /\ pc' = "resp" /\ UNCHANGED uart
  /\ UNCHANGED <<kbd, after, cmd, request, typed, lost, hasty>>

WaitReceive ==
  /\ pc = "wait"
  /\ MailReceive
  /\ pc' = "resp"
  /\ UNCHANGED <<kbd, uart, after, cmd, request, typed, lost, hasty>>

IsAnswer == buffer.type = request

\* Whatever is not the answer is thrown away, keys included.
NotTheAnswer ==
  /\ pc = "resp"
  /\ ~IsAnswer
  /\ lost' = (lost \/ buffer.type = "KEY_PRESS")
  /\ pc' = "wait"
  /\ UNCHANGED <<mailVars, kbd, uart, after, cmd, request, typed, hasty>>

\* mutant: the loop ends with the first message
TheAnswerAny == pc = "resp"
TheAnswer == pc = "resp" /\ IsAnswer

Answered ==
  /\ TheAnswer
  /\ pc' = "kbd" /\ after' = "prompt"
  /\ UNCHANGED <<mailVars, kbd, uart, cmd, request, typed, lost, hasty>>

ShellStep ==
  \/ PollKbd \/ PollUart \/ DrainDone
  \/ Receive \/ EditLine
  \/ LocalCommand \/ FaultingCommand \/ KernelCommand
  \/ SendRequest \/ ProgramDiverges
  \/ WaitReceive \/ NotTheAnswer \/ Answered

Next == TypeKbd \/ TypeUart \/ ShellStep

Spec == Init /\ [][Next]_vars

\* The core runs nothing but the shell and the kernel.
FairSpec == Spec /\ WF_vars(ShellStep)

-----------------------------------------------------------------------------
(* Properties *)

TypeOK ==
  /\ mailbox \in Seq(Messages) /\ Len(mailbox) <= Capacity
  /\ buffer \in Messages \cup {NoMessage}
  /\ kbd \in Seq(KbdEvents) /\ uart \in Seq(UartBytes)
  /\ pc \in {"kbd", "uart", "recv", "key", "send", "wait", "resp", "halted", "hung"}
  /\ after \in {"recv", "prompt"}
  /\ cmd \in Seq(Printable) /\ Len(cmd) <= CMD_MAX_LEN - 1
  /\ request \in Requests \cup {"none"}
  /\ typed \in 0..MaxTyped
  /\ drops \in Nat /\ lost \in BOOLEAN /\ hasty \in BOOLEAN

\* The places of a queue that hold an answer.
Answers(q) == {i \in 1..Len(q) : q[i].type # "KEY_PRESS"}
Awaiting == pc = "wait" \/ (pc = "resp" /\ ~IsAnswer)

\* While the shell polls for the answer to its request, the mailbox holds
\* exactly one answer, its own, behind whatever keys were typed ahead; at any
\* other time it holds none.  An answer lost to a full mailbox would leave the
\* shell polling for ever, one left over would be taken for that of a later
\* request.  The room for it is the slot of the line end just taken.
AnswerQueued ==
  IF Awaiting
  THEN /\ mailbox # <<>>
       /\ Answers(mailbox) = {Len(mailbox)}
       /\ mailbox[Len(mailbox)].type = request
  ELSE Answers(mailbox) = {}

\* Every request is answered: the shell leaves its polling loop.
AnswerArrives == (pc = "wait") ~> (pc \notin {"wait", "resp"})

\* What is typed leaves the devices, whatever ends the drain loops early,
\* unless the machine has stopped.
Stopped == pc \in {"halted", "hung"}
InputDrained ==
  /\ (kbd # <<>>) ~> (kbd = <<>> \/ Stopped)
  /\ (uart # <<>>) ~> (uart = <<>> \/ Stopped)

\* Typists who take turns, go on only when the line end has been taken up, are
\* never a mailboxful ahead and never type more than a line holds lose no key,
\* even while a command runs: none is dropped by the mailbox, thrown away in the
\* wait for an answer, or refused by the command line.
NothingLostIfPatient == drops > 0 \/ lost => hasty

\* What keeps AnswerQueued true: a slot is free from the taking of a message
\* until the request is served, and the answer awaited is that of a request.
AnswerInv ==
  /\ TypeOK
  /\ AnswerQueued
  /\ pc \in {"key", "send"} => Len(mailbox) < Capacity
  /\ pc = "key" => buffer.type = "KEY_PRESS"
  /\ pc \in {"send", "wait", "resp"} => request \in Requests

\* What keeps NothingLostIfPatient true, as long as nothing hasty was typed.  A
\* line end is the last of what is under way, from the device to the shell; so
\* a request is served with an empty mailbox, and what is typed meanwhile waits
\* in a device, never more than the mailbox and the next line will take.
LineEndLast ==
  /\ \A i \in 1..Len(kbd) : kbd[i] = "NL" => i = Len(kbd)
  /\ \A i \in 1..Len(uart) : uart[i] \in {"NL", "CR"} => i = Len(uart)
  /\ \A i \in KeysIn(mailbox) :
       mailbox[i].payload = "NL" => i = Len(mailbox) /\ kbd = <<>> /\ uart = <<>>
  /\ pc = "key" /\ buffer.payload = "NL" => mailbox = <<>> /\ kbd = <<>> /\ uart = <<>>
Uncrowded ==
  /\ kbd = <<>> \/ uart = <<>>
  /\ pc = "send" => mailbox = <<>>
  /\ pc = "wait" => Len(mailbox) = 1
  /\ pc = "resp" => IsAnswer /\ mailbox = <<>>
  /\ IF pc = "wait" THEN Len(kbd) + Len(uart) <= Capacity ELSE Backlog <= Capacity
WithinLine == Len(Line) + Letters <= CMD_MAX_LEN - 1
PatientInv ==
  /\ AnswerInv
  /\ ~hasty => drops = 0 /\ ~lost /\ LineEndLast /\ Uncrowded /\ WithinLine
=============================================================================
