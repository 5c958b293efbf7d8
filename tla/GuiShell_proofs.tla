-------------------------- MODULE GuiShell_proofs --------------------------
(* Proofs about GuiShell, for every capacity of the mailbox, every length of *)
(* the command line and every set of commands.                               *)
EXTENDS GuiShell, SequenceTheorems, FunctionTheorems, FiniteSetTheorems, TLAPS

-----------------------------------------------------------------------------
(* Messages and queues *)

\* The messages of the mailbox are keys and answers, told apart by their type.
LEMMA MessageForm ==
  ASSUME NEW m \in Messages
  PROVE  /\ m.type \in Requests \cup {"KEY_PRESS"}
         /\ m.type = "KEY_PRESS" => m.payload \in Keys
  BY MessageAssumption DEF Key, Response, Requests

LEMMA KeyIsMessage ==
  ASSUME NEW c \in Keys
  PROVE  Key(c) \in Messages /\ Key(c).type = "KEY_PRESS" /\ Key(c).payload = c
  BY MessageAssumption DEF Key

LEMMA ResponseIsMessage ==
  ASSUME NEW r \in Requests
  PROVE  /\ Response(r) \in Messages
         /\ Response(r).type = r
         /\ r # "KEY_PRESS"
  BY MessageAssumption DEF Response, Requests

LEMMA NoMessageForm == NoMessage.type \notin Requests \cup {"KEY_PRESS"}
  BY MessageAssumption DEF Requests

LEMMA AnswersAppend ==
  ASSUME NEW q \in Seq(Messages), NEW m \in Messages
  PROVE  Answers(Append(q, m)) =
           IF m.type = "KEY_PRESS" THEN Answers(q) ELSE Answers(q) \cup {Len(q) + 1}
  <1> DEFINE s == Append(q, m)
  <1>1. /\ s \in Seq(Messages) /\ Len(s) = Len(q) + 1
        /\ \A i \in 1..Len(q) : s[i] = q[i]
        /\ s[Len(q) + 1] = m
    BY AppendProperties
  <1>2. Len(q) \in Nat
    BY LenProperties
  <1> HIDE DEF s
  <1>3. Answers(s) =
          IF m.type = "KEY_PRESS" THEN Answers(q) ELSE Answers(q) \cup {Len(q) + 1}
    BY <1>1, <1>2 DEF Answers
  <1> QED
    BY <1>3 DEF s

LEMMA AnswersTail ==
  ASSUME NEW q \in Seq(Messages), q # <<>>
  PROVE  /\ Tail(q) \in Seq(Messages)
         /\ Len(Tail(q)) = Len(q) - 1 /\ Len(q) \in Nat \ {0}
         /\ Head(q) = q[1] /\ Head(q) \in Messages
         /\ \A i \in 1..Len(Tail(q)) : Tail(q)[i] = q[i + 1]
         /\ \A i : i \in Answers(Tail(q)) <=>
                   i \in 1..(Len(q) - 1) /\ i + 1 \in Answers(q)
  <1> DEFINE t == Tail(q)
  <1>1. /\ Head(q) \in Messages /\ t \in Seq(Messages)
        /\ Len(t) = Len(q) - 1
        /\ \A i \in 1..Len(t) : t[i] = q[i + 1]
    BY HeadTailProperties
  <1>2. Len(q) \in Nat \ {0} /\ Head(q) = q[1]
    BY LenProperties, EmptySeq, HeadTailProperties
  <1> HIDE DEF t
  <1>3. \A i : i \in Answers(t) <=> i \in 1..(Len(q) - 1) /\ i + 1 \in Answers(q)
    BY <1>1, <1>2 DEF Answers
  <1> QED
    BY <1>1, <1>2, <1>3 DEF t

LEMMA EmptyQueue ==
  ASSUME NEW S
  PROVE  <<>> \in Seq(S) /\ Len(<<>>) = 0
  BY EmptySeq

LEMMA EmptyLine == <<>> \in Seq(Printable) /\ Len(<<>>) <= CMD_MAX_LEN - 1
  <1>1. <<>> \in Seq(Printable) /\ Len(<<>>) = 0
    BY EmptyQueue
  <1> QED
    BY <1>1, CmdMaxAssumption

LEMMA AnswersEmpty == Answers(<<>>) = {}
  BY DEF Answers

LEMMA SentFacts ==
  ASSUME NEW q \in Seq(Messages), Len(q) <= Capacity, NEW m \in Messages
  PROVE  /\ Sent(q, m) \in Seq(Messages) /\ Len(Sent(q, m)) <= Capacity
         /\ m.type = "KEY_PRESS" => Answers(Sent(q, m)) = Answers(q)
         /\ Len(q) < Capacity => Sent(q, m) = Append(q, m)
  <1>1. /\ Append(q, m) \in Seq(Messages) /\ Len(Append(q, m)) = Len(q) + 1
        /\ Len(q) \in Nat
    BY AppendProperties, LenProperties
  <1>2. CASE Len(q) < Capacity
    BY <1>1, <1>2, AnswersAppend, CapacityAssumption DEF Sent
  <1>3. CASE ~(Len(q) < Capacity)
    BY <1>3 DEF Sent
  <1> QED
    BY <1>2, <1>3

\* A device that is polled keeps holding characters.
LEMMA DeviceTail ==
  ASSUME NEW S, NEW q \in Seq(S), q # <<>>
  PROVE  Head(q) \in S /\ Tail(q) \in Seq(S)
  BY HeadTailProperties

-----------------------------------------------------------------------------
(* Counting the elements of a queue *)

Places(q, S) == {i \in 1..Len(q) : q[i] \in S}

LEMMA PlacesFinite ==
  ASSUME NEW T, NEW q \in Seq(T), NEW S
  PROVE  IsFiniteSet(Places(q, S)) /\ Count(q, S) = Cardinality(Places(q, S)) /\ Count(q, S) \in Nat
  <1>1. IsFiniteSet(1..Len(q))
    BY LenProperties, FS_Interval
  <1>2. IsFiniteSet(Places(q, S))
    BY <1>1, FS_Subset DEF Places
  <1> QED
    BY <1>2, FS_CardinalityType DEF Count, Places

LEMMA CountEmpty == \A S : Count(<<>>, S) = 0
  <1> SUFFICES ASSUME NEW S PROVE Count(<<>>, S) = 0
    OBVIOUS
  <1>1. {i \in 1..Len(<<>>) : <<>>[i] \in S} = {}
    OBVIOUS
  <1> QED
    BY <1>1, FS_EmptySet DEF Count

LEMMA CountAppend ==
  ASSUME NEW T, NEW q \in Seq(T), NEW c \in T, NEW S
  PROVE  Count(Append(q, c), S) = Count(q, S) + (IF c \in S THEN 1 ELSE 0)
  <1> DEFINE s == Append(q, c)
             n == Len(q)
  <1>1. /\ s \in Seq(T) /\ Len(s) = n + 1 /\ n \in Nat
        /\ \A i \in 1..n : s[i] = q[i]
        /\ s[n + 1] = c
    BY AppendProperties, LenProperties
  <1>2. n + 1 \notin Places(q, S) /\ IsFiniteSet(Places(q, S))
    <2>1. n + 1 \notin 1..n
      BY <1>1
    <2> QED
      BY <2>1, PlacesFinite DEF Places
  <1> HIDE DEF s, n
  <1>3. Places(s, S) = IF c \in S THEN Places(q, S) \cup {n + 1} ELSE Places(q, S)
    BY <1>1 DEF Places, n
  <1>4. Cardinality(Places(q, S) \cup {n + 1}) = Cardinality(Places(q, S)) + 1
    BY <1>2, FS_AddElement
  <1>5. /\ Count(s, S) = Cardinality(Places(s, S)) /\ Count(q, S) = Cardinality(Places(q, S))
        /\ Count(q, S) \in Nat
    BY <1>1, PlacesFinite
  <1>6. Count(s, S) = Count(q, S) + (IF c \in S THEN 1 ELSE 0)
    BY <1>3, <1>4, <1>5
  <1> QED
    BY <1>6 DEF s

LEMMA CountTail ==
  ASSUME NEW T, NEW q \in Seq(T), q # <<>>, NEW S
  PROVE  Count(q, S) = Count(Tail(q), S) + (IF Head(q) \in S THEN 1 ELSE 0)
  <1> DEFINE t == Tail(q)
             n == Len(t)
             P == Places(t, S)
             later == {i \in 2..(n + 1) : q[i] \in S}
             f == [i \in P |-> i + 1]
  <1>1. /\ t \in Seq(T) /\ n \in Nat /\ Len(q) = n + 1 /\ Head(q) = q[1]
        /\ \A i \in 1..n : t[i] = q[i + 1]
    <2>1. Len(q) \in Nat \ {0} /\ Head(q) = q[1]
      BY LenProperties, EmptySeq, HeadTailProperties
    <2>2. t \in Seq(T) /\ Len(t) = Len(q) - 1 /\ \A i \in 1..Len(t) : t[i] = q[i + 1]
      BY HeadTailProperties
    <2> QED
      BY <2>1, <2>2
  <1> HIDE DEF t, n
  <1>2. f \in Bijection(P, later)
    <2>1. \A i \in P : i \in 1..n /\ i + 1 \in later
      BY <1>1 DEF Places, n
    <2>2. f \in [P -> later]
      BY <2>1
    <2>3. \A i, j \in P : f[i] = f[j] => i = j
      BY <2>1
    <2>4. \A k \in later : \E i \in P : f[i] = k
      <3> SUFFICES ASSUME NEW k \in later PROVE \E i \in P : f[i] = k
        OBVIOUS
      <3>1. k - 1 \in 1..n /\ (k - 1) + 1 = k /\ q[k] \in S
        BY <1>1
      <3>2. k - 1 \in P
        BY <1>1, <3>1 DEF Places, n
      <3> QED
        BY <3>1, <3>2
    <2> QED
      BY <2>2, <2>3, <2>4, Fun_IsBij
  <1>3. IsFiniteSet(P) /\ Count(t, S) = Cardinality(P) /\ Count(t, S) \in Nat
    BY <1>1, PlacesFinite
  <1>4. IsFiniteSet(later) /\ Cardinality(later) = Cardinality(P)
    <2>1. ExistsBijection(P, later)
      BY <1>2 DEF ExistsBijection
    <2> HIDE DEF P, later
    <2> QED
      BY <1>3, <2>1, FS_Bijection
  <1>5. Places(q, S) = IF Head(q) \in S THEN later \cup {1} ELSE later
    BY <1>1 DEF Places
  <1>6. Cardinality(later \cup {1}) = Cardinality(later) + 1
    <2>1. 1 \notin later
      BY <1>1
    <2> HIDE DEF later
    <2> QED
      BY <1>4, <2>1, FS_AddElement
  <1>7. Count(q, S) = Cardinality(Places(q, S))
    BY PlacesFinite
  <1>8. Count(q, S) = Count(t, S) + (IF Head(q) \in S THEN 1 ELSE 0)
    BY <1>3, <1>4, <1>5, <1>6, <1>7
  <1> QED
    BY <1>8 DEF t

-----------------------------------------------------------------------------
(* The invariant *)

\* What PostKey does to the parts of the invariant that speak of the mailbox.
LEMMA PostKeyFacts ==
  ASSUME AnswerInv, NEW c \in Keys, PostKey(c)
  PROVE  /\ mailbox' \in Seq(Messages) /\ Len(mailbox') <= Capacity
         /\ drops' \in Nat
         /\ Answers(mailbox') = Answers(mailbox)
  BY KeyIsMessage, SentFacts DEF AnswerInv, TypeOK, PostKey, Dropped

\* ipc_receive takes the first message, or reports that there is none.
LEMMA ReceiveFacts ==
  ASSUME AnswerInv, MailReceive
  PROVE  /\ mailbox' \in Seq(Messages) /\ Len(mailbox') <= Capacity
         /\ buffer' \in Messages \cup {NoMessage} /\ drops' \in Nat
         /\ mailbox = <<>> => buffer' = NoMessage /\ mailbox' = <<>>
         /\ mailbox # <<>> =>
              /\ buffer' = mailbox[1]
              /\ Len(mailbox') = Len(mailbox) - 1
              /\ Len(mailbox) \in Nat \ {0}
              /\ \A i \in 1..Len(mailbox') : mailbox'[i] = mailbox[i + 1]
              /\ \A i : i \in Answers(mailbox') <=>
                        i \in 1..(Len(mailbox) - 1) /\ i + 1 \in Answers(mailbox)
  <1>1. mailbox \in Seq(Messages) /\ Len(mailbox) <= Capacity /\ drops' \in Nat
    BY DEF AnswerInv, TypeOK, MailReceive
  <1>2. CASE mailbox = <<>>
    BY <1>1, <1>2 DEF MailReceive, Delivered, Remaining
  <1>3. CASE mailbox # <<>>
    <2>1. buffer' = Head(mailbox) /\ mailbox' = Tail(mailbox)
      BY <1>3 DEF MailReceive, Delivered, Remaining
    <2> QED
      BY <1>1, <1>3, <2>1, AnswersTail, CapacityAssumption
  <1> QED
    BY <1>2, <1>3

\* At start-up the shell waits for nothing and no answer is in the mailbox.
THEOREM AnswerInit == Init => AnswerInv
  <1> SUFFICES ASSUME Init PROVE AnswerInv
    OBVIOUS
  <1>1. TypeOK
    <2>1. Len(<<>>) <= Capacity /\ Len(<<>>) <= CMD_MAX_LEN - 1 /\ 0 \in 0..MaxTyped
      BY EmptyQueue, CapacityAssumption, CmdMaxAssumption, TypedAssumption
    <2> QED
      BY <2>1, EmptyQueue DEF Init, MailInit, TypeOK
  <1>2. Answers(mailbox) = {} /\ ~Awaiting
    BY AnswersEmpty DEF Init, MailInit, Awaiting
  <1> QED
    BY <1>1, <1>2 DEF AnswerInv, AnswerQueued, Init

\* A key typed touches the devices and the ghosts only.
LEMMA TypingKeeps ==
  ASSUME AnswerInv, TypeKbd \/ TypeUart
  PROVE  AnswerInv'
  <1> USE DEF AnswerInv
  <1>1. typed' \in 0..MaxTyped /\ hasty' \in BOOLEAN
    <2>1. typed < MaxTyped /\ typed' = typed + 1 /\ hasty' \in BOOLEAN
      BY DEF TypeOK, TypeKbd, TypeUart, Typing
    <2> QED
      BY <2>1, TypedAssumption DEF TypeOK
  <1>2. kbd' \in Seq(KbdEvents) /\ uart' \in Seq(UartBytes)
    <2>1. kbd \in Seq(KbdEvents) /\ uart \in Seq(UartBytes)
      BY DEF TypeOK
    <2>2. CASE TypeKbd
      <3>1. PICK c \in KbdEvents : kbd' = Append(kbd, c) /\ uart' = uart
        BY <2>2 DEF TypeKbd
      <3> QED
        BY <2>1, <3>1, AppendProperties
    <2>3. CASE TypeUart
      <3>1. PICK c \in UartBytes : uart' = Append(uart, c) /\ kbd' = kbd
        BY <2>3 DEF TypeUart
      <3> QED
        BY <2>1, <3>1, AppendProperties
    <2> QED
      BY <2>2, <2>3
  <1>3. UNCHANGED <<mailbox, buffer, drops, shell, lost>>
    BY DEF TypeKbd, TypeUart, Typing, mailVars
  <1>4. TypeOK'
    BY <1>1, <1>2, <1>3 DEF TypeOK, shell
  <1>5. AnswerQueued'
    BY <1>3 DEF AnswerQueued, Awaiting, IsAnswer, Answers, shell
  <1> QED
    BY <1>3, <1>4, <1>5 DEF shell

\* The drain posts keys while no answer is awaited.
LEMMA DrainKeeps ==
  ASSUME AnswerInv, PollKbd \/ PollUart \/ DrainDone
  PROVE  AnswerInv'
  <1>1. Answers(mailbox) = {} /\ pc \in {"kbd", "uart"}
    BY DEF AnswerInv, AnswerQueued, Awaiting, PollKbd, PollUart, DrainDone
  <1>2. SUFFICES /\ TypeOK'
                 /\ Answers(mailbox') = {}
                 /\ pc' \in {"kbd", "uart", "recv"}
    BY <1>2 DEF AnswerInv, AnswerQueued, Awaiting
  <1>3. CASE PollKbd
    <2>1. CASE kbd # <<>> /\ Head(kbd) # "NoChar"
      <3>1. Head(kbd) \in Keys /\ Tail(kbd) \in Seq(KbdEvents)
        BY <2>1, DeviceTail DEF AnswerInv, TypeOK, KbdEvents
      <3>2. PostKey(Head(kbd)) /\ kbd' = Tail(kbd) /\ pc' = pc
            /\ UNCHANGED <<buffer, uart, after, cmd, request, typed, lost, hasty>>
        BY <1>3, <2>1 DEF PollKbd
      <3> QED
        BY <1>1, <3>1, <3>2, PostKeyFacts DEF AnswerInv, TypeOK
    <2>2. CASE ~(kbd # <<>> /\ Head(kbd) # "NoChar")
      <3>1. kbd' \in Seq(KbdEvents) /\ pc' = "uart"
            /\ UNCHANGED <<mailbox, drops, lost, buffer, uart, after, cmd, request, typed, hasty>>
        BY <1>3, <2>2, DeviceTail DEF PollKbd, AnswerInv, TypeOK
      <3> QED
        BY <1>1, <3>1 DEF AnswerInv, TypeOK
    <2> QED
      BY <2>1, <2>2
  <1>4. CASE PollUart
    <2>1. Head(uart) \in UartBytes \ {"NoChar"} /\ Tail(uart) \in Seq(UartBytes)
      BY <1>4, DeviceTail DEF AnswerInv, TypeOK, PollUart
    <2>2. Received(Head(uart)) \in Keys
      BY <2>1 DEF Received, UartBytes, Keys
    <2>3. PostKey(Received(Head(uart))) /\ uart' = Tail(uart)
          /\ UNCHANGED <<buffer, kbd, shell, typed, lost, hasty>>
      BY <1>4 DEF PollUart
    <2> QED
      BY <1>1, <2>1, <2>2, <2>3, PostKeyFacts DEF AnswerInv, TypeOK, shell
  <1>5. CASE DrainDone
    <2>1. uart' \in Seq(UartBytes)
      BY <1>5, DeviceTail DEF DrainDone, AnswerInv, TypeOK
    <2>2. pc' \in {"recv", "kbd"} /\ after' \in {"recv", "prompt"} /\ cmd' \in {cmd, <<>>}
          /\ UNCHANGED <<mailbox, buffer, drops, kbd, request, typed, lost, hasty>>
      BY <1>5 DEF DrainDone, mailVars, AnswerInv, TypeOK
    <2>3. cmd' \in Seq(Printable) /\ Len(cmd') <= CMD_MAX_LEN - 1
      <3>1. cmd \in Seq(Printable) /\ Len(cmd) <= CMD_MAX_LEN - 1
        BY DEF AnswerInv, TypeOK
      <3>2. cmd' = cmd \/ cmd' = <<>>
        BY <2>2
      <3> QED
        BY <3>1, <3>2, EmptyLine
    <2> QED
      BY <1>1, <2>1, <2>2, <2>3 DEF AnswerInv, TypeOK
  <1> QED
    BY <1>3, <1>4, <1>5

\* Taking a message in the main loop frees its slot.
LEMMA ReceiveKeeps ==
  ASSUME AnswerInv, Receive
  PROVE  AnswerInv'
  <1>1. pc = "recv" /\ MailReceive /\ Answers(mailbox) = {}
    BY DEF Receive, AnswerInv, AnswerQueued, Awaiting
  <1>2. Answers(mailbox') = {}
    BY <1>1, ReceiveFacts, AnswersEmpty
  <1>3. buffer'.type = "KEY_PRESS" => Len(mailbox') < Capacity
    <2> SUFFICES ASSUME buffer'.type = "KEY_PRESS" PROVE Len(mailbox') < Capacity
      OBVIOUS
    <2>1. mailbox # <<>>
      BY <1>1, ReceiveFacts, NoMessageForm
    <2>2. Len(mailbox') = Len(mailbox) - 1 /\ Len(mailbox) \in Nat
      BY <1>1, <2>1, ReceiveFacts
    <2>3. Len(mailbox) <= Capacity
      BY DEF AnswerInv, TypeOK
    <2> QED
      BY <2>2, <2>3, CapacityAssumption
  <1>4. pc' = IF buffer'.type = "KEY_PRESS" THEN "key" ELSE "kbd"
    BY DEF Receive
  <1>5. TypeOK'
    BY <1>1, <1>4, ReceiveFacts DEF AnswerInv, TypeOK, Receive
  <1> QED
    BY <1>2, <1>3, <1>4, <1>5 DEF AnswerInv, AnswerQueued, Awaiting

\* Handling a key leaves the mailbox alone.
LEMMA KeyKeeps ==
  ASSUME AnswerInv, EditLine \/ LocalCommand \/ FaultingCommand \/ KernelCommand
  PROVE  AnswerInv'
  <1>1. pc = "key" /\ buffer.type = "KEY_PRESS" /\ Answers(mailbox) = {}
        /\ Len(mailbox) < Capacity
    BY DEF AnswerInv, AnswerQueued, Awaiting, EditLine, LocalCommand,
           FaultingCommand, KernelCommand, LineEntered
  <1>2. UNCHANGED <<mailbox, buffer, drops, kbd, uart, after, typed, hasty>> /\ lost' \in BOOLEAN
    BY DEF EditLine, LocalCommand, FaultingCommand, KernelCommand, mailVars, AnswerInv, TypeOK
  <1>3. pc' \in {"kbd", "halted", "send"}
    BY DEF EditLine, LocalCommand, FaultingCommand, KernelCommand
  <1>4. request' \in Requests \cup {"none"} /\ (pc' = "send" => request' \in Requests)
    BY DEF EditLine, LocalCommand, FaultingCommand, KernelCommand, AnswerInv, TypeOK
  <1>5. cmd' \in Seq(Printable) /\ Len(cmd') <= CMD_MAX_LEN - 1
    <2>1. CASE EditLine
      <3>1. buffer.payload \in Keys \ {"NL"} /\ cmd \in Seq(Printable)
            /\ Len(cmd) \in Nat /\ Len(cmd) <= CMD_MAX_LEN - 1
        BY <1>1, <2>1, MessageForm, NoMessageForm, LenProperties
        DEF EditLine, AnswerInv, TypeOK
      <3>2. CASE buffer.payload = "BS" /\ cmd # <<>>
        <4>1. Len(cmd) \in Nat \ {0}
          BY <3>1, <3>2, EmptySeq
        <4>2. /\ SubSeq(cmd, 1, Len(cmd) - 1) \in Seq(Printable)
              /\ Len(SubSeq(cmd, 1, Len(cmd) - 1)) = Len(cmd) - 1
          <5>1. \A i \in 1..(Len(cmd) - 1) : cmd[i] \in Printable
            BY <3>1, <4>1, LenProperties
          <5>2. Len(cmd) - 1 \in Int /\ 1 \in Int
            BY <4>1
          <5> DEFINE n == Len(cmd) - 1
          <5> HIDE DEF n
          <5>3. SubSeq(cmd, 1, n) \in Seq(Printable)
                /\ Len(SubSeq(cmd, 1, n)) = IF 1 <= n THEN n - 1 + 1 ELSE 0
            BY <5>1, <5>2, SubSeqProperties DEF n
          <5> QED
            <6>1. n \in Nat
              BY <4>1 DEF n
            <6>2. SubSeq(cmd, 1, n) \in Seq(Printable) /\ Len(SubSeq(cmd, 1, n)) = n
              BY <5>3, <6>1
            <6> QED
              BY <6>2 DEF n
        <4>3. cmd' = SubSeq(cmd, 1, Len(cmd) - 1)
          BY <2>1, <3>2 DEF EditLine, Erase
        <4> QED
          BY <3>1, <4>2, <4>3, CmdMaxAssumption
      <3>3. CASE buffer.payload = "BS" /\ cmd = <<>>
        BY <2>1, <3>1, <3>3 DEF EditLine, Erase
      <3>4. CASE buffer.payload # "BS"
        <4>1. buffer.payload \in Printable
          BY <3>1, <3>4 DEF Keys
        <4>2. /\ Append(cmd, buffer.payload) \in Seq(Printable)
              /\ Len(Append(cmd, buffer.payload)) = Len(cmd) + 1
          BY <3>1, <4>1, AppendProperties
        <4> QED
          BY <2>1, <3>1, <3>4, <4>2, CmdMaxAssumption DEF EditLine, Edit
      <3> QED
        BY <3>2, <3>3, <3>4
    <2>2. CASE ~EditLine
      <3>1. cmd' \in {cmd, <<>>}
        BY <2>2 DEF LocalCommand, FaultingCommand, KernelCommand
      <3> QED
        BY <3>1, EmptyLine DEF AnswerInv, TypeOK
    <2> QED
      BY <2>1, <2>2
  <1>6. TypeOK'
    BY <1>2, <1>3, <1>4, <1>5 DEF AnswerInv, TypeOK
  <1> QED
    BY <1>1, <1>2, <1>3, <1>4, <1>6 DEF AnswerInv, AnswerQueued, Awaiting

\* The request is served with a slot free: its answer becomes the last message.
LEMMA SendKeeps ==
  ASSUME AnswerInv, SendRequest \/ ProgramDiverges
  PROVE  AnswerInv'
  <1>1. pc = "send" /\ request \in Requests /\ Answers(mailbox) = {}
        /\ mailbox \in Seq(Messages) /\ Len(mailbox) < Capacity /\ Len(mailbox) \in Nat
    BY LenProperties
    DEF AnswerInv, TypeOK, AnswerQueued, Awaiting, SendRequest, ProgramDiverges
  <1>2. CASE SendRequest
    <2> DEFINE m == Response(request)
    <2>1. m \in Messages /\ m.type = request /\ request # "KEY_PRESS"
      BY <1>1, ResponseIsMessage
    <2> HIDE DEF m
    <2>2. mailbox' = Append(mailbox, m)
      <3>1. Sent(mailbox, m) = Append(mailbox, m)
        BY <1>1, <2>1, SentFacts, CapacityAssumption
      <3> QED
        BY <1>2, <3>1 DEF SendRequest, Serve, m
    <2>3. /\ mailbox' \in Seq(Messages) /\ Len(mailbox') = Len(mailbox) + 1
          /\ mailbox'[Len(mailbox')] = m /\ mailbox' # <<>>
      BY <1>1, <2>1, <2>2, AppendProperties
    <2>4. Answers(mailbox') = {Len(mailbox')}
      BY <1>1, <2>1, <2>2, <2>3, AnswersAppend
    <2>5. /\ pc' = "wait" /\ UNCHANGED <<buffer, kbd, uart, after, cmd, request, typed, lost, hasty>>
          /\ drops' \in Nat
      BY <1>2 DEF SendRequest, Dropped, AnswerInv, TypeOK
    <2>6. TypeOK'
      BY <1>1, <2>3, <2>5, CapacityAssumption DEF AnswerInv, TypeOK
    <2> QED
      BY <1>1, <2>1, <2>3, <2>4, <2>5, <2>6 DEF AnswerInv, AnswerQueued, Awaiting
  <1>3. CASE ProgramDiverges
    BY <1>1, <1>3 DEF ProgramDiverges, mailVars, AnswerInv, TypeOK, AnswerQueued, Awaiting
  <1> QED
    BY <1>2, <1>3

\* Polling takes a key in front of the answer, or the answer itself.
LEMMA WaitKeeps ==
  ASSUME AnswerInv, WaitReceive
  PROVE  AnswerInv'
  <1>1. /\ pc = "wait" /\ MailReceive /\ request \in Requests
        /\ mailbox # <<>> /\ Answers(mailbox) = {Len(mailbox)}
        /\ mailbox[Len(mailbox)].type = request /\ mailbox \in Seq(Messages)
    BY DEF WaitReceive, AnswerInv, AnswerQueued, Awaiting, TypeOK
  <1>2. /\ buffer' = mailbox[1] /\ mailbox' \in Seq(Messages)
        /\ Len(mailbox') = Len(mailbox) - 1 /\ Len(mailbox) \in Nat \ {0}
        /\ \A i \in 1..Len(mailbox') : mailbox'[i] = mailbox[i + 1]
        /\ \A i : i \in Answers(mailbox') <=>
                  i \in 1..(Len(mailbox) - 1) /\ i + 1 \in Answers(mailbox)
    BY <1>1, ReceiveFacts
  <1>3. pc' = "resp" /\ UNCHANGED <<kbd, uart, after, cmd, request, typed, lost, hasty>>
    BY DEF WaitReceive
  <1>4. TypeOK'
    BY <1>1, <1>3, ReceiveFacts DEF AnswerInv, TypeOK
  <1>5. CASE Len(mailbox) = 1
    <2>1. IsAnswer' /\ Answers(mailbox') = {}
      BY <1>1, <1>2, <1>3, <1>5 DEF IsAnswer
    <2> QED
      BY <1>1, <1>3, <1>4, <2>1 DEF AnswerInv, AnswerQueued, Awaiting
  <1>6. CASE Len(mailbox) # 1
    <2>1. 1 \in 1..Len(mailbox) /\ 1 \notin Answers(mailbox)
      BY <1>1, <1>2, <1>6
    <2>2. buffer'.type = "KEY_PRESS"
      BY <1>2, <2>1 DEF Answers
    <2>3. ~IsAnswer'
      BY <1>1, <1>3, <2>2 DEF IsAnswer, Requests
    <2>4. Answers(mailbox') = {Len(mailbox')}
      BY <1>1, <1>2, <1>6
    <2>5. mailbox' # <<>> /\ mailbox'[Len(mailbox')].type = request'
      <3>1. Len(mailbox') \in 1..Len(mailbox') /\ Len(mailbox') + 1 = Len(mailbox)
        BY <1>2, <1>6
      <3> QED
        BY <1>1, <1>2, <1>3, <1>6, <3>1, EmptySeq
    <2> QED
      BY <1>1, <1>3, <1>4, <2>3, <2>4, <2>5 DEF AnswerInv, AnswerQueued, Awaiting
  <1> QED
    BY <1>5, <1>6

\* What was polled is thrown away or ends the loop; the mailbox stays.
LEMMA ResponseKeeps ==
  ASSUME AnswerInv, NotTheAnswer \/ Answered
  PROVE  AnswerInv'
  <1>1. pc = "resp" /\ request \in Requests
    BY DEF AnswerInv, NotTheAnswer, Answered, TheAnswer
  <1>2. TypeOK'
    BY DEF AnswerInv, TypeOK, mailVars, NotTheAnswer, Answered
  <1>3. CASE NotTheAnswer
    BY <1>1, <1>2, <1>3 DEF AnswerInv, AnswerQueued, Awaiting, mailVars, NotTheAnswer
  <1>4. CASE Answered
    BY <1>1, <1>2, <1>4 DEF AnswerInv, AnswerQueued, Awaiting, mailVars, Answered, TheAnswer
  <1> QED
    BY <1>3, <1>4

LEMMA StutterKeeps ==
  ASSUME AnswerInv, UNCHANGED vars
  PROVE  AnswerInv'
  BY DEF vars, mailVars, AnswerInv, TypeOK, AnswerQueued, Awaiting, IsAnswer, Answers

\* Whatever is typed, the shell and the system calls keep a slot of the mailbox
\* free from the taking of a key to the answer of the command it completes, so
\* the answer that the shell waits for has a place.
THEOREM AnswerInvariance == Spec => []AnswerInv
  <1>1. AnswerInv /\ [Next]_vars => AnswerInv'
    BY TypingKeeps, DrainKeeps, ReceiveKeeps, KeyKeeps, SendKeeps, WaitKeeps,
       ResponseKeeps, StutterKeeps DEF Next, ShellStep
  <1> QED
    BY AnswerInit, <1>1, PTL DEF Spec

\* The mailbox never exceeds its capacity, the command line never its buffer.
THEOREM TypeCorrect == Spec => []TypeOK
  <1>1. AnswerInv => TypeOK
    BY DEF AnswerInv
  <1> QED
    BY <1>1, AnswerInvariance, PTL

\* The answer a polling shell waits for is in the mailbox, whatever is typed
\* ahead and however small the mailbox, and no other answer ever is.
THEOREM AnswerCorrect == Spec => []AnswerQueued
  <1>1. AnswerInv => AnswerQueued
    BY DEF AnswerInv
  <1> QED
    BY <1>1, AnswerInvariance, PTL

-----------------------------------------------------------------------------
(* Nothing typed in time is lost *)

Patient == drops = 0 /\ ~lost /\ LineEndLast /\ Uncrowded

LEMMA DeviceAppend ==
  ASSUME NEW S, NEW q \in Seq(S), NEW c \in S
  PROVE  /\ Len(q) \in Nat /\ Len(Append(q, c)) = Len(q) + 1
         /\ \A i \in 1..Len(q) : Append(q, c)[i] = q[i]
         /\ Append(q, c)[Len(q) + 1] = c
  BY AppendProperties, LenProperties

LEMMA DevicePoll ==
  ASSUME NEW S, NEW q \in Seq(S), q # <<>>
  PROVE  /\ Len(q) \in Nat \ {0} /\ Len(Tail(q)) = Len(q) - 1 /\ Head(q) = q[1]
         /\ \A i \in 1..Len(Tail(q)) : Tail(q)[i] = q[i + 1]
         /\ Len(q) = 1 => Tail(q) = <<>>
  <1>1. Len(q) \in Nat \ {0}
    BY LenProperties, EmptySeq
  <1>2. /\ Tail(q) \in Seq(S) /\ Len(Tail(q)) = Len(q) - 1
        /\ \A i \in 1..Len(Tail(q)) : Tail(q)[i] = q[i + 1]
    BY HeadTailProperties
  <1>3. Head(q) = q[1]
    BY HeadTailProperties
  <1>4. Len(q) = 1 => Tail(q) = <<>>
    <2>1. Len(q) = 1 => Len(Tail(q)) = 0
      BY <1>2
    <2> QED
      BY <1>2, <2>1, EmptySeq, Zenon
  <1> QED
    BY <1>1, <1>2, <1>3, <1>4

\* The lengths of the queues.
LEMMA QueueTypes ==
  ASSUME AnswerInv
  PROVE  /\ mailbox \in Seq(Messages) /\ kbd \in Seq(KbdEvents) /\ uart \in Seq(UartBytes)
         /\ Len(mailbox) \in Nat /\ Len(kbd) \in Nat /\ Len(uart) \in Nat
         /\ (mailbox = <<>> <=> Len(mailbox) = 0)
         /\ (kbd = <<>> <=> Len(kbd) = 0) /\ (uart = <<>> <=> Len(uart) = 0)
  <1>1. mailbox \in Seq(Messages) /\ kbd \in Seq(KbdEvents) /\ uart \in Seq(UartBytes)
    BY DEF AnswerInv, TypeOK
  <1> QED
    BY <1>1, LenProperties, EmptySeq

\* A character typed in time is the only one behind the last line end.
LEMMA TypingPatient ==
  ASSUME PatientInv, TypeKbd \/ TypeUart, ~hasty'
  PROVE  Patient'
  <1>1. /\ ~hasty /\ ~LineEndPending /\ Backlog < Capacity
        /\ UNCHANGED <<mailbox, buffer, drops, shell, lost>>
    <2>1. PICK c, other : Typing(c, other)
      BY DEF TypeKbd, TypeUart
    <2>2. /\ ~hasty /\ ~LineEndPending /\ ~(Backlog >= Capacity)
          /\ UNCHANGED <<mailbox, buffer, drops, shell, lost>>
      BY <2>1 DEF Typing, mailVars
    <2>3. Backlog \in Nat
      BY QueueTypes DEF PatientInv, Backlog
    <2> QED
      BY <2>2, <2>3, CapacityAssumption
  <1>2. AnswerInv /\ drops = 0 /\ ~lost /\ LineEndLast /\ Uncrowded
    BY <1>1 DEF PatientInv
  <1>3. UNCHANGED <<mailbox, buffer, drops, pc, request, lost>>
    BY <1>1 DEF shell
  <1>4. /\ \A i \in 1..Len(kbd) : kbd[i] # "NL"
        /\ \A i \in 1..Len(uart) : uart[i] \notin {"NL", "CR"}
        /\ \A i \in KeysIn(mailbox) : mailbox[i].payload # "NL"
        /\ ~(pc = "key" /\ buffer.payload = "NL")
    BY <1>1 DEF LineEndPending
  <1>5. /\ kbd' = <<>> \/ uart' = <<>>
        /\ Len(kbd') + Len(uart') = Len(kbd) + Len(uart) + 1
        /\ \A i \in 1..Len(kbd') : kbd'[i] = "NL" => i = Len(kbd')
        /\ \A i \in 1..Len(uart') : uart'[i] \in {"NL", "CR"} => i = Len(uart')
    <2>1. CASE TypeKbd
      <3>1. uart = <<>> /\ uart' = uart
        BY <2>1 DEF TypeKbd, Typing
      <3>2. PICK c \in KbdEvents : kbd' = Append(kbd, c)
        BY <2>1 DEF TypeKbd
      <3>3. /\ Len(kbd) \in Nat /\ Len(kbd') = Len(kbd) + 1 /\ Len(uart) = 0
            /\ \A i \in 1..Len(kbd) : kbd'[i] = kbd[i]
        BY <1>2, <3>1, <3>2, QueueTypes, DeviceAppend
      <3> QED
        BY <1>4, <3>1, <3>3
    <2>2. CASE TypeUart
      <3>1. kbd = <<>> /\ kbd' = kbd
        BY <2>2 DEF TypeUart, Typing
      <3>2. PICK c \in UartBytes : uart' = Append(uart, c)
        BY <2>2 DEF TypeUart
      <3>3. /\ Len(uart) \in Nat /\ Len(uart') = Len(uart) + 1 /\ Len(kbd) = 0
            /\ \A i \in 1..Len(uart) : uart'[i] = uart[i]
        BY <1>2, <3>1, <3>2, QueueTypes, DeviceAppend
      <3> QED
        BY <1>4, <3>1, <3>3
    <2> QED
      BY <2>1, <2>2
  <1>6. LineEndLast'
    BY <1>3, <1>4, <1>5 DEF LineEndLast, KeysIn
  <1>7. Len(kbd) + Len(uart) + Len(mailbox) < Capacity /\ Len(mailbox) \in Nat
        /\ Len(kbd) \in Nat /\ Len(uart) \in Nat
    BY <1>1, <1>2, QueueTypes DEF Backlog
  <1>8. /\ Len(kbd') + Len(uart') <= Capacity
        /\ Len(kbd') + Len(uart') + Len(mailbox) <= Capacity
    BY <1>5, <1>7, CapacityAssumption
  <1>9. Uncrowded'
    BY <1>2, <1>3, <1>5, <1>8 DEF Uncrowded, IsAnswer, Backlog
  <1> QED
    BY <1>2, <1>3, <1>6, <1>9 DEF Patient

\* The steps that move no character: what is said holds of the new pc as well.
LEMMA StillPatient ==
  ASSUME Patient, UNCHANGED <<mailbox, drops, kbd, uart, lost>>,
         pc' = "key" => pc = "key" /\ buffer' = buffer,
         pc' # "wait" => Backlog <= Capacity,
         pc' = "send" => mailbox = <<>>,
         pc' = "wait" => Len(mailbox) = 1 /\ Len(kbd) + Len(uart) <= Capacity,
         pc' = "resp" => IsAnswer' /\ mailbox = <<>>
  PROVE  Patient'
  <1>1. LineEndLast'
    BY DEF Patient, LineEndLast, KeysIn
  <1>2. Uncrowded'
    BY DEF Patient, Uncrowded, Backlog
  <1> QED
    BY <1>1, <1>2 DEF Patient

\* A key that leaves the device it is the first in finds room in the mailbox, and
\* stays the last if it is a line end.
LEMMA PostPatient ==
  ASSUME PatientInv, ~hasty, pc \in {"kbd", "uart"}, pc' = pc,
         NEW c \in Keys, PostKey(c), UNCHANGED lost,
         \/ /\ kbd # <<>> /\ uart' = uart /\ kbd' = Tail(kbd)
            /\ (c = "NL" => kbd[1] = "NL")
         \/ /\ uart # <<>> /\ kbd' = kbd /\ uart' = Tail(uart)
            /\ (c = "NL" => uart[1] \in {"NL", "CR"})
  PROVE  Patient'
  <1>1. AnswerInv /\ drops = 0 /\ ~lost /\ LineEndLast /\ Uncrowded
    BY DEF PatientInv
  <1>2. /\ mailbox \in Seq(Messages) /\ kbd \in Seq(KbdEvents) /\ uart \in Seq(UartBytes)
        /\ Len(mailbox) \in Nat /\ Len(kbd) \in Nat /\ Len(uart) \in Nat
        /\ (kbd = <<>> <=> Len(kbd) = 0) /\ (uart = <<>> <=> Len(uart) = 0)
    BY <1>1, QueueTypes
  <1>3. /\ kbd = <<>> \/ uart = <<>>
        /\ Len(kbd) + Len(uart) + Len(mailbox) <= Capacity
    BY <1>1 DEF Uncrowded, Backlog
  <1>4. /\ Len(kbd') + Len(uart') = Len(kbd) + Len(uart) - 1
        /\ Len(kbd) + Len(uart) > 0 /\ Len(kbd') \in Nat /\ Len(uart') \in Nat
        /\ kbd' = <<>> \/ uart' = <<>>
        /\ \A i \in 1..Len(kbd') : kbd'[i] = "NL" => i = Len(kbd')
        /\ \A i \in 1..Len(uart') : uart'[i] \in {"NL", "CR"} => i = Len(uart')
        /\ c = "NL" => kbd' = <<>> /\ uart' = <<>>
    <2>1. CASE kbd # <<>> /\ uart' = uart /\ kbd' = Tail(kbd) /\ (c = "NL" => kbd[1] = "NL")
      <3>1. /\ Len(kbd') = Len(kbd) - 1 /\ Len(kbd) \in Nat \ {0} /\ uart = <<>> /\ Len(uart) = 0
            /\ \A i \in 1..Len(kbd') : kbd'[i] = kbd[i + 1]
            /\ (Len(kbd) = 1 => kbd' = <<>>)
        BY <1>2, <1>3, <2>1, DevicePoll
      <3>2. \A i \in 1..Len(kbd') : i + 1 \in 1..Len(kbd)
        BY <3>1
      <3>3. \A i \in 1..Len(kbd') : kbd'[i] = "NL" => i = Len(kbd')
        BY <1>1, <3>1, <3>2 DEF LineEndLast
      <3>4. c = "NL" => kbd' = <<>>
        <4>1. 1 \in 1..Len(kbd) /\ (kbd[1] = "NL" => 1 = Len(kbd))
          BY <1>1, <3>1 DEF LineEndLast
        <4> QED
          BY <2>1, <3>1, <4>1
      <3>5. uart' = <<>> /\ Len(uart') = 0 /\ \A i \in 1..Len(uart') : FALSE
        BY <2>1, <3>1
      <3>6. Len(kbd') \in Nat
        BY <3>1
      <3> QED
        BY <3>1, <3>3, <3>4, <3>5, <3>6
    <2>2. CASE /\ uart # <<>> /\ kbd' = kbd /\ uart' = Tail(uart)
               /\ (c = "NL" => uart[1] \in {"NL", "CR"})
      <3>1. /\ Len(uart') = Len(uart) - 1 /\ Len(uart) \in Nat \ {0} /\ kbd = <<>> /\ Len(kbd) = 0
            /\ \A i \in 1..Len(uart') : uart'[i] = uart[i + 1]
            /\ (Len(uart) = 1 => uart' = <<>>)
        BY <1>2, <1>3, <2>2, DevicePoll
      <3>2. \A i \in 1..Len(uart') : i + 1 \in 1..Len(uart)
        BY <3>1
      <3>3. \A i \in 1..Len(uart') : uart'[i] \in {"NL", "CR"} => i = Len(uart')
        BY <1>1, <3>1, <3>2 DEF LineEndLast
      <3>4. c = "NL" => uart' = <<>>
        <4>1. 1 \in 1..Len(uart) /\ (uart[1] \in {"NL", "CR"} => 1 = Len(uart))
          BY <1>1, <3>1 DEF LineEndLast
        <4> QED
          BY <2>2, <3>1, <4>1
      <3>5. kbd' = <<>> /\ Len(kbd') = 0 /\ \A i \in 1..Len(kbd') : FALSE
        BY <2>2, <3>1
      <3>6. Len(uart') \in Nat
        BY <3>1
      <3> QED
        BY <3>1, <3>3, <3>4, <3>5, <3>6
    <2> QED
      BY <2>1, <2>2
  <1>5. Len(mailbox) < Capacity
    BY <1>2, <1>3, <1>4, CapacityAssumption
  <1>6. drops' = 0 /\ ~lost' /\ mailbox' = Append(mailbox, Key(c))
    <2>1. drops' = drops + 0 /\ mailbox' = Append(mailbox, Key(c))
      BY <1>5 DEF PostKey, Sent, Dropped
    <2> QED
      BY <1>1, <2>1
  <1>7. /\ Len(mailbox') = Len(mailbox) + 1
        /\ \A i \in 1..Len(mailbox) : mailbox'[i] = mailbox[i]
        /\ mailbox'[Len(mailbox) + 1] = Key(c) /\ Key(c).payload = c
    BY <1>2, <1>6, KeyIsMessage, DeviceAppend
  <1>8. \A i \in KeysIn(mailbox') : mailbox'[i].payload = "NL" =>
          i = Len(mailbox') /\ kbd' = <<>> /\ uart' = <<>>
    <2> SUFFICES ASSUME NEW i \in KeysIn(mailbox'), mailbox'[i].payload = "NL"
                 PROVE  i = Len(mailbox') /\ kbd' = <<>> /\ uart' = <<>>
      OBVIOUS
    <2>1. i \in 1..Len(mailbox') /\ mailbox'[i].type = "KEY_PRESS"
      BY DEF KeysIn
    <2>2. CASE i = Len(mailbox) + 1
      BY <1>4, <1>7, <2>2
    <2>3. CASE i # Len(mailbox) + 1
      <3>1. i \in 1..Len(mailbox)
        BY <1>2, <1>7, <2>1, <2>3
      <3>2. i \in KeysIn(mailbox) /\ mailbox[i].payload = "NL"
        BY <1>7, <2>1, <3>1 DEF KeysIn
      <3> QED
        BY <1>1, <1>2, <1>4, <3>2 DEF LineEndLast
    <2> QED
      BY <2>2, <2>3
  <1>9. LineEndLast'
    BY <1>4, <1>8 DEF LineEndLast
  <1>10. Uncrowded'
    <2>1. Len(kbd') + Len(uart') + Len(mailbox') <= Capacity
      BY <1>2, <1>3, <1>4, <1>7, CapacityAssumption
    <2> QED
      BY <1>4, <2>1 DEF Uncrowded, Backlog
  <1> QED
    BY <1>6, <1>9, <1>10 DEF Patient

\* An event that is no key leaves a device.
LEMMA DropPatient ==
  ASSUME PatientInv, ~hasty, pc \in {"kbd", "uart"}, pc' \in {"uart", "recv", "kbd"},
         UNCHANGED <<mailbox, drops, lost>>,
         \/ UNCHANGED <<kbd, uart>>
         \/ kbd # <<>> /\ uart' = uart /\ kbd' = Tail(kbd)
         \/ uart # <<>> /\ kbd' = kbd /\ uart' = Tail(uart)
  PROVE  Patient'
  <1>1. AnswerInv /\ drops = 0 /\ ~lost /\ LineEndLast /\ Uncrowded
    BY DEF PatientInv
  <1>2. /\ mailbox \in Seq(Messages) /\ kbd \in Seq(KbdEvents) /\ uart \in Seq(UartBytes)
        /\ Len(mailbox) \in Nat /\ Len(kbd) \in Nat /\ Len(uart) \in Nat
    BY <1>1, QueueTypes
  <1>3. /\ kbd = <<>> \/ uart = <<>>
        /\ Len(kbd) + Len(uart) + Len(mailbox) <= Capacity
        /\ \A i \in 1..Len(kbd) : kbd[i] = "NL" => i = Len(kbd)
        /\ \A i \in 1..Len(uart) : uart[i] \in {"NL", "CR"} => i = Len(uart)
    BY <1>1 DEF Uncrowded, Backlog, LineEndLast
  <1>4. /\ Len(kbd') \in Nat /\ Len(kbd') <= Len(kbd) /\ (kbd = <<>> => kbd' = <<>>)
        /\ \A i \in 1..Len(kbd') : kbd'[i] = "NL" => i = Len(kbd')
    <2>1. CASE kbd' = kbd
      BY <1>2, <1>3, <2>1
    <2>2. CASE kbd # <<>> /\ kbd' = Tail(kbd)
      <3>1. /\ Len(kbd') = Len(kbd) - 1 /\ Len(kbd) \in Nat \ {0}
            /\ \A i \in 1..Len(kbd') : kbd'[i] = kbd[i + 1]
        BY <1>2, <2>2, DevicePoll
      <3>2. \A i \in 1..Len(kbd') : i + 1 \in 1..Len(kbd)
        BY <3>1
      <3>3. \A i \in 1..Len(kbd') : kbd[i + 1] = "NL" => i + 1 = Len(kbd)
        BY <1>3, <3>2
      <3>4. \A i \in 1..Len(kbd') : i + 1 = Len(kbd) => i = Len(kbd')
        BY <3>1
      <3>5. Len(kbd') \in Nat /\ Len(kbd') <= Len(kbd)
        BY <3>1
      <3> QED
        BY <2>2, <3>1, <3>3, <3>4, <3>5
    <2> QED
      BY <2>1, <2>2
  <1>5. /\ Len(uart') \in Nat /\ Len(uart') <= Len(uart) /\ (uart = <<>> => uart' = <<>>)
        /\ \A i \in 1..Len(uart') : uart'[i] \in {"NL", "CR"} => i = Len(uart')
    <2>1. CASE uart' = uart
      BY <1>2, <1>3, <2>1
    <2>2. CASE uart # <<>> /\ uart' = Tail(uart)
      <3>1. /\ Len(uart') = Len(uart) - 1 /\ Len(uart) \in Nat \ {0}
            /\ \A i \in 1..Len(uart') : uart'[i] = uart[i + 1]
        BY <1>2, <2>2, DevicePoll
      <3>2. \A i \in 1..Len(uart') : i + 1 \in 1..Len(uart)
        BY <3>1
      <3>3. \A i \in 1..Len(uart') : uart[i + 1] \in {"NL", "CR"} => i + 1 = Len(uart)
        BY <1>3, <3>2
      <3>4. \A i \in 1..Len(uart') : i + 1 = Len(uart) => i = Len(uart')
        BY <3>1
      <3>5. Len(uart') \in Nat /\ Len(uart') <= Len(uart)
        BY <3>1
      <3> QED
        BY <2>2, <3>1, <3>3, <3>4, <3>5
    <2> QED
      BY <2>1, <2>2
  <1>6. LineEndLast'
    BY <1>1, <1>4, <1>5 DEF LineEndLast, KeysIn
  <1>7. Len(kbd') + Len(uart') + Len(mailbox') <= Capacity
    BY <1>2, <1>3, <1>4, <1>5, CapacityAssumption
  <1>8. Uncrowded'
    BY <1>3, <1>4, <1>5, <1>7 DEF Uncrowded, Backlog
  <1> QED
    BY <1>1, <1>6, <1>8 DEF Patient

LEMMA DrainPatient ==
  ASSUME PatientInv, ~hasty, PollKbd \/ PollUart \/ DrainDone
  PROVE  Patient'
  <1>1. AnswerInv /\ kbd \in Seq(KbdEvents) /\ uart \in Seq(UartBytes)
    BY QueueTypes DEF PatientInv
  <1>2. CASE PollKbd /\ kbd # <<>> /\ Head(kbd) # "NoChar"
    <2>1. /\ pc = "kbd" /\ PostKey(Head(kbd)) /\ kbd' = Tail(kbd) /\ pc' = pc /\ uart' = uart
          /\ lost' = lost
      BY <1>2 DEF PollKbd
    <2>2. Head(kbd) \in Keys /\ Head(kbd) = kbd[1]
      BY <1>1, <1>2, DeviceTail, DevicePoll DEF KbdEvents
    <2> QED
      BY <1>2, <2>1, <2>2, PostPatient
  <1>3. CASE PollUart
    <2>1. /\ pc = "uart" /\ PostKey(Received(Head(uart))) /\ uart' = Tail(uart)
          /\ uart # <<>> /\ Head(uart) # "NoChar" /\ pc' = pc /\ kbd' = kbd
          /\ lost' = lost
      BY <1>3 DEF PollUart, shell
    <2>2. Head(uart) \in UartBytes \ {"NoChar"} /\ Head(uart) = uart[1]
      BY <1>1, <2>1, DeviceTail, DevicePoll
    <2>3. Received(Head(uart)) \in Keys
          /\ (Received(Head(uart)) = "NL" => uart[1] \in {"NL", "CR"})
      BY <2>2 DEF Received, UartBytes, Keys
    <2> QED
      BY <2>1, <2>3, PostPatient
  <1>4. CASE PollKbd /\ ~(kbd # <<>> /\ Head(kbd) # "NoChar")
    BY <1>4, DropPatient DEF PollKbd
  <1>5. CASE DrainDone
    BY <1>5, DropPatient DEF DrainDone, mailVars
  <1> QED
    BY <1>2, <1>3, <1>4, <1>5

\* ipc_receive hands the shell a line end when there is nothing else left.
LEMMA ReceivePatient ==
  ASSUME PatientInv, ~hasty, Receive
  PROVE  Patient'
  <1>1. AnswerInv /\ drops = 0 /\ ~lost /\ LineEndLast /\ Uncrowded
    BY DEF PatientInv
  <1>2. /\ pc = "recv" /\ MailReceive /\ Answers(mailbox) = {}
        /\ UNCHANGED <<drops, kbd, uart, lost>>
        /\ pc' = (IF buffer'.type = "KEY_PRESS" THEN "key" ELSE "kbd")
    BY <1>1 DEF Receive, MailReceive, AnswerInv, AnswerQueued, Awaiting
  <1>3. /\ Len(mailbox) \in Nat /\ Len(kbd) \in Nat /\ Len(uart) \in Nat
        /\ (mailbox = <<>> <=> Len(mailbox) = 0) /\ mailbox' \in Seq(Messages)
    BY <1>1, <1>2, QueueTypes, ReceiveFacts
  <1>4. CASE mailbox = <<>>
    <2>1. mailbox' = mailbox /\ buffer' = NoMessage /\ pc' = "kbd"
      BY <1>1, <1>2, <1>4, ReceiveFacts, NoMessageForm
    <2> QED
      BY <1>1, <1>2, <2>1, StillPatient DEF Patient, Uncrowded
  <1>5. CASE mailbox # <<>>
    <2>1. /\ buffer' = mailbox[1] /\ Len(mailbox') = Len(mailbox) - 1 /\ Len(mailbox) \in Nat \ {0}
          /\ \A i \in 1..Len(mailbox') : mailbox'[i] = mailbox[i + 1]
      BY <1>1, <1>2, <1>5, ReceiveFacts
    <2>2. \A i \in 1..Len(mailbox') : i + 1 \in 1..Len(mailbox)
      BY <2>1
    <2>3. \A i \in KeysIn(mailbox') : mailbox'[i].payload = "NL" =>
            i = Len(mailbox') /\ kbd' = <<>> /\ uart' = <<>>
      <3> SUFFICES ASSUME NEW i \in KeysIn(mailbox'), mailbox'[i].payload = "NL"
                   PROVE  i = Len(mailbox') /\ kbd' = <<>> /\ uart' = <<>>
        OBVIOUS
      <3>1. i \in 1..Len(mailbox') /\ i + 1 \in KeysIn(mailbox) /\ mailbox[i + 1].payload = "NL"
        BY <2>1, <2>2 DEF KeysIn
      <3>2. i + 1 = Len(mailbox) /\ kbd = <<>> /\ uart = <<>>
        BY <1>1, <3>1 DEF LineEndLast
      <3> QED
        BY <1>2, <2>1, <3>1, <3>2
    <2>4. pc' = "key" /\ buffer'.payload = "NL" => mailbox' = <<>> /\ kbd' = <<>> /\ uart' = <<>>
      <3> SUFFICES ASSUME pc' = "key", buffer'.payload = "NL"
                   PROVE  mailbox' = <<>> /\ kbd' = <<>> /\ uart' = <<>>
        OBVIOUS
      <3>1. mailbox[1].type = "KEY_PRESS" /\ mailbox[1].payload = "NL" /\ 1 \in 1..Len(mailbox)
        BY <1>2, <2>1
      <3>2. 1 = Len(mailbox) /\ kbd = <<>> /\ uart = <<>>
        BY <1>1, <3>1 DEF LineEndLast, KeysIn
      <3>3. Len(mailbox') = 0
        BY <2>1, <3>2, 1 - 1 = 0
      <3> QED
        BY <1>2, <1>3, <3>2, <3>3, EmptySeq
    <2>5. LineEndLast'
      BY <1>1, <1>2, <2>3, <2>4 DEF LineEndLast
    <2>6. Len(kbd') + Len(uart') + Len(mailbox') <= Capacity
      <3>1. Len(kbd) + Len(uart) + Len(mailbox) <= Capacity
        BY <1>1, <1>2 DEF Uncrowded, Backlog
      <3> QED
        BY <1>2, <1>3, <2>1, <3>1, CapacityAssumption
    <2>7. Uncrowded'
      BY <1>1, <1>2, <2>6 DEF Uncrowded, Backlog
    <2> QED
      BY <1>1, <1>2, <2>5, <2>7 DEF Patient
  <1> QED
    BY <1>4, <1>5

\* A letter taken finds room on the line.
LEMMA EditFits ==
  ASSUME PatientInv, ~hasty, EditLine
  PROVE  ~lost' /\ buffer.payload \in Printable \cup {"BS"}
  <1>1. AnswerInv /\ ~lost /\ WithinLine /\ pc = "key" /\ buffer.payload # "NL"
    BY DEF PatientInv, EditLine
  <1>2. buffer.payload \in Printable \cup {"BS"}
    <2>1. buffer.type = "KEY_PRESS" /\ buffer \in Messages
      BY <1>1, NoMessageForm DEF AnswerInv, TypeOK
    <2> QED
      BY <1>1, <2>1, MessageForm DEF Keys
  <1>3. CASE buffer.payload = "BS"
    BY <1>1, <1>2, <1>3 DEF EditLine
  <1>4. CASE buffer.payload \in Printable
    <2>1. Len(cmd) < CMD_MAX_LEN - 1
      <3>1. Line = cmd /\ Letters = Count(kbd, Printable) + Count(uart, Printable)
                                      + Count(mailbox, {Key(c) : c \in Printable}) + 1
        BY <1>1, <1>4 DEF Line, InCommand, Letters
      <3>2. /\ Count(kbd, Printable) \in Nat /\ Count(uart, Printable) \in Nat
            /\ Count(mailbox, {Key(c) : c \in Printable}) \in Nat /\ Len(cmd) \in Nat
        BY <1>1, QueueTypes, PlacesFinite, LenProperties DEF AnswerInv, TypeOK
      <3> QED
        BY <1>1, <3>1, <3>2, CmdMaxAssumption DEF WithinLine
    <2>2. buffer.payload # "BS" /\ cmd \in Seq(Printable) /\ Len(cmd) \in Nat
      BY <1>1, <1>4, CharAssumption, LenProperties DEF AnswerInv, TypeOK
    <2>3. cmd' = Append(cmd, buffer.payload)
      BY <2>1, <2>2 DEF EditLine, Edit
    <2>4. Len(cmd') = Len(cmd) + 1
      BY <1>4, <2>2, <2>3, AppendProperties
    <2>5. cmd' # cmd
      BY <2>2, <2>4
    <2> QED
      BY <1>1, <1>2, <2>5 DEF EditLine
  <1> QED
    BY <1>2, <1>3, <1>4

\* A command starts with nothing under way.
LEMMA KeyPatient ==
  ASSUME PatientInv, ~hasty,
         EditLine \/ LocalCommand \/ FaultingCommand \/ KernelCommand \/ ProgramDiverges
  PROVE  Patient'
  <1>1. Patient /\ LineEndLast /\ Uncrowded
    BY DEF PatientInv, Patient
  <1>2. /\ UNCHANGED <<mailbox, buffer, drops, kbd, uart>>
        /\ pc' \in {"kbd", "halted", "send", "hung"} /\ pc # "wait"
        /\ pc' = "send" => pc = "key" /\ buffer.payload = "NL"
    BY DEF EditLine, LocalCommand, FaultingCommand, KernelCommand, ProgramDiverges, LineEntered,
           mailVars
  <1>3. Backlog <= Capacity /\ (pc' = "send" => mailbox = <<>>)
    BY <1>1, <1>2 DEF Uncrowded, LineEndLast
  <1>4. lost' = lost
    <2>1. lost \in BOOLEAN /\ ~lost
      BY DEF PatientInv, AnswerInv, TypeOK
    <2>2. CASE EditLine
      BY <2>1, <2>2, EditFits DEF EditLine
    <2>3. CASE ~EditLine
      BY <2>3 DEF LocalCommand, FaultingCommand, KernelCommand, ProgramDiverges
    <2> QED
      BY <2>2, <2>3
  <1> QED
    BY <1>1, <1>2, <1>3, <1>4, StillPatient

\* The answer goes into the empty mailbox.
LEMMA SendPatient ==
  ASSUME PatientInv, ~hasty, SendRequest
  PROVE  Patient'
  <1>1. AnswerInv /\ drops = 0 /\ ~lost /\ LineEndLast /\ Uncrowded
    BY DEF PatientInv
  <1>2. /\ pc = "send" /\ pc' = "wait" /\ request \in Requests /\ mailbox = <<>>
        /\ mailbox' = Sent(mailbox, Response(request))
        /\ UNCHANGED <<buffer, kbd, uart, lost>> /\ drops' = drops + Dropped(mailbox)
    BY <1>1 DEF SendRequest, Serve, AnswerInv, Uncrowded
  <1>3. /\ Len(mailbox) = 0 /\ mailbox \in Seq(Messages) /\ Len(kbd) \in Nat /\ Len(uart) \in Nat
        /\ Response(request) \in Messages /\ Response(request).type # "KEY_PRESS"
    BY <1>1, <1>2, QueueTypes, ResponseIsMessage
  <1>4. mailbox' = Append(mailbox, Response(request)) /\ drops' = 0
    BY <1>1, <1>2, <1>3, CapacityAssumption DEF Sent, Dropped
  <1>5. Len(mailbox') = 1 /\ mailbox'[1] = Response(request)
    BY <1>3, <1>4, DeviceAppend
  <1>6. KeysIn(mailbox') = {}
    BY <1>3, <1>5 DEF KeysIn
  <1>7. LineEndLast'
    BY <1>1, <1>2, <1>6 DEF LineEndLast
  <1>8. Len(kbd) + Len(uart) <= Capacity
    BY <1>1, <1>2, <1>3, CapacityAssumption DEF Uncrowded, Backlog
  <1>9. Uncrowded'
    BY <1>1, <1>2, <1>5, <1>8 DEF Uncrowded
  <1> QED
    BY <1>1, <1>2, <1>4, <1>7, <1>9 DEF Patient

\* It is the first message taken, and nothing is thrown away.
LEMMA WaitPatient ==
  ASSUME PatientInv, ~hasty, WaitReceive \/ NotTheAnswer \/ Answered
  PROVE  Patient'
  <1>1. AnswerInv /\ Patient /\ drops = 0 /\ ~lost /\ LineEndLast /\ Uncrowded
    BY DEF PatientInv, Patient
  <1>2. ~NotTheAnswer
    BY <1>1 DEF NotTheAnswer, Uncrowded
  <1>3. CASE Answered
    <2>1. /\ pc = "resp" /\ pc' = "kbd" /\ UNCHANGED <<mailbox, drops, buffer, kbd, uart, lost>>
      BY <1>3 DEF Answered, TheAnswer, mailVars
    <2> QED
      BY <1>1, <2>1, StillPatient DEF Uncrowded
  <1>4. CASE WaitReceive
    <2>1. /\ pc = "wait" /\ pc' = "resp" /\ MailReceive /\ UNCHANGED <<drops, kbd, uart, lost, request>>
          /\ mailbox # <<>> /\ Len(mailbox) = 1 /\ Len(kbd) + Len(uart) <= Capacity
          /\ mailbox[Len(mailbox)].type = request
      BY <1>1, <1>4 DEF WaitReceive, MailReceive, Uncrowded, AnswerInv, AnswerQueued, Awaiting
    <2>2. buffer' = mailbox[1] /\ Len(mailbox') = 0 /\ mailbox' \in Seq(Messages)
      BY <1>1, <2>1, ReceiveFacts
    <2>3. mailbox' = <<>> /\ IsAnswer'
      BY <2>1, <2>2, EmptySeq DEF IsAnswer
    <2>4. KeysIn(mailbox') = {}
      BY <2>2 DEF KeysIn
    <2>5. LineEndLast'
      BY <1>1, <2>1, <2>4 DEF LineEndLast
    <2>6. Len(kbd') + Len(uart') + Len(mailbox') <= Capacity
      BY <1>1, <2>1, <2>2, QueueTypes
    <2>7. Uncrowded'
      BY <1>1, <2>1, <2>3, <2>6 DEF Uncrowded, Backlog
    <2> QED
      BY <1>1, <2>1, <2>5, <2>7 DEF Patient
  <1> QED
    BY <1>2, <1>3, <1>4

\* The numbers that WithinLine adds up.
LetterKeys == {Key(c) : c \in Printable}
InHand == IF pc = "key" /\ buffer.payload \in Printable THEN 1 ELSE 0

LEMMA LetterTypes ==
  ASSUME AnswerInv
  PROVE  /\ Count(kbd, Printable) \in Nat /\ Count(uart, Printable) \in Nat
         /\ Count(mailbox, LetterKeys) \in Nat /\ InHand \in {0, 1}
         /\ Len(Line) \in Nat /\ Len(cmd) \in Nat /\ Len(Line) <= Len(cmd)
         /\ Letters \in Nat
         /\ Letters = Count(kbd, Printable) + Count(uart, Printable)
                        + Count(mailbox, LetterKeys) + InHand
  <1>1. /\ Count(kbd, Printable) \in Nat /\ Count(uart, Printable) \in Nat
        /\ Count(mailbox, LetterKeys) \in Nat /\ Len(cmd) \in Nat /\ Len(<<>>) = 0
    BY QueueTypes, PlacesFinite, LenProperties, EmptyQueue DEF AnswerInv, TypeOK
  <1>2. InHand \in {0, 1} /\ Letters = Count(kbd, Printable) + Count(uart, Printable)
                                         + Count(mailbox, LetterKeys) + InHand
    BY DEF Letters, InHand, LetterKeys
  <1>3. Len(Line) \in Nat /\ Len(Line) <= Len(cmd)
    BY <1>1 DEF Line
  <1> QED
    BY <1>1, <1>2, <1>3

LEMMA LetterTypesNext ==
  AnswerInv' => /\ Letters' = Count(kbd', Printable) + Count(uart', Printable)
                                + Count(mailbox', LetterKeys) + InHand'
                /\ Count(kbd', Printable) \in Nat /\ Count(uart', Printable) \in Nat
                /\ Count(mailbox', LetterKeys) \in Nat /\ InHand' \in {0, 1}
                /\ Letters' \in Nat /\ Len(Line') \in Nat /\ Len(Line') <= Len(cmd')
  <1> SUFFICES ASSUME AnswerInv'
               PROVE  /\ Letters' = Count(kbd', Printable) + Count(uart', Printable)
                                      + Count(mailbox', LetterKeys) + InHand'
                      /\ Count(kbd', Printable) \in Nat /\ Count(uart', Printable) \in Nat
                      /\ Count(mailbox', LetterKeys) \in Nat /\ InHand' \in {0, 1}
                      /\ Letters' \in Nat /\ Len(Line') \in Nat /\ Len(Line') <= Len(cmd')
    OBVIOUS
  <1>1. /\ mailbox' \in Seq(Messages) /\ kbd' \in Seq(KbdEvents) /\ uart' \in Seq(UartBytes)
        /\ cmd' \in Seq(Printable)
    BY DEF AnswerInv, TypeOK
  <1>2. /\ Count(kbd', Printable) \in Nat /\ Count(uart', Printable) \in Nat
        /\ Count(mailbox', LetterKeys) \in Nat /\ Len(cmd') \in Nat /\ Len(<<>>) = 0
    BY <1>1, PlacesFinite, LenProperties, EmptyQueue
  <1>3. InHand' \in {0, 1} /\ Letters' = Count(kbd', Printable) + Count(uart', Printable)
                                         + Count(mailbox', LetterKeys) + InHand'
    BY DEF Letters, InHand, LetterKeys
  <1>4. Len(Line') \in Nat /\ Len(Line') <= Len(cmd')
    BY <1>2 DEF Line
  <1> QED
    BY <1>2, <1>3, <1>4

\* A message is a letter's key if it is a key with a letter.
LEMMA LetterKeyForm ==
  ASSUME NEW m \in Messages
  PROVE  m \in LetterKeys <=> m.type = "KEY_PRESS" /\ m.payload \in Printable
  <1>1. CASE m \in {Key(c) : c \in Keys}
    BY <1>1 DEF LetterKeys, Key, Keys
  <1>2. CASE m \in {Response(r) : r \in Requests}
    <2>1. m.type # "KEY_PRESS"
      BY <1>2 DEF Response, Requests
    <2> QED
      BY <2>1 DEF LetterKeys, Key
  <1> QED
    BY <1>1, <1>2, MessageAssumption

\* No letter more, and no longer line, than before.
LEMMA LineShrinks ==
  ASSUME AnswerInv, AnswerInv', WithinLine,
         Letters' <= Letters, Len(Line') <= Len(Line)
  PROVE  WithinLine'
  <1>1. Len(Line) \in Nat /\ Letters \in Nat
    BY LetterTypes
  <1>2. Len(Line') \in Nat /\ Letters' \in Nat
    BY LetterTypesNext
  <1> QED
    BY <1>1, <1>2, CmdMaxAssumption DEF WithinLine

\* A letter typed in time finds room behind the letters under way.
LEMMA TypingWithin ==
  ASSUME PatientInv, AnswerInv', TypeKbd \/ TypeUart, ~hasty'
  PROVE  WithinLine'
  <1>1. PICK c : /\ Typing(c, uart) \/ Typing(c, kbd)
                 /\ \/ c \in KbdEvents /\ kbd' = Append(kbd, c) /\ uart' = uart
                    \/ c \in UartBytes /\ uart' = Append(uart, c) /\ kbd' = kbd
    BY DEF TypeKbd, TypeUart
  <1>2. /\ ~hasty /\ ~(c \in Printable /\ LineFilled)
        /\ UNCHANGED <<mailbox, buffer, shell>>
    BY <1>1 DEF Typing, mailVars
  <1>3. AnswerInv /\ WithinLine
    BY <1>2 DEF PatientInv
  <1> DEFINE one == IF c \in Printable THEN 1 ELSE 0
  <1>4. Count(kbd', Printable) + Count(uart', Printable)
          = Count(kbd, Printable) + Count(uart, Printable) + one
    <2>1. kbd \in Seq(KbdEvents) /\ uart \in Seq(UartBytes)
      BY <1>3, QueueTypes
    <2>2. CASE c \in KbdEvents /\ kbd' = Append(kbd, c) /\ uart' = uart
      <3>1. Count(kbd', Printable) = Count(kbd, Printable) + one
        BY <2>1, <2>2, CountAppend
      <3> QED
        BY <1>3, <2>2, <3>1, LetterTypes
    <2>3. CASE c \in UartBytes /\ uart' = Append(uart, c) /\ kbd' = kbd
      <3>1. Count(uart', Printable) = Count(uart, Printable) + one
        BY <2>1, <2>3, CountAppend
      <3> QED
        BY <1>3, <2>3, <3>1, LetterTypes
    <2> QED
      BY <1>1, <2>2, <2>3
  <1>5. InHand' = InHand /\ Len(Line') = Len(Line) /\ mailbox' = mailbox
    BY <1>2 DEF shell, InHand, Line, InCommand
  <1>6. Letters' = Letters + one
    <2> HIDE DEF one
    <2>1. one \in {0, 1}
      BY DEF one
    <2> QED
      BY <1>3, <1>4, <1>5, <2>1, LetterTypes, LetterTypesNext
  <1>7. Len(Line) \in Nat /\ Letters \in Nat
    BY <1>3, LetterTypes
  <1>8. CASE c \in Printable
    <2>1. ~(Len(Line) + Letters >= CMD_MAX_LEN - 1)
      BY <1>2, <1>8 DEF LineFilled
    <2>2. Letters' = Letters + 1
      BY <1>6, <1>8
    <2> QED
      BY <1>5, <1>7, <2>1, <2>2, CmdMaxAssumption DEF WithinLine
  <1>9. CASE c \notin Printable
    <2>1. Letters' = Letters
      BY <1>6, <1>7, <1>9
    <2> QED
      BY <1>3, <1>5, <2>1 DEF WithinLine
  <1> QED
    BY <1>8, <1>9

\* A letter posted leaves its device for the mailbox.
LEMMA PostedLetters ==
  ASSUME AnswerInv, NEW c \in Keys, PostKey(c)
  PROVE  Count(mailbox', LetterKeys) <= Count(mailbox, LetterKeys) + (IF c \in Printable THEN 1 ELSE 0)
  <1>1. mailbox \in Seq(Messages) /\ Key(c) \in Messages /\ Count(mailbox, LetterKeys) \in Nat
        /\ (Key(c) \in LetterKeys <=> c \in Printable)
    BY QueueTypes, KeyIsMessage, LetterKeyForm, LetterTypes
  <1>2. CASE mailbox' = Append(mailbox, Key(c))
    <2>1. Count(mailbox', LetterKeys) = Count(mailbox, LetterKeys)
                                          + (IF Key(c) \in LetterKeys THEN 1 ELSE 0)
      BY <1>1, <1>2, CountAppend
    <2> QED
      BY <1>1, <2>1
  <1>3. CASE mailbox' = mailbox
    BY <1>1, <1>3
  <1> QED
    BY <1>2, <1>3 DEF PostKey, Sent

\* The drain moves letters on, or loses an event that is none.
LEMMA DrainWithin ==
  ASSUME AnswerInv, AnswerInv', WithinLine, PollKbd \/ PollUart \/ DrainDone
  PROVE  WithinLine'
  <1>1. kbd \in Seq(KbdEvents) /\ uart \in Seq(UartBytes)
    BY QueueTypes
  <1>2. CASE PollKbd
    <2>1. Len(Line') <= Len(Line) /\ uart' = uart /\ InHand' = InHand
      <3>1. pc = "kbd" /\ pc' \in {"kbd", "uart"} /\ UNCHANGED <<uart, after, cmd>>
        BY <1>2 DEF PollKbd
      <3>2. Line' = Line
        BY <3>1 DEF Line, InCommand
      <3> QED
        BY <3>1, <3>2, LetterTypes DEF InHand
    <2>2. Count(kbd', Printable) + Count(mailbox', LetterKeys)
            <= Count(kbd, Printable) + Count(mailbox, LetterKeys)
      <3>1. CASE kbd = <<>>
        BY <1>2, <3>1, LetterTypes DEF PollKbd
      <3>2. CASE kbd # <<>>
        <4>1. /\ kbd' = Tail(kbd) /\ Head(kbd) \in KbdEvents
              /\ Count(kbd, Printable)
                   = Count(kbd', Printable) + (IF Head(kbd) \in Printable THEN 1 ELSE 0)
          BY <1>1, <1>2, <3>2, CountTail, DeviceTail DEF PollKbd
        <4>2. CASE Head(kbd) = "NoChar"
          <5>1. mailbox' = mailbox
            BY <1>2, <3>2, <4>2 DEF PollKbd
          <5>2. Count(kbd', Printable) \in Nat
            BY LetterTypesNext
          <5> QED
            BY <4>1, <5>1, <5>2, LetterTypes
        <4>3. CASE Head(kbd) # "NoChar"
          <5>1. Head(kbd) \in Keys /\ PostKey(Head(kbd))
            BY <1>2, <3>2, <4>1, <4>3 DEF PollKbd, KbdEvents
          <5>2. Count(mailbox', LetterKeys)
                  <= Count(mailbox, LetterKeys) + (IF Head(kbd) \in Printable THEN 1 ELSE 0)
            BY <5>1, PostedLetters
          <5> QED
            BY <4>1, <5>2, LetterTypes, LetterTypesNext
        <4> QED
          BY <4>2, <4>3
      <3> QED
        BY <3>1, <3>2
    <2>3. Letters' <= Letters
      BY <2>1, <2>2, LetterTypes, LetterTypesNext
    <2> QED
      BY <2>1, <2>3, LineShrinks
  <1>3. CASE PollUart
    <2>1. Len(Line') <= Len(Line) /\ kbd' = kbd /\ InHand' = InHand
      <3>1. UNCHANGED <<kbd, pc, after, cmd, buffer>>
        BY <1>3 DEF PollUart, shell
      <3>2. Line' = Line
        BY <3>1 DEF Line, InCommand
      <3> QED
        BY <3>1, <3>2, LetterTypes DEF InHand
    <2> DEFINE c == Head(uart)
    <2>2. c \in UartBytes \ {"NoChar"} /\ uart # <<>> /\ uart' = Tail(uart) /\ PostKey(Received(c))
      BY <1>1, <1>3, DeviceTail DEF PollUart
    <2>3. Received(c) \in Keys /\ (Received(c) \in Printable <=> c \in Printable)
      BY <2>2, CharAssumption DEF Received, UartBytes, Keys
    <2>4. /\ Count(uart, Printable) = Count(uart', Printable) + (IF c \in Printable THEN 1 ELSE 0)
          /\ Count(mailbox', LetterKeys)
               <= Count(mailbox, LetterKeys) + (IF c \in Printable THEN 1 ELSE 0)
      <3>1. Count(mailbox', LetterKeys)
               <= Count(mailbox, LetterKeys) + (IF Received(c) \in Printable THEN 1 ELSE 0)
        BY <2>2, <2>3, PostedLetters
      <3> QED
        BY <1>1, <2>2, <2>3, <3>1, CountTail
    <2>5. Letters' <= Letters
      <3> HIDE DEF c
      <3> DEFINE one == IF c \in Printable THEN 1 ELSE 0
      <3>1. one \in {0, 1}
        OBVIOUS
      <3>2. /\ Count(uart, Printable) = Count(uart', Printable) + one
            /\ Count(mailbox', LetterKeys) <= Count(mailbox, LetterKeys) + one
        BY <2>4
      <3> HIDE DEF one
      <3>3. Count(uart', Printable) + Count(mailbox', LetterKeys)
              <= Count(uart, Printable) + Count(mailbox, LetterKeys)
        <4>1. /\ Count(uart', Printable) \in Nat /\ Count(mailbox', LetterKeys) \in Nat
              /\ Count(uart, Printable) \in Nat /\ Count(mailbox, LetterKeys) \in Nat
          BY LetterTypes, LetterTypesNext
        <4> QED
          BY <3>1, <3>2, <4>1
      <3>4. Count(kbd', Printable) = Count(kbd, Printable) /\ InHand' = InHand
        BY <2>1
      <3> QED
        BY <3>3, <3>4, LetterTypes, LetterTypesNext
    <2> QED
      BY <2>1, <2>5, LineShrinks
  <1>4. CASE DrainDone
    <2>1. UNCHANGED <<mailbox, kbd>> /\ InHand = 0 /\ InHand' = 0
      BY <1>4 DEF DrainDone, mailVars, InHand
    <2>2. Count(uart', Printable) <= Count(uart, Printable)
      <3>1. CASE uart' = uart
        BY <3>1, LetterTypes
      <3>2. CASE uart # <<>> /\ uart' = Tail(uart)
        <4>1. Count(uart, Printable)
                = Count(uart', Printable) + (IF Head(uart) \in Printable THEN 1 ELSE 0)
          BY <1>1, <3>2, CountTail
        <4> QED
          BY <4>1, LetterTypesNext
      <3> QED
        BY <1>4, <3>1, <3>2 DEF DrainDone
    <2>3. Letters' <= Letters
      BY <2>1, <2>2, LetterTypes, LetterTypesNext
    <2>4. Len(Line') <= Len(Line)
      <3>1. CASE after = "recv"
        <4>1. Line = cmd /\ Line' = cmd
          BY <1>4, <3>1 DEF DrainDone, Line, InCommand
        <4> QED
          BY <4>1, LetterTypes
      <3>2. CASE after = "prompt"
        <4>1. cmd' = <<>>
          BY <1>4, <3>2 DEF DrainDone
        <4>2. Line' = <<>> /\ Len(<<>>) = 0
          BY <4>1, EmptyQueue DEF Line
        <4> QED
          BY <4>2, LetterTypes
      <3> QED
        BY <1>4, <3>1, <3>2 DEF DrainDone
    <2> QED
      BY <2>3, <2>4, LineShrinks
  <1> QED
    BY <1>2, <1>3, <1>4

\* What a receive takes is in the shell's hands.
LEMMA TakenLetters ==
  ASSUME AnswerInv, AnswerInv', MailReceive
  PROVE  /\ Count(mailbox', LetterKeys) <= Count(mailbox, LetterKeys)
         /\ buffer'.type = "KEY_PRESS" /\ buffer'.payload \in Printable =>
              Count(mailbox', LetterKeys) + 1 = Count(mailbox, LetterKeys)
  <1>1. CASE mailbox = <<>>
    <2>1. mailbox' = mailbox /\ buffer'.type # "KEY_PRESS"
      BY <1>1, ReceiveFacts, NoMessageForm
    <2> QED
      BY <2>1, LetterTypes
  <1>2. CASE mailbox # <<>>
    <2>1. /\ mailbox \in Seq(Messages) /\ mailbox' = Tail(mailbox) /\ buffer' = Head(mailbox)
          /\ Head(mailbox) \in Messages
      BY <1>2, QueueTypes, DeviceTail DEF MailReceive, Delivered, Remaining
    <2>2. Count(mailbox, LetterKeys)
            = Count(mailbox', LetterKeys) + (IF buffer' \in LetterKeys THEN 1 ELSE 0)
      BY <1>2, <2>1, CountTail
    <2>3. buffer'.type = "KEY_PRESS" /\ buffer'.payload \in Printable => buffer' \in LetterKeys
      BY <2>1, LetterKeyForm
    <2> QED
      BY <2>2, <2>3, LetterTypesNext
  <1> QED
    BY <1>1, <1>2

LEMMA ReceiveWithin ==
  ASSUME AnswerInv, AnswerInv', WithinLine, Receive
  PROVE  WithinLine'
  <1>1. /\ pc = "recv" /\ MailReceive /\ UNCHANGED <<kbd, uart, cmd>>
        /\ pc' = IF buffer'.type = "KEY_PRESS" THEN "key" ELSE "kbd"
    BY DEF Receive
  <1>2. Count(mailbox', LetterKeys) + InHand' <= Count(mailbox, LetterKeys)
    <2>1. InHand' = 0 \/ (InHand' = 1 /\ buffer'.type = "KEY_PRESS" /\ buffer'.payload \in Printable)
      BY <1>1 DEF InHand
    <2> QED
      BY <1>1, <2>1, TakenLetters, LetterTypes, LetterTypesNext
  <1>3. Letters' <= Letters
    BY <1>1, <1>2, LetterTypes, LetterTypesNext
  <1>4. Len(Line') <= Len(Line)
    <2>1. Line = cmd /\ Line' \in {cmd, <<>>} /\ Len(<<>>) = 0
      BY <1>1, EmptyQueue DEF Line, InCommand
    <2> QED
      BY <2>1, LetterTypes
  <1> QED
    BY <1>3, <1>4, LineShrinks

\* The letter in hand becomes part of the line.
LEMMA EditWithin ==
  ASSUME AnswerInv, AnswerInv', WithinLine, EditLine
  PROVE  WithinLine'
  <1>1. /\ pc = "key" /\ pc' = "kbd" /\ UNCHANGED <<mailbox, kbd, uart>> /\ InHand' = 0
        /\ buffer.payload # "NL" /\ Line = cmd
    BY DEF EditLine, mailVars, InHand, Line, InCommand
  <1>2. Letters = Letters' + InHand
    BY <1>1, LetterTypes, LetterTypesNext
  <1>3. cmd \in Seq(Printable) /\ Len(cmd) \in Nat
    BY LetterTypes DEF AnswerInv, TypeOK
  <1>4. Len(cmd') \in Nat /\ Len(cmd') <= Len(cmd) + InHand
    <2>1. CASE buffer.payload = "BS"
      <3>1. cmd' = cmd \/ (cmd # <<>> /\ cmd' = SubSeq(cmd, 1, Len(cmd) - 1))
        BY <2>1 DEF EditLine, Erase
      <3>2. Len(SubSeq(cmd, 1, Len(cmd) - 1)) \in Nat /\ (cmd # <<>> =>
              Len(SubSeq(cmd, 1, Len(cmd) - 1)) <= Len(cmd))
        BY <1>3, EmptySeq, LenProperties, SubSeqProperties
      <3> QED
        BY <1>3, <3>1, <3>2, LetterTypes
    <2>2. CASE buffer.payload # "BS"
      <3>1. buffer.payload \in Printable
        <4>1. buffer.type = "KEY_PRESS" /\ buffer \in Messages
          BY <1>1, NoMessageForm DEF AnswerInv, TypeOK
        <4> QED
          BY <1>1, <2>2, <4>1, MessageForm DEF Keys
      <3>2. InHand = 1
        BY <1>1, <3>1 DEF InHand
      <3>3. Len(Append(cmd, buffer.payload)) = Len(cmd) + 1
        BY <1>3, <3>1, AppendProperties
      <3>4. cmd' = cmd \/ cmd' = Append(cmd, buffer.payload)
        BY <2>2 DEF EditLine, Edit
      <3> QED
        BY <1>3, <3>2, <3>3, <3>4
    <2> QED
      BY <2>1, <2>2
  <1>5. Len(Line') <= Len(cmd') /\ Len(Line') \in Nat /\ Letters' \in Nat
    BY LetterTypesNext
  <1> QED
    BY <1>1, <1>2, <1>3, <1>4, <1>5, LetterTypes, CmdMaxAssumption DEF WithinLine

\* A command takes the line as a whole, and no letter is in hand meanwhile.
LEMMA CommandWithin ==
  ASSUME AnswerInv, AnswerInv', WithinLine,
         \/ LocalCommand \/ FaultingCommand \/ KernelCommand \/ SendRequest \/ ProgramDiverges
         \/ WaitReceive \/ NotTheAnswer \/ Answered
  PROVE  WithinLine'
  <1>1. UNCHANGED <<kbd, uart>> /\ InHand' = 0
    BY DEF LocalCommand, FaultingCommand, KernelCommand, SendRequest, ProgramDiverges, WaitReceive,
           NotTheAnswer, Answered, InHand
  <1>2. Count(mailbox', LetterKeys) <= Count(mailbox, LetterKeys)
    <2>1. CASE WaitReceive
      BY <2>1, TakenLetters DEF WaitReceive
    <2>2. CASE SendRequest
      <3> DEFINE m == Response(request)
      <3>1. /\ m \in Messages /\ m.type # "KEY_PRESS" /\ mailbox \in Seq(Messages)
            /\ mailbox' = mailbox \/ mailbox' = Append(mailbox, m)
        BY <2>2, ResponseIsMessage, QueueTypes DEF SendRequest, Serve, Sent, AnswerInv
      <3> HIDE DEF m
      <3>2. m \notin LetterKeys
        BY <3>1, LetterKeyForm
      <3>3. Count(Append(mailbox, m), LetterKeys)
              = Count(mailbox, LetterKeys) + (IF m \in LetterKeys THEN 1 ELSE 0)
        BY <3>1, CountAppend
      <3>4. Count(mailbox', LetterKeys) = Count(mailbox, LetterKeys)
        <4>1. CASE mailbox' = mailbox
          BY <4>1
        <4>2. CASE mailbox' = Append(mailbox, m)
          <5>1. Count(mailbox', LetterKeys) = Count(mailbox, LetterKeys) + 0
            BY <3>2, <3>3, <4>2
          <5> QED
            BY <5>1, LetterTypes
        <4> QED
          BY <3>1, <4>1, <4>2
      <3> QED
        BY <3>4, LetterTypes
    <2>3. CASE ~(WaitReceive \/ SendRequest)
      <3>1. mailbox' = mailbox
        BY <2>3 DEF LocalCommand, FaultingCommand, KernelCommand, ProgramDiverges, NotTheAnswer,
                    Answered, mailVars
      <3> QED
        BY <3>1, LetterTypes
    <2> QED
      BY <2>1, <2>2, <2>3
  <1>3. Letters' <= Letters
    BY <1>1, <1>2, LetterTypes, LetterTypesNext
  <1>4. Len(Line') <= Len(Line)
    <2>1. Line' = <<>> \/ (Line' = cmd /\ Line = cmd)
      BY DEF LocalCommand, FaultingCommand, KernelCommand, SendRequest, ProgramDiverges,
             WaitReceive, NotTheAnswer, Answered, TheAnswer, LineEntered, Line, InCommand
    <2> QED
      BY <2>1, LetterTypes, EmptyQueue
  <1> QED
    BY <1>3, <1>4, LineShrinks

LEMMA PatientInit == Init => PatientInv
  <1> SUFFICES ASSUME Init PROVE PatientInv
    OBVIOUS
  <1>1. /\ mailbox = <<>> /\ kbd = <<>> /\ uart = <<>> /\ pc = "kbd" /\ drops = 0 /\ ~lost
        /\ cmd = <<>> /\ after = "recv" /\ Len(<<>>) = 0
    BY EmptyQueue DEF Init, MailInit
  <1>2. LineEndLast /\ Uncrowded
    BY <1>1, CapacityAssumption DEF LineEndLast, KeysIn, Uncrowded, Backlog
  <1>3. WithinLine
    <2>1. Line = <<>> /\ Letters = 0
      BY <1>1, CountEmpty DEF Line, InCommand, Letters
    <2> QED
      BY <1>1, <2>1, CmdMaxAssumption DEF WithinLine
  <1> QED
    BY <1>1, <1>2, <1>3, AnswerInit DEF PatientInv

LEMMA HastyKept == ShellStep => hasty' = hasty
  BY DEF ShellStep, PollKbd, PollUart, DrainDone, Receive, EditLine, LocalCommand,
         FaultingCommand, KernelCommand, SendRequest, ProgramDiverges, WaitReceive,
         NotTheAnswer, Answered

LEMMA PatientStep ==
  ASSUME PatientInv, [Next]_vars
  PROVE  PatientInv'
  <1>1. AnswerInv'
    BY TypingKeeps, DrainKeeps, ReceiveKeeps, KeyKeeps, SendKeeps, WaitKeeps,
       ResponseKeeps, StutterKeeps DEF Next, ShellStep, PatientInv
  <1>2. ASSUME ~hasty' PROVE Patient'
    <2>1. CASE TypeKbd \/ TypeUart
      BY <1>2, <2>1, TypingPatient
    <2>2. CASE ShellStep
      <3>1. ~hasty
        BY <1>2, <2>2, HastyKept
      <3> QED
        BY <2>2, <3>1, DrainPatient, ReceivePatient, KeyPatient, SendPatient, WaitPatient
        DEF ShellStep
    <2>3. CASE UNCHANGED vars
      <3>1. ~hasty /\ UNCHANGED <<mailbox, buffer, drops, kbd, uart, pc, request, lost>>
        BY <1>2, <2>3 DEF vars, mailVars
      <3>2. Patient /\ Uncrowded
        BY <3>1 DEF PatientInv, Patient
      <3> QED
        BY <3>1, <3>2, StillPatient DEF Uncrowded, IsAnswer
    <2> QED
      BY <2>1, <2>2, <2>3 DEF Next
  <1>3. ASSUME ~hasty' PROVE WithinLine'
    <2>1. CASE TypeKbd \/ TypeUart
      BY <1>1, <1>3, <2>1, TypingWithin
    <2>2. CASE ShellStep
      <3>1. ~hasty
        BY <1>3, <2>2, HastyKept
      <3>2. AnswerInv /\ WithinLine
        BY <3>1 DEF PatientInv
      <3> QED
        BY <1>1, <2>2, <3>2, DrainWithin, ReceiveWithin, EditWithin, CommandWithin DEF ShellStep
    <2>3. CASE UNCHANGED vars
      <3>1. ~hasty /\ UNCHANGED <<mailbox, buffer, kbd, uart, pc, after, cmd>>
        BY <1>3, <2>3 DEF vars, mailVars
      <3>2. WithinLine
        BY <3>1 DEF PatientInv
      <3> QED
        BY <3>1, <3>2 DEF WithinLine, Letters, Line, InCommand
    <2> QED
      BY <2>1, <2>2, <2>3 DEF Next
  <1> QED
    BY <1>1, <1>2, <1>3 DEF PatientInv, Patient

\* Typists who take turns, wait for the line end to be taken up and stay within a
\* mailboxful and a line lose no key, neither in the mailbox nor in the wait for an
\* answer nor at the end of the line, whatever the capacities of both.
THEOREM NothingLostCorrect == Spec => []NothingLostIfPatient
  <1>1. PatientInv => NothingLostIfPatient
    BY DEF PatientInv, NothingLostIfPatient
  <1> QED
    BY <1>1, PatientInit, PatientStep, PTL DEF Spec
=============================================================================
