------------------------------ MODULE Keyboard ------------------------------
(***************************************************************************)
(* The decoding of key events in virtio_input_poll (kernel/virtio.c).  The *)
(* driver keeps one flag for both shift keys and sets it from the latest   *)
(* event of either; the user's fingers are what it has to agree with.      *)
(* Between the keyboard and the driver is a bounded queue of events, which *)
(* RxQueue shows the ring of buffers to be.  A change of a key arrives as  *)
(* an event of the key and a SYN, and both are lost when the queue has no  *)
(* room for both.                                                          *)
(***************************************************************************)
EXTENDS Integers, Sequences

CONSTANTS
  keymap_us_lower, keymap_us_upper,  \* functions from codes to characters
  Codes,       \* codes of the keys that are pressed, shift keys aside
  QUEUE_SIZE   \* events that fit in the queue

NUL == "NUL"   \* the character 0
Shifts == {42, 54}
ASSUME CodeAssumption == Codes \subseteq Nat \ Shifts
ASSUME MapAssumption == DOMAIN keymap_us_lower = DOMAIN keymap_us_upper
ASSUME EventsAssumption == QUEUE_SIZE \in Nat

VARIABLES
  queue,         \* events on their way; ghosts in each: what the user meant by
                 \* it, and whether the flag may be wrong when it is decoded
  down,          \* keys held down
  doubt,         \* ghost: an event has been lost, or told the driver less than
                 \*        the truth, since the last one that set the flag right
  shift_active,
  ascii,         \* what the last poll returned
  polled         \* ghost: the event of the last poll

keyboardVars == <<queue, down, doubt, shift_active, ascii, polled>>

\* The arrays have 128 places; those that no character is given for hold 0.
Map(map, code) == IF code < 128 /\ code \in DOMAIN map THEN map[code] ELSE NUL
Syn == [type |-> 0, code |-> 0, value |-> 0, meant |-> NUL, doubt |-> FALSE]

KeyboardStart ==
  /\ queue = <<>> /\ down = {} /\ doubt = FALSE
  /\ shift_active = FALSE /\ ascii = NUL /\ polled = Syn

-----------------------------------------------------------------------------
(* The keyboard: value 1 for a press, 0 for a release, 2 for a repeat *)

Meant(code) ==
  Map(IF down \cap Shifts # {} THEN keymap_us_upper ELSE keymap_us_lower, code)

Change(code, value, now) ==
  /\ down' = now
  /\ IF Len(queue) + 2 <= QUEUE_SIZE
     THEN /\ queue' = queue \o
               <<[type |-> 1, code |-> code, value |-> value, doubt |-> doubt,
                  meant |-> IF code \in Shifts \/ value = 0 THEN NUL ELSE Meant(code)], Syn>>
          \* What the driver makes of the event is right if it is what is held.
          /\ doubt' = IF code \in Shifts THEN (value = 1) # (now \cap Shifts # {}) ELSE doubt
     ELSE /\ doubt' = (doubt \/ code \in Shifts)
          /\ UNCHANGED queue
  /\ UNCHANGED <<shift_active, ascii, polled>>

Press == \E c \in (Codes \cup Shifts) \ down : Change(c, 1, down \cup {c})
Release == \E c \in down : Change(c, 0, down \ {c})
\* Some keyboards repeat a key that is held, shift keys too; others press it
\* again, which the driver cannot tell from a press.
Repeat == \E c \in down, v \in {1, 2} : Change(c, v, down)

-----------------------------------------------------------------------------
(* virtio_input_poll *)

ShiftSticky(e) == shift_active \/ e.value = 1  \* mutant: a release is ignored
ShiftAfter(e) == e.value = 1

Poll ==
  LET evt == Head(queue)
      key == evt.type = 1
      shift == evt.code \in Shifts
  IN
  /\ queue # <<>>
  /\ queue' = Tail(queue) /\ polled' = evt
  /\ shift_active' = IF key /\ shift THEN ShiftAfter(evt) ELSE shift_active
  /\ ascii' = IF key /\ ~shift /\ evt.value \in {1, 2}
              THEN Map(IF shift_active THEN keymap_us_upper ELSE keymap_us_lower, evt.code)
              ELSE NUL
  /\ UNCHANGED <<down, doubt>>

PollNothing ==
  /\ queue = <<>>
  /\ ascii' = NUL /\ polled' = Syn
  /\ UNCHANGED <<queue, down, doubt, shift_active>>

KeyboardStep == Press \/ Release \/ Repeat \/ Poll \/ PollNothing
KeyboardSpec == KeyboardStart /\ [][KeyboardStep]_keyboardVars

-----------------------------------------------------------------------------
(* Properties *)

\* Every poll returns the character that the user meant with the event.  Only
\* its case may be wrong, and only until the next event of a shift key that
\* says what is held: after one was lost, after one of two held shift keys was
\* released, and after a repeat of a held one, which counts as its release.
ReadAsTyped ==
  \/ ascii = polled.meant
  \/ /\ polled.doubt
     /\ ascii \in {Map(keymap_us_lower, polled.code), Map(keymap_us_upper, polled.code)}
=============================================================================
