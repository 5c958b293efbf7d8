------------------------------ MODULE Terminal ------------------------------
(***************************************************************************)
(* The terminal of the GUI shell (modules/shell_gui/main.c): the functions *)
(* that draw characters, and the line that is edited on them.  The screen  *)
(* is a grid of cells, one for each place a character is drawn at; a cell  *)
(* holds the glyphs drawn there since it was last painted over, as drawing *)
(* sets pixels and clears none.  A key is handled in one step: the shell   *)
(* and the kernel take turns, so nothing draws in between.                 *)
(***************************************************************************)
EXTENDS Integers, SequencesExt

CONSTANTS
  COLS, ROWS,    \* 80 and 50: 1280 by 800 pixels of characters of 16 by 16
  Glyphs,        \* characters the font has a picture of, the space aside
  OtherChars,    \* characters that draw nothing: space, tab, escape
  CMD_MAX_LEN,
  Banner, Prompt, Unknown,  \* msg_init, msg_fb and msg_wait; msg_prompt; msg_unknown
  ClearLine,     \* the command that clears the screen
  Texts          \* what the kernel, or the shell for the line "help", may answer

Chars == Glyphs \cup OtherChars
Keys == Chars \cup {"NL", "BS"}
ASSUME SizeAssumption == COLS \in Nat \ {0} /\ ROWS \in Nat \ {0} /\ CMD_MAX_LEN \in Nat \ {0}
ASSUME TextAssumption ==
  /\ {Banner, Prompt, Unknown, ClearLine} \cup Texts \subseteq Seq(Keys)
  /\ ClearLine # <<>>
\* The prompt is one line.
ASSUME PromptAssumption == Prompt \in Seq(Chars) /\ {"NL", "BS"} \cap Chars = {}

VARIABLES
  term,   \* term_ctx_t: cells, and x and y of the cursor, counted from 1
  cmd,    \* cmd_buffer[0 .. cmd_idx - 1]
  lines,  \* ghost: what was printed, laid out in lines, and no more of it than
          \*        the screen has rows
  stuck   \* ghost: a backspace deleted a character of this line whose place
          \*        is at the end of the row above

termVars == <<term, cmd, lines, stuck>>

Row == [k \in 1..COLS |-> {}]
Cleared == [cells |-> [r \in 1..ROWS |-> Row], x |-> 1, y |-> 1]

-----------------------------------------------------------------------------
(* term_putc *)

Ink(c) == {c} \cap Glyphs

Draw(t, c) == [t EXCEPT !.cells[t.y][t.x] = @ \cup Ink(c), !.x = @ + 1]
NewRow(t) == [t EXCEPT !.x = 1, !.y = @ + 1]
Wrap(t) == IF t.x + 1 > COLS + 1 THEN NewRow(t) ELSE t
Erase(t) ==
  IF t.x > 1 THEN [t EXCEPT !.x = @ - 1, !.cells[t.y][t.x - 1] = {}] ELSE t

\* mutant: the last row is moved, but stays where it was as well
ScrollKeep(t) ==
  IF t.y > ROWS
  THEN [t EXCEPT !.y = @ - 1,
                 !.cells = [r \in 1..ROWS |-> IF r < ROWS THEN @[r + 1] ELSE @[r]]]
  ELSE t
Scroll(t) ==
  IF t.y > ROWS
  THEN [t EXCEPT !.y = @ - 1,
                 !.cells = [r \in 1..ROWS |-> IF r < ROWS THEN @[r + 1] ELSE Row]]
  ELSE t

Putc(t, c) ==
  Scroll(CASE c = "NL" -> NewRow(t) [] c = "BS" -> Erase(t) [] OTHER -> Wrap(Draw(t, c)))
PrintText(t, s) ==
  LET after[i \in 0..Len(s)] == IF i = 0 THEN t ELSE Putc(after[i - 1], s[i])
  IN  after[Len(s)]

-----------------------------------------------------------------------------
(* The same text, laid out in lines *)

Latest(ls) == SubSeq(ls, Max({1, Len(ls) - ROWS + 1}), Len(ls))
LayOut(ls, c) ==
  LET now  == Last(ls)
      with == ReplaceAt(ls, Len(ls), Append(now, c))
  IN  CASE c = "NL" -> Latest(Append(ls, <<>>))
        [] c = "BS" -> IF now = <<>> THEN ls ELSE ReplaceAt(ls, Len(ls), Front(now))
        [] OTHER -> IF Len(now) + 1 = COLS THEN Latest(Append(with, <<>>)) ELSE with
LayOutText(ls, s) ==
  LET after[i \in 0..Len(s)] == IF i = 0 THEN ls ELSE LayOut(after[i - 1], s[i])
  IN  after[Len(s)]

\* A text is printed, on a screen that may have been cleared before.
Shown(t, ls, text) ==
  /\ term' = PrintText(t, text)
  /\ lines' = LayOutText(ls, text)

-----------------------------------------------------------------------------
(* shell_main *)

TermInit == term = Cleared /\ lines = <<<<>>>> /\ cmd = <<>> /\ stuck = FALSE

Start ==
  /\ Shown(Cleared, <<<<>>>>, Banner \o Prompt)
  /\ UNCHANGED <<cmd, stuck>>

\* An answer of the kernel, or help.  A line without a dot that is not
\* known is repeated.  (Two answers halt the machine: see GuiShell.)
Answers == IF "." \in ToSet(cmd) THEN Texts ELSE {Unknown \o cmd \o <<"NL">>}

Enter ==
  /\ CASE cmd = <<>> -> Shown(term, lines, <<"NL">> \o Prompt)
       [] cmd = ClearLine -> Shown(Cleared, <<<<>>>>, Prompt)
       [] OTHER -> \E a \in Answers : Shown(term, lines, <<"NL">> \o a \o Prompt)
  /\ cmd' = <<>> /\ stuck' = FALSE

\* mutant: the prompt can be deleted
BackspaceAny ==
  /\ Shown(term, lines, <<"BS">>)
  /\ cmd' = IF cmd = <<>> THEN cmd ELSE Front(cmd)
  /\ stuck' = (stuck \/ (cmd # <<>> /\ term.x = 1))

Backspace ==
  IF cmd = <<>> THEN UNCHANGED termVars
  ELSE /\ Shown(term, lines, <<"BS">>)
       /\ cmd' = Front(cmd)
       /\ stuck' = (stuck \/ term.x = 1)

Type(c) ==
  IF Len(cmd) < CMD_MAX_LEN - 1
  THEN Shown(term, lines, <<c>>) /\ cmd' = Append(cmd, c) /\ UNCHANGED stuck
  ELSE UNCHANGED termVars

Key == Enter \/ Backspace \/ \E c \in Chars : Type(c)

-----------------------------------------------------------------------------
(* Properties *)

\* The screen shows what was printed, in lines that break at its edge, the
\* latest rows of it and nothing else: no glyph over another, none left behind
\* by a scroll or a wrap; and the cursor is behind the last character.
ScreenShowsOutput ==
  /\ term.y = Len(lines) /\ term.x = Len(Last(lines)) + 1
  /\ term.x \in 1..COLS /\ term.y \in 1..ROWS
  /\ \A r \in 1..ROWS, k \in 1..COLS :
       term.cells[r][k] =
         IF r <= Len(lines) /\ k <= Len(lines[r]) THEN Ink(lines[r][k]) ELSE {}

\* The cells before the cursor, in reading order
BeforeCursor ==
  [i \in 1..((term.y - 1) * COLS + term.x - 1) |->
     term.cells[(i - 1) \div COLS + 1][((i - 1) % COLS) + 1]]
CommandLine == Prompt \o cmd

\* What stands before the cursor is the prompt and the line that the next
\* Enter executes, as far as the screen holds it, unless a backspace had to
\* erase a character on the row above: it deletes it and erases nothing (lines
\* 243 and 482).
LineShown ==
  ~stuck =>
    LET n == Min({Len(BeforeCursor), Len(CommandLine)})
    IN  \A i \in 1..n :
          BeforeCursor[Len(BeforeCursor) - n + i] = Ink(CommandLine[Len(CommandLine) - n + i])
=============================================================================
