-------------------------------- MODULE Vga --------------------------------
(***************************************************************************)
(* VgaBuffer of kernel/src/io/vga.rs: putc writes characters to the bottom *)
(* row of the text screen, scrolls, and moves the hardware cursor through  *)
(* the index and data ports of the CRT controller.                         *)
(*                                                                         *)
(* VGA_BUFFER.get_mut() hands the same &mut VgaBuffer to main and to the   *)
(* keyboard handler that interrupts it, so putc is modelled step by step:  *)
(* each action is one access to col_pos, to a row of the screen or to a    *)
(* port.  The handler runs to its end before main goes on.                 *)
(*                                                                         *)
(* With two live &mut references the compiler may keep col_pos in a        *)
(* register for the rest of a putc (a release build) or read it from memory*)
(* each time (a debug build): Cached allows the first besides the second.  *)
(***************************************************************************)
EXTENDS Integers

CONSTANTS
  BUFFER_HEIGHT, BUFFER_WIDTH,  \* 25 and 80
  ByteMod,       \* 256: the cursor position is written as two bytes
  Glyphs,        \* printable characters
  MainBytes,     \* what main prints ...
  HandlerBytes,  \* ... and what the keyboard handler prints
  MaxInterrupts, \* bound: keys during a behaviour
  Cached

Controls == {"newline", "return", "backspace", "del"}

ASSUME ScreenAssumption ==
  /\ BUFFER_HEIGHT \in Nat \ {0, 1} /\ BUFFER_WIDTH \in Nat \ {0, 1}
  /\ ByteMod \in Nat \ {0, 1} /\ BUFFER_HEIGHT * BUFFER_WIDTH <= ByteMod * ByteMod
  /\ MainBytes \cup HandlerBytes \subseteq Glyphs \cup Controls
  /\ Glyphs \cap (Controls \cup {" "}) = {}
  /\ MaxInterrupts \in Nat /\ Cached \in BOOLEAN

Bottom == BUFFER_HEIGHT - 1
LastCol == BUFFER_WIDTH - 1
Rows == 0 .. Bottom
Cols == 0 .. LastCol
Contexts == {"main", "handler"}

VARIABLES
  chars,     \* the screen
  col_pos,
  index,     \* the CRT register selected through port 0x3D4: "low" or "high"
  crt,       \* the cursor position registers
  at,        \* where each context is in putc, "idle" when outside
  byte,      \* the argument of putc
  row,       \* the loop variable of new_line
  reg,       \* each context's copy of col_pos
  pos,       \* update_cursor's pos
  interrupts, panicked,
  terminal,  \* ghost: what a terminal would show, up to the first key
  placed,    \* ghost: the cursor has been placed since boot
  torn,      \* ghost: main's putc that placed it last was interrupted
  crossed    \* ghost: a key came where main's putc works on col_pos, and no
             \* newline or return of main has reset the column since

vars == <<chars, col_pos, index, crt, at, byte, row, reg, pos, interrupts,
          panicked, terminal, placed, torn, crossed>>
ghosts == <<terminal, placed, torn, crossed>>

----------------------------------------------------------------------------
(* The reference: a terminal that takes a byte at a time.  It has the rows *)
(* above the bottom one, the line being written and the column.            *)

BlankLine == [c \in Cols |-> " "]

BootTerminal ==
  LET line == [c \in Cols |-> "bios"]
  IN  [above |-> [r \in Rows \ {Bottom} |-> line], line |-> line, col |-> 0]

Scroll(t, line) ==
  [above |-> [r \in Rows \ {Bottom} |->
                IF r = Bottom - 1 THEN line ELSE t.above[r + 1]],
   line |-> BlankLine, col |-> 0]

TermPut(t, b) ==
  CASE b = "newline" -> Scroll(t, t.line)
    [] b = "return" -> [t EXCEPT !.col = 0]
    [] b = "backspace" ->
         IF t.col = 0 THEN t
         ELSE [t EXCEPT !.line[t.col - 1] = " ", !.col = @ - 1]
    [] b = "del" ->
         [t EXCEPT !.line = [c \in Cols |-> IF c = LastCol THEN " "
                                            ELSE IF c < t.col THEN t.line[c]
                                            ELSE t.line[c + 1]]]
    [] OTHER ->
         IF t.col = LastCol THEN Scroll(t, [t.line EXCEPT ![LastCol] = b])
         ELSE [t EXCEPT !.line[t.col] = b, !.col = @ + 1]

TermClear(t) ==
  [above |-> [r \in Rows \ {Bottom} |-> BlankLine], line |-> BlankLine, col |-> t.col]

----------------------------------------------------------------------------
(* The screen holds what the BIOS left, and the cursor is where it was;    *)
(* VgaBuffer::new sets col_pos and touches neither.                        *)

Init ==
  /\ chars = [r \in Rows |-> [c \in Cols |-> "bios"]]
  /\ col_pos = 0
  /\ index \in {"low", "high"}
  /\ crt = [low |-> 0, high |-> 0]
  /\ at = [c \in Contexts |-> "idle"]
  /\ byte = [c \in Contexts |-> "newline"]
  /\ row = [c \in Contexts |-> 0]
  /\ reg = [c \in Contexts |-> 0]
  /\ pos = [c \in Contexts |-> 0]
  /\ interrupts = 0 /\ panicked = FALSE
  /\ terminal = BootTerminal
  /\ placed = FALSE /\ torn = FALSE /\ crossed = FALSE

\* The values a read of col_pos by context c may give.
Reads(c) == {col_pos} \cup IF Cached THEN {reg[c]} ELSE {}

CanRun(c) == ~panicked /\ (c = "main" => at["handler"] = "idle")

Step(c, from, to) ==
  /\ CanRun(c) /\ at[c] = from
  /\ at' = [at EXCEPT ![c] = to]

\* An index out of bounds or an underflow: the panic handler takes over.
Panic(c, from) ==
  /\ CanRun(c) /\ at[c] = from
  /\ panicked' = TRUE
  /\ UNCHANGED <<chars, col_pos, index, crt, at, byte, row, reg, pos, interrupts,
                 ghosts>>

Quiet == UNCHANGED <<interrupts, panicked, ghosts>>

\* The match of putc on its argument; a backspace in column 0 does nothing.
Entry(b) ==
  CASE b = "newline" -> "copy"
    [] b = "return" -> "home"
    [] b = "backspace" -> IF col_pos > 0 THEN "erase" ELSE "idle"
    [] b = "del" -> "shift"
    [] OTHER -> "put"

putc(c, b) ==
  /\ Step(c, "idle", Entry(b))
  /\ byte' = [byte EXCEPT ![c] = b]
  /\ reg' = [reg EXCEPT ![c] = col_pos]
  /\ row' = [row EXCEPT ![c] = 1]
  /\ terminal' = IF c = "main" /\ interrupts = 0 THEN TermPut(terminal, b)
                  ELSE BootTerminal
  /\ UNCHANGED <<chars, col_pos, index, crt, pos, panicked, placed>>

MainPutc ==
  /\ \E b \in MainBytes : putc("main", b)
  /\ torn' = IF at'["main"] \in {"idle", "shift"} THEN torn ELSE FALSE
  /\ UNCHANGED <<interrupts, crossed>>

\* clear: the rows are blanked one by one; col_pos and the cursor stay.
Clear ==
  /\ Step("main", "idle", "wipe")
  /\ row' = [row EXCEPT !["main"] = 0]
  /\ terminal' = IF interrupts = 0 THEN TermClear(terminal) ELSE BootTerminal
  /\ UNCHANGED <<chars, col_pos, index, crt, byte, reg, pos, interrupts, panicked,
                 placed, torn, crossed>>

WipeRow ==
  /\ Step("main", "wipe", IF row["main"] = Bottom THEN "idle" ELSE "wipe")
  /\ chars' = [chars EXCEPT ![row["main"]] = BlankLine]
  /\ row' = [row EXCEPT !["main"] = @ + 1]
  /\ UNCHANGED <<col_pos, index, crt, byte, reg, pos>> /\ Quiet

\* Where putc has still to read col_pos.
Working == {"put", "test", "advance", "erase", "back", "shift"}

\* A key arrives and keyboard_handler prints its character.
KeyInterrupts ==
  /\ interrupts < MaxInterrupts
  /\ interrupts' = interrupts + 1
  /\ \E b \in HandlerBytes : putc("handler", b)
  /\ torn' = (torn \/ at["main"] # "idle")
  /\ crossed' = (crossed \/ at["main"] \in Working)

Put(c) ==
  \E v \in Reads(c) :
    IF v \in Cols
      THEN /\ Step(c, "put", "test")
           /\ chars' = [chars EXCEPT ![Bottom][v] = byte[c]]
           /\ UNCHANGED <<col_pos, index, crt, byte, row, reg, pos>> /\ Quiet
      ELSE Panic(c, "put")

Test_OffByOne(c) ==
  /\ \E v \in Reads(c) : Step(c, "test", IF v = BUFFER_WIDTH THEN "copy" ELSE "advance")
  /\ UNCHANGED <<chars, col_pos, index, crt, byte, row, reg, pos>> /\ Quiet
Test(c) ==
  /\ \E v \in Reads(c) : Step(c, "test", IF v = LastCol THEN "copy" ELSE "advance")
  /\ UNCHANGED <<chars, col_pos, index, crt, byte, row, reg, pos>> /\ Quiet

SetCol(c, from, v) ==
  /\ Step(c, from, "cursor")
  /\ col_pos' = v
  /\ reg' = [reg EXCEPT ![c] = v]
  /\ crossed' = (crossed /\ <<c, from>> # <<"main", "home">>)
  /\ UNCHANGED <<chars, index, crt, byte, row, pos, interrupts, panicked, terminal, placed, torn>>

Advance(c) == \E v \in Reads(c) : SetCol(c, "advance", v + 1)

\* new_line: the rows move up one by one, then the bottom row is cleared.
CopyRow(c) ==
  /\ Step(c, "copy", IF row[c] = Bottom THEN "clear" ELSE "copy")
  /\ chars' = [chars EXCEPT ![row[c] - 1] = chars[row[c]]]
  /\ row' = [row EXCEPT ![c] = @ + 1]
  /\ UNCHANGED <<col_pos, index, crt, byte, reg, pos>> /\ Quiet

clear_row(c) ==
  /\ Step(c, "clear", "home")
  /\ chars' = [chars EXCEPT ![Bottom] = BlankLine]
  /\ UNCHANGED <<col_pos, index, crt, byte, row, reg, pos>> /\ Quiet

Home(c) == SetCol(c, "home", 0)

\* backspace: blank the cell before the cursor, then step back.
Erase(c) ==
  \E v \in Reads(c) :
    IF v - 1 \in Cols
      THEN /\ Step(c, "erase", "back")
           /\ chars' = [chars EXCEPT ![Bottom][v - 1] = " "]
           /\ UNCHANGED <<col_pos, index, crt, byte, row, reg, pos>> /\ Quiet
      ELSE Panic(c, "erase")

Back(c) ==
  \E v \in Reads(c) : IF v > 0 THEN SetCol(c, "back", v - 1) ELSE Panic(c, "back")

\* del: copy_within(col_pos + 1..BUFFER_WIDTH, col_pos), and a blank behind.
Shift(c) ==
  \E v \in Reads(c) :
    IF v \in Cols
      THEN /\ Step(c, "shift", "idle")
           /\ chars' = [chars EXCEPT ![Bottom] =
                          [k \in Cols |-> IF k = LastCol THEN " "
                                          ELSE IF k < v THEN @[k] ELSE @[k + 1]]]
           /\ UNCHANGED <<col_pos, index, crt, byte, row, reg, pos>> /\ Quiet
      ELSE Panic(c, "shift")

\* update_cursor: the position, then index and data port twice.
Cursor(c) ==
  /\ Step(c, "cursor", "select_low")
  /\ \E v \in Reads(c) : pos' = [pos EXCEPT ![c] = Bottom * BUFFER_WIDTH + v]
  /\ UNCHANGED <<chars, col_pos, index, crt, byte, row, reg>> /\ Quiet

Select(c, from, to, register) ==
  /\ Step(c, from, to)
  /\ index' = register
  /\ UNCHANGED <<chars, col_pos, crt, byte, row, reg, pos>> /\ Quiet

SelectLow_Forgotten(c) ==
  /\ Step(c, "select_low", "low")
  /\ UNCHANGED <<chars, col_pos, index, crt, byte, row, reg, pos>> /\ Quiet
SelectLow(c) == Select(c, "select_low", "low", "low")
SelectHigh(c) == Select(c, "select_high", "high", "high")

WriteLow(c) ==
  /\ Step(c, "low", "select_high")
  /\ crt' = [crt EXCEPT ![index] = pos[c] % ByteMod]
  /\ UNCHANGED <<chars, col_pos, index, byte, row, reg, pos>> /\ Quiet

WriteHigh(c) ==
  /\ Step(c, "high", "idle")
  /\ crt' = [crt EXCEPT ![index] = (pos[c] \div ByteMod) % ByteMod]
  /\ placed' = TRUE
  /\ UNCHANGED <<chars, col_pos, index, byte, row, reg, pos, interrupts, panicked,
                 terminal, torn, crossed>>

Next ==
  \/ MainPutc
  \/ Clear \/ WipeRow
  \/ KeyInterrupts
  \/ \E c \in Contexts :
       \/ Put(c) \/ Test(c) \/ Advance(c)
       \/ CopyRow(c) \/ clear_row(c) \/ Home(c)
       \/ Erase(c) \/ Back(c) \/ Shift(c)
       \/ Cursor(c) \/ SelectLow(c) \/ WriteLow(c) \/ SelectHigh(c) \/ WriteHigh(c)

Spec == Init /\ [][Next]_vars

----------------------------------------------------------------------------
(* Properties.                                                             *)

AtRest == \A c \in Contexts : at[c] = "idle"
CursorAt == crt.low + ByteMod * crt.high

\* As long as no key interrupts it, putc never panics and shows what the
\* reference terminal shows: scrolling on a newline and behind the last
\* column, editing with backspace and del, the rows above untouched by all of
\* these, and clear leaving the column where it was.
ShowsTerminal ==
  interrupts = 0 =>
    /\ ~panicked
    /\ AtRest =>
         /\ col_pos = terminal.col
         /\ chars = [r \in Rows |->
                      IF r = Bottom THEN terminal.line ELSE terminal.above[r]]

\* Every index that putc computes lies on the screen.
ColumnOnScreen == col_pos \in Cols /\ ~panicked

\* The keyboard can take the column off the screen, and putc out of bounds,
\* only with a key that comes where a putc of main works on col_pos; keys at
\* any other time do no harm, and the next newline or return of main makes
\* good what such a key has done.
OnlyRacesLoseColumn == ~crossed => ColumnOnScreen

\* Whatever the keyboard interrupted before, a character that main prints
\* without interruption puts the cursor where the next one will appear, as far
\* as the two registers hold the position.
CursorHeals ==
  AtRest /\ placed /\ ~torn =>
    CursorAt = (Bottom * BUFFER_WIDTH + col_pos) % (ByteMod * ByteMod)
============================================================================
