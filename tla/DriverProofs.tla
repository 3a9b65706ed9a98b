---------------------------- MODULE DriverProofs ----------------------------
(***************************************************************************)
(* Proofs about the drivers of the text screen (Vga) and of the interval   *)
(* timer (Pit), for any size of the screen, bytes printed, number of       *)
(* interrupts and arguments of the calls.                                  *)
(***************************************************************************)
EXTENDS Vga, Pit, TLAPS

----------------------------------------------------------------------------
(* The screen: what the stages of putc leave to each other.                *)

Cells == Glyphs \cup Controls \cup {" ", "bios"}
CursorStages == {"select_low", "low", "select_high", "high"}
Stages == {"idle", "put", "test", "advance", "copy", "clear", "home", "erase", "back",
           "shift", "cursor", "wipe"} \cup CursorStages

TypeInv ==
  /\ chars \in [Rows -> [Cols -> Cells]]
  /\ col_pos \in Nat /\ index \in {"low", "high"} /\ crt \in [low : Nat, high : Nat]
  /\ at \in [Contexts -> Stages] /\ byte \in [Contexts -> Glyphs \cup Controls]
  /\ row \in [Contexts -> Nat] /\ reg \in [Contexts -> Nat] /\ pos \in [Contexts -> Nat]
  /\ interrupts \in Nat /\ panicked \in BOOLEAN /\ placed \in BOOLEAN /\ torn \in BOOLEAN

\* The loops of new_line and clear stay on the screen, and the handler never
\* clears it.
LoopInv ==
  /\ \A c \in Contexts : /\ at[c] = "copy" => row[c] \in 1 .. Bottom
                         /\ at[c] \in {"put", "test"} => row[c] = 1
  /\ at["main"] = "wipe" => row["main"] \in 0 .. Bottom
  /\ at["handler"] # "wipe"

Target == Bottom * BUFFER_WIDTH + col_pos

\* What a context has done of update_cursor.
Placing(c) ==
  /\ at[c] = "cursor" => reg[c] = col_pos
  /\ at[c] \in CursorStages => pos[c] = Target
  /\ at[c] = "low" => index = "low"
  /\ at[c] \in {"select_high", "high"} => crt.low = Target % ByteMod
  /\ at[c] = "high" => index = "high"

\* While the putc that main began last has not been interrupted, at most one
\* context is in putc, its own column is the one in memory, and outside of the
\* putcs that move the column the cursor is where it belongs.
CursorInv ==
  ~torn =>
    /\ at["main"] = "idle" \/ at["handler"] = "idle"
    /\ placed /\ (\A c \in Contexts : at[c] \in {"idle", "shift", "wipe"}) =>
         CursorAt = Target % (ByteMod * ByteMod)
    /\ \A c \in Contexts : Placing(c)

\* The screen ch with the column col as a terminal, and the terminal that the
\* rest of a putc of b or of a clear, from its stage and row on, will make of it.
Term(above, line, col) == [above |-> above, line |-> line, col |-> col]
Upper == Rows \ {Bottom}
Above(ch) == [k \in Upper |-> ch[k]]
Shown(ch, col) == Term(Above(ch), ch[Bottom], col)

Pending(stage, r, b, ch, col) ==
  CASE stage \in {"put", "erase", "shift"} -> TermPut(Shown(ch, col), b)
    [] stage = "test" -> IF col = LastCol THEN Scroll(Shown(ch, col), ch[Bottom])
                         ELSE Term(Above(ch), ch[Bottom], col + 1)
    [] stage = "advance" -> Term(Above(ch), ch[Bottom], col + 1)
    [] stage = "copy" ->
         Term([k \in Upper |-> IF k < r - 1 THEN ch[k] ELSE ch[k + 1]], BlankLine, 0)
    [] stage = "clear" -> Term(Above(ch), BlankLine, 0)
    [] stage = "home" -> Term(Above(ch), ch[Bottom], 0)
    [] stage = "back" -> Term(Above(ch), ch[Bottom], col - 1)
    [] stage = "wipe" ->
         Term([k \in Upper |-> IF k < r THEN ch[k] ELSE BlankLine], BlankLine, col)
    [] OTHER -> Shown(ch, col)

\* While main is alone it works on its own column, which is on the screen, has
\* passed the tests that led to its stage, and owes the terminal what is pending.
Alone ==
  /\ ~panicked /\ at["handler"] = "idle" /\ col_pos \in Cols
  /\ at["main"] \notin {"idle", "wipe"} => reg["main"] = col_pos
  /\ at["main"] = "put" => byte["main"] \notin Controls
  /\ at["main"] = "erase" => byte["main"] = "backspace"
  /\ at["main"] \in {"erase", "back"} => col_pos > 0
  /\ at["main"] = "shift" => byte["main"] = "del"
  /\ at["main"] = "advance" => col_pos # LastCol
  /\ terminal = Pending(at["main"], row["main"], byte["main"], chars, col_pos)

ShowInv == interrupts = 0 => Alone

LEMMA Sizes ==
  /\ BUFFER_HEIGHT \in Nat /\ BUFFER_HEIGHT > 1 /\ BUFFER_WIDTH \in Nat /\ BUFFER_WIDTH > 1
  /\ ByteMod \in Nat /\ ByteMod > 1
<1>1. BUFFER_HEIGHT \in Nat \ {0, 1} /\ BUFFER_WIDTH \in Nat \ {0, 1} /\ ByteMod \in Nat \ {0, 1}
  BY ScreenAssumption, Zenon
<1> QED BY <1>1

LEMMA Screen ==
  /\ Bottom \in Nat /\ Bottom >= 1 /\ Bottom \in Rows /\ Rows = 0 .. Bottom
  /\ LastCol \in Nat /\ LastCol >= 1 /\ Cols = 0 .. LastCol /\ Cols \subseteq Nat
  /\ BlankLine \in [Cols -> Cells]
  /\ BUFFER_WIDTH \in Nat
<1>1. BlankLine \in [Cols -> Cells]
  BY DEF BlankLine, Cells
<1> QED BY <1>1, Sizes DEF Bottom, Rows, LastCol, Cols

LEMMA TypeInit == Init => TypeInv /\ LoopInv
<1> SUFFICES ASSUME Init PROVE TypeInv /\ LoopInv
  OBVIOUS
<1>1. chars \in [Rows -> [Cols -> Cells]]
  BY DEF Init, Cells
<1>2. byte \in [Contexts -> Glyphs \cup Controls]
  BY DEF Init, Controls
<1>3. at \in [Contexts -> Stages]
  BY DEF Init, Stages
<1>4. LoopInv
  BY DEF Init, LoopInv, Contexts
<1> QED BY <1>1, <1>2, <1>3, <1>4 DEF Init, TypeInv

\* Every value that a context can read for col_pos is a number.
LEMMA ReadsNat ==
  ASSUME TypeInv, NEW c \in Contexts, NEW v \in Reads(c)
  PROVE  v \in Nat
BY DEF TypeInv, Reads



\* A step of one context leaves the other where it is.
LEMMA StepAt ==
  ASSUME TypeInv, NEW c \in Contexts, NEW from, NEW to \in Stages, Step(c, from, to)
  PROVE  /\ at' \in [Contexts -> Stages]
         /\ at[c] = from /\ at'[c] = to
         /\ \A d \in Contexts : d # c => at'[d] = at[d]
         /\ CanRun(c)
BY DEF TypeInv, Step

LEMMA StageNames ==
  \A s \in {"idle", "put", "test", "advance", "copy", "clear", "home", "erase", "back", "shift",
            "cursor", "wipe", "select_low", "low", "select_high", "high"} : s \in Stages
BY DEF Stages, CursorStages

\* The loops stay on the screen when a context leaves its stage for one that
\* is not in a loop.
LEMMA LeaveLoop ==
  ASSUME TypeInv, LoopInv, NEW c \in Contexts, NEW from, NEW to \in Stages, Step(c, from, to),
         row' = row, to \notin {"put", "test", "copy", "wipe"}
  PROVE  LoopInv'
<1>1. /\ at'[c] = to /\ \A d \in Contexts : d # c => at'[d] = at[d]
  BY StepAt
<1> QED BY <1>1 DEF LoopInv, Contexts

LEMMA PutcType ==
  ASSUME TypeInv, LoopInv, NEW c \in Contexts, NEW b \in Glyphs \cup Controls, putc(c, b),
         interrupts' \in Nat, torn' \in BOOLEAN
  PROVE  TypeInv' /\ LoopInv'
<1>1. Entry(b) \in Stages /\ Entry(b) # "wipe"
  BY StageNames DEF Entry
<1>2. Step(c, "idle", Entry(b))
  BY DEF putc
<1>3. /\ at' \in [Contexts -> Stages] /\ at'[c] = Entry(b)
      /\ \A d \in Contexts : d # c => at'[d] = at[d]
  BY <1>1, <1>2, StepAt
<1>4. TypeInv'
  BY <1>3 DEF TypeInv, putc
<1>5. row'[c] = 1 /\ \A d \in Contexts : d # c => row'[d] = row[d]
  BY DEF putc, TypeInv
<1>6. LoopInv'
  BY <1>1, <1>3, <1>5, Screen DEF LoopInv, Contexts
<1> QED BY <1>4, <1>6

LEMMA PanicType ==
  ASSUME TypeInv, LoopInv, NEW c \in Contexts, NEW from, Panic(c, from)
  PROVE  TypeInv' /\ LoopInv'
BY DEF TypeInv, LoopInv, Panic, ghosts

\* Writes to the bottom row.
LEMMA BottomLine ==
  ASSUME TypeInv, NEW line \in [Cols -> Cells], chars' = [chars EXCEPT ![Bottom] = line]
  PROVE  /\ chars' \in [Rows -> [Cols -> Cells]]
         /\ chars'[Bottom] = line
         /\ \A r \in Rows : r # Bottom => chars'[r] = chars[r]
BY Screen DEF TypeInv

LEMMA BottomCell ==
  ASSUME TypeInv, NEW k \in Cols, NEW x \in Cells, chars' = [chars EXCEPT ![Bottom][k] = x]
  PROVE  /\ chars' \in [Rows -> [Cols -> Cells]]
         /\ chars'[Bottom] = [chars[Bottom] EXCEPT ![k] = x]
         /\ \A r \in Rows : r # Bottom => chars'[r] = chars[r]
<1> DEFINE line == [chars[Bottom] EXCEPT ![k] = x]
<1>1. line \in [Cols -> Cells]
  BY Screen DEF TypeInv
<1>2. chars' = [chars EXCEPT ![Bottom] = line]
  BY Zenon
<1> HIDE DEF line
<1> QED BY <1>1, <1>2, BottomLine DEF line

\* The line that del leaves behind, for a column v.
Closed(line, v) ==
  [k \in Cols |-> IF k = LastCol THEN " " ELSE IF k < v THEN line[k] ELSE line[k + 1]]

LEMMA ClosedLine ==
  ASSUME NEW line \in [Cols -> Cells], NEW v \in Cols
  PROVE  Closed(line, v) \in [Cols -> Cells]
<1>1. " " \in Cells
  BY DEF Cells
<1>2. \A k \in Cols : k # LastCol => k + 1 \in Cols
  BY Screen
<1> QED BY <1>1, <1>2 DEF Closed

\* 0x7f closes the gap at the column it reads, or panics.
LEMMA ShiftIs ==
  ASSUME NEW c, Shift(c)
  PROVE  \E v \in Reads(c) :
           \/ /\ v \in Cols /\ Step(c, "shift", "idle")
              /\ chars' = [chars EXCEPT ![Bottom] = Closed(chars[Bottom], v)]
              /\ UNCHANGED <<col_pos, index, crt, byte, row, reg, pos>> /\ Quiet
           \/ v \notin Cols /\ Panic(c, "shift")
<1>1. PICK v \in Reads(c) :
        IF v \in Cols
          THEN /\ Step(c, "shift", "idle")
               /\ chars' = [chars EXCEPT ![Bottom] =
                              [k \in Cols |-> IF k = LastCol THEN " "
                                              ELSE IF k < v THEN @[k] ELSE @[k + 1]]]
               /\ UNCHANGED <<col_pos, index, crt, byte, row, reg, pos>> /\ Quiet
          ELSE Panic(c, "shift")
  BY DEF Shift
<1>2. CASE v \in Cols
  <2>1. chars' = [chars EXCEPT ![Bottom] = Closed(chars[Bottom], v)]
    BY <1>1, <1>2, Zenon DEF Closed
  <2> QED BY <1>1, <1>2, <2>1
<1>3. CASE v \notin Cols
  BY <1>1, <1>3
<1> QED BY <1>2, <1>3

LEMMA ColType ==
  ASSUME TypeInv, LoopInv, NEW c \in Contexts, NEW from, NEW v \in Nat, SetCol(c, from, v)
  PROVE  TypeInv' /\ LoopInv'
<1>1. Step(c, from, "cursor") /\ row' = row
  BY DEF SetCol
<1>2. at' \in [Contexts -> Stages] /\ LoopInv'
  BY <1>1, StepAt, LeaveLoop, StageNames
<1> QED BY <1>2 DEF TypeInv, SetCol, Quiet, ghosts

\* The steps that write to the bottom row, or to no row.
LEMMA PlainType ==
  ASSUME TypeInv, LoopInv, NEW c \in Contexts, NEW from, NEW to \in Stages, Step(c, from, to),
         to \notin {"put", "copy", "wipe"}, to = "test" => from = "put",
         chars' \in [Rows -> [Cols -> Cells]],
         index' \in {"low", "high"}, crt' \in [low : Nat, high : Nat],
         pos' \in [Contexts -> Nat], placed' \in BOOLEAN,
         UNCHANGED <<col_pos, byte, row, reg, interrupts, panicked, torn>>
  PROVE  TypeInv' /\ LoopInv'
<1>1. /\ at' \in [Contexts -> Stages]
      /\ at[c] = from /\ at'[c] = to
      /\ \A d \in Contexts : d # c => at'[d] = at[d]
  BY StepAt
<1>2. LoopInv'
  BY <1>1 DEF LoopInv, Contexts
<1> QED BY <1>1, <1>2 DEF TypeInv

\* Every step keeps the types and the bounds of the loops.
LEMMA NextType ==
  ASSUME TypeInv, LoopInv, [Next]_vars
  PROVE  TypeInv' /\ LoopInv'
<1> USE DEF Quiet, ghosts
<1>1. CASE MainPutc
  <2>1. PICK b \in MainBytes : putc("main", b)
    BY <1>1 DEF MainPutc
  <2>2. interrupts' \in Nat /\ torn' \in BOOLEAN
    BY <1>1 DEF MainPutc, TypeInv
  <2> QED BY <2>1, <2>2, PutcType, ScreenAssumption DEF Contexts
<1>2. CASE KeyInterrupts
  <2>1. PICK b \in HandlerBytes : putc("handler", b)
    BY <1>2 DEF KeyInterrupts
  <2>2. interrupts' \in Nat /\ torn' \in BOOLEAN
    BY <1>2 DEF KeyInterrupts, TypeInv
  <2> QED BY <2>1, <2>2, PutcType, ScreenAssumption DEF Contexts
<1>3. CASE Clear
  <2>1. /\ at' \in [Contexts -> Stages] /\ at'["main"] = "wipe" /\ at'["handler"] = at["handler"]
    BY <1>3, StepAt, StageNames DEF Clear, Contexts
  <2>2. row' \in [Contexts -> Nat] /\ row'["main"] = 0 /\ row'["handler"] = row["handler"]
    BY <1>3 DEF Clear, TypeInv, Contexts
  <2>3. TypeInv'
    BY <1>3, <2>1, <2>2 DEF TypeInv, Clear
  <2>4. LoopInv'
    BY <2>1, <2>2, Screen DEF LoopInv, Contexts
  <2> QED BY <2>3, <2>4
<1>4. CASE WipeRow
  <2>0. row["main"] \in 0 .. Bottom
    BY <1>4 DEF WipeRow, Step, LoopInv
  <2>1. /\ at' \in [Contexts -> Stages] /\ at'["handler"] = at["handler"]
        /\ at'["main"] = IF row["main"] = Bottom THEN "idle" ELSE "wipe"
    BY <1>4, StepAt, StageNames DEF WipeRow, Contexts
  <2>2. row' \in [Contexts -> Nat] /\ row'["main"] = row["main"] + 1 /\ row'["handler"] = row["handler"]
    BY <1>4 DEF WipeRow, TypeInv, Contexts
  <2>3. chars' \in [Rows -> [Cols -> Cells]]
    BY <1>4, Screen DEF WipeRow, TypeInv
  <2>4. TypeInv'
    BY <1>4, <2>1, <2>2, <2>3 DEF TypeInv, WipeRow
  <2>5. LoopInv'
    BY <2>0, <2>1, <2>2, Screen DEF LoopInv, Contexts
  <2> QED BY <2>4, <2>5
<1>5. ASSUME NEW c \in Contexts, Put(c) PROVE TypeInv' /\ LoopInv'
  <2>1. PICK v \in Reads(c) :
          IF v \in Cols
            THEN /\ Step(c, "put", "test")
                 /\ chars' = [chars EXCEPT ![Bottom][v] = byte[c]]
                 /\ UNCHANGED <<col_pos, index, crt, byte, row, reg, pos>> /\ Quiet
            ELSE Panic(c, "put")
    BY <1>5 DEF Put
  <2>2. CASE v \in Cols
    <3>1. byte[c] \in Cells
      BY DEF TypeInv, Cells
    <3>2. chars' \in [Rows -> [Cols -> Cells]]
      BY <2>1, <2>2, <3>1, BottomCell
    <3> QED BY <2>1, <2>2, <3>2, PlainType, StageNames DEF TypeInv
  <2>3. CASE v \notin Cols
    BY <2>1, <2>3, PanicType
  <2> QED BY <2>2, <2>3
<1>6. ASSUME NEW c \in Contexts, Test(c) PROVE TypeInv' /\ LoopInv'
  <2>1. PICK v \in Reads(c) : Step(c, "test", IF v = LastCol THEN "copy" ELSE "advance")
    BY <1>6 DEF Test
  <2>2. /\ at' \in [Contexts -> Stages] /\ at[c] = "test" /\ at'[c] \in {"copy", "advance"}
        /\ \A d \in Contexts : d # c => at'[d] = at[d]
    BY <2>1, StepAt, StageNames
  <2>3. LoopInv'
    BY <1>6, <2>2, Screen DEF LoopInv, Contexts, Test
  <2> QED BY <1>6, <2>2, <2>3 DEF TypeInv, Test
<1>7. ASSUME NEW c \in Contexts, Advance(c) \/ Home(c) PROVE TypeInv' /\ LoopInv'
  <2>1. CASE Home(c)
    BY <2>1, ColType DEF Home
  <2>2. CASE Advance(c)
    <3>1. PICK v \in Reads(c) : SetCol(c, "advance", v + 1)
      BY <2>2 DEF Advance
    <3>2. v + 1 \in Nat
      BY ReadsNat
    <3> QED BY <3>1, <3>2, ColType
  <2> QED BY <1>7, <2>1, <2>2
<1>8. ASSUME NEW c \in Contexts, Back(c) PROVE TypeInv' /\ LoopInv'
  <2>1. PICK v \in Reads(c) : IF v > 0 THEN SetCol(c, "back", v - 1) ELSE Panic(c, "back")
    BY <1>8 DEF Back
  <2>2. v \in Nat
    BY ReadsNat
  <2>3. CASE v > 0
    BY <2>1, <2>2, <2>3, ColType
  <2> QED BY <2>1, <2>3, PanicType
<1>9. ASSUME NEW c \in Contexts, CopyRow(c) PROVE TypeInv' /\ LoopInv'
  <2>0. row[c] \in 1 .. Bottom
    BY <1>9 DEF CopyRow, Step, LoopInv
  <2>1. /\ at' \in [Contexts -> Stages]
        /\ at'[c] = IF row[c] = Bottom THEN "clear" ELSE "copy"
        /\ \A d \in Contexts : d # c => at'[d] = at[d]
    BY <1>9, StepAt, StageNames DEF CopyRow
  <2>2. /\ row' \in [Contexts -> Nat] /\ row'[c] = row[c] + 1
        /\ \A d \in Contexts : d # c => row'[d] = row[d]
    BY <1>9 DEF CopyRow, TypeInv
  <2>3. chars' \in [Rows -> [Cols -> Cells]]
    BY <1>9, <2>0, Screen DEF CopyRow, TypeInv
  <2>4. TypeInv'
    BY <1>9, <2>1, <2>2, <2>3 DEF TypeInv, CopyRow
  <2>5. LoopInv'
    BY <2>0, <2>1, <2>2, Screen DEF LoopInv, Contexts
  <2> QED BY <2>4, <2>5
<1>10. ASSUME NEW c \in Contexts, clear_row(c) PROVE TypeInv' /\ LoopInv'
  <2>1. chars' \in [Rows -> [Cols -> Cells]]
    BY <1>10, Screen DEF clear_row, TypeInv
  <2> QED BY <1>10, <2>1, PlainType, StageNames DEF clear_row, TypeInv
<1>11. ASSUME NEW c \in Contexts, Erase(c) PROVE TypeInv' /\ LoopInv'
  <2>1. PICK v \in Reads(c) :
          IF v - 1 \in Cols
            THEN /\ Step(c, "erase", "back")
                 /\ chars' = [chars EXCEPT ![Bottom][v - 1] = " "]
                 /\ UNCHANGED <<col_pos, index, crt, byte, row, reg, pos>> /\ Quiet
            ELSE Panic(c, "erase")
    BY <1>11 DEF Erase
  <2>2. CASE v - 1 \in Cols
    <3>1. " " \in Cells
      BY DEF Cells
    <3>2. chars' \in [Rows -> [Cols -> Cells]]
      BY <2>1, <2>2, <3>1, BottomCell
    <3> QED BY <2>1, <2>2, <3>2, PlainType, StageNames DEF TypeInv
  <2>3. CASE v - 1 \notin Cols
    BY <2>1, <2>3, PanicType
  <2> QED BY <2>2, <2>3
<1>12. ASSUME NEW c \in Contexts, Shift(c) PROVE TypeInv' /\ LoopInv'
  <2>1. PICK v \in Reads(c) :
          \/ /\ v \in Cols /\ Step(c, "shift", "idle")
             /\ chars' = [chars EXCEPT ![Bottom] = Closed(chars[Bottom], v)]
             /\ UNCHANGED <<col_pos, index, crt, byte, row, reg, pos>> /\ Quiet
          \/ v \notin Cols /\ Panic(c, "shift")
    BY <1>12, ShiftIs
  <2>2. CASE v \in Cols
    <3>1. Closed(chars[Bottom], v) \in [Cols -> Cells]
      BY <2>2, ClosedLine, Screen DEF TypeInv
    <3>2. chars' = [chars EXCEPT ![Bottom] = Closed(chars[Bottom], v)]
      BY <2>1, <2>2
    <3>3. chars' \in [Rows -> [Cols -> Cells]]
      BY <3>1, <3>2, BottomLine
    <3> QED BY <2>1, <2>2, <3>3, PlainType, StageNames DEF TypeInv
  <2>3. CASE v \notin Cols
    BY <2>1, <2>3, PanicType
  <2> QED BY <2>2, <2>3
<1>13. ASSUME NEW c \in Contexts, Cursor(c) PROVE TypeInv' /\ LoopInv'
  <2>1. PICK v \in Reads(c) : pos' = [pos EXCEPT ![c] = Bottom * BUFFER_WIDTH + v]
    BY <1>13 DEF Cursor
  <2>2. Bottom * BUFFER_WIDTH + v \in Nat
    BY Screen, ReadsNat
  <2>3. pos' \in [Contexts -> Nat]
    BY <2>1, <2>2 DEF TypeInv
  <2> QED BY <1>13, <2>3, PlainType, StageNames DEF Cursor, TypeInv
<1>14. ASSUME NEW c \in Contexts, SelectLow(c) \/ SelectHigh(c) PROVE TypeInv' /\ LoopInv'
  BY <1>14, PlainType, StageNames DEF SelectLow, SelectHigh, Select, TypeInv
<1>15. ASSUME NEW c \in Contexts, WriteLow(c) \/ WriteHigh(c) PROVE TypeInv' /\ LoopInv'
  <2>1. pos[c] % ByteMod \in Nat /\ (pos[c] \div ByteMod) % ByteMod \in Nat
    <3>1. pos[c] \in Nat /\ ByteMod \in Nat /\ ByteMod > 1
      BY Sizes DEF TypeInv
    <3>2. pos[c] \div ByteMod \in Nat
      BY <3>1
    <3> QED BY <3>1, <3>2
  <2>2. crt' \in [low : Nat, high : Nat]
    BY <1>15, <2>1 DEF WriteLow, WriteHigh, TypeInv
  <2> QED BY <1>15, <2>2, PlainType, StageNames DEF WriteLow, WriteHigh, TypeInv
<1>16. CASE UNCHANGED vars
  BY <1>16 DEF vars, TypeInv, LoopInv
<1> QED
  BY <1>1, <1>2, <1>3, <1>4, <1>5, <1>6, <1>7, <1>8, <1>9, <1>10, <1>11, <1>12, <1>13,
     <1>14, <1>15, <1>16 DEF Next

----------------------------------------------------------------------------
(* The cursor.                                                             *)

\* Division undoes a multiple of the divisor.
LEMMA Remainder ==
  ASSUME NEW d \in Nat, d > 0, NEW s \in Nat, NEW x \in Nat, x < d
  PROVE  (s * d + x) % d = x
<1> DEFINE p == s * d + x
           a == p \div d
           y == p % d
<1>1. p \in Nat
  OBVIOUS
<1> HIDE DEF p
<1>2. a \in Nat /\ y \in Nat /\ y < d /\ p = a * d + y
  BY <1>1
<1> HIDE DEF a, y
<1>3. ~(a >= s + 1)
  <2>1. SUFFICES ASSUME a >= s + 1 PROVE FALSE
    OBVIOUS
  <2>2. a * d >= s * d + d
    BY <1>2, <2>1
  <2> QED BY <1>2, <2>2 DEF p
<1>4. ~(s >= a + 1)
  <2>1. SUFFICES ASSUME s >= a + 1 PROVE FALSE
    OBVIOUS
  <2>2. s * d >= a * d + d
    BY <1>2, <2>1
  <2> QED BY <1>2, <2>2 DEF p
<1>5. a = s
  BY <1>2, <1>3, <1>4
<1>6. y = x
  BY <1>2, <1>5 DEF p
<1> QED BY <1>6 DEF y, p

\* The two bytes that update_cursor writes, put together again.
LEMMA TwoBytes ==
  ASSUME NEW m \in Nat, m > 0, NEW p \in Nat
  PROVE  (p % m) + m * ((p \div m) % m) = p % (m * m)
<1> DEFINE q == p \div m
           r == p % m
           s == q \div m
           t == q % m
<1>1. q \in Nat /\ r \in Nat /\ r < m /\ p = q * m + r
  OBVIOUS
<1> HIDE DEF q, r
<1>2. s \in Nat /\ t \in Nat /\ t < m /\ q = s * m + t
  BY <1>1
<1> HIDE DEF s, t
<1>3. p = s * (m * m) + (t * m + r)
  <2>1. q * m = s * (m * m) + t * m
    BY <1>1, <1>2
  <2> QED BY <1>1, <1>2, <2>1
<1>4. t * m + r \in Nat /\ t * m + r < m * m /\ m * m > 0 /\ m * m \in Nat
  <2>1. t * m <= (m - 1) * m
    BY <1>2
  <2> QED BY <1>1, <1>2, <2>1
<1>5. p % (m * m) = t * m + r
  BY <1>2, <1>3, <1>4, Remainder
<1>6. m * t = t * m
  BY <1>2
<1> QED BY <1>1, <1>2, <1>5, <1>6 DEF q, r, s, t

\* A step to a stage about which CursorInv says nothing.
LEMMA CursorStep ==
  ASSUME TypeInv, CursorInv, NEW c \in Contexts, NEW from, NEW to \in Stages, Step(c, from, to),
         from # "idle",
         to \notin CursorStages \cup {"cursor", "idle", "shift", "wipe"},
         torn' = torn
  PROVE  CursorInv'
<1> SUFFICES ASSUME ~torn PROVE CursorInv'
  BY DEF CursorInv
<1>1. at[c] = from /\ at'[c] = to /\ \A d \in Contexts : d # c => at'[d] = at[d]
  BY StepAt
<1>2. \A d \in Contexts : d # c => at'[d] = "idle"
  BY <1>1 DEF CursorInv, Contexts
<1>3. \A d \in Contexts : Placing(d)'
  <2>1. \A d \in Contexts : at'[d] \notin CursorStages \cup {"cursor"}
    BY <1>1, <1>2 DEF CursorStages
  <2> QED BY <2>1 DEF Placing, CursorStages
<1> QED BY <1>1, <1>2, <1>3 DEF CursorInv, Contexts

\* A step to a stage of update_cursor: the invariant follows from what the
\* step establishes for its own context.
LEMMA PlacingStep ==
  ASSUME TypeInv, CursorInv, ~torn, NEW c \in Contexts, NEW from, NEW to \in Stages,
         Step(c, from, to), from # "idle", to \in CursorStages \cup {"cursor"}, Placing(c)'
  PROVE  CursorInv'
<1>1. at[c] = from /\ at'[c] = to /\ \A d \in Contexts : d # c => at'[d] = at[d]
  BY StepAt
<1>2. \A d \in Contexts : d # c => at'[d] = "idle"
  BY <1>1 DEF CursorInv, Contexts
<1>3. \A d \in Contexts : Placing(d)'
  <2>1. ASSUME NEW d \in Contexts, d # c PROVE Placing(d)'
    <3>1. at'[d] \notin CursorStages \cup {"cursor"}
      BY <1>2, <2>1 DEF CursorStages
    <3> QED BY <3>1 DEF Placing, CursorStages
  <2> QED BY <2>1
<1>4. at'[c] \notin {"idle", "shift", "wipe"}
  BY <1>1 DEF CursorStages
<1> QED BY <1>1, <1>2, <1>3, <1>4 DEF CursorInv, Contexts

\* A step that ends a putc, or that stays outside of the putcs that move the
\* column.
LEMMA RestStep ==
  ASSUME TypeInv, CursorInv, ~torn, NEW c \in Contexts, NEW from, NEW to \in Stages,
         Step(c, from, to), \A d \in Contexts : d # c => at[d] = "idle",
         to \in {"idle", "shift", "wipe"},
         placed' => CursorAt' = Target' % (ByteMod * ByteMod)
  PROVE  CursorInv'
<1>1. at'[c] = to /\ \A d \in Contexts : d # c => at'[d] = "idle"
  BY StepAt
<1>2. \A d \in Contexts : Placing(d)'
  <2>1. \A d \in Contexts : at'[d] \notin CursorStages \cup {"cursor"}
    BY <1>1 DEF CursorStages
  <2> QED BY <2>1 DEF Placing, CursorStages
<1> QED BY <1>1, <1>2 DEF CursorInv, Contexts

\* The start of a putc while no other is under way.
LEMMA PutcCursor ==
  ASSUME TypeInv, CursorInv, NEW c \in Contexts, NEW b \in Glyphs \cup Controls, putc(c, b),
         \A d \in Contexts : d # c => at[d] = "idle",
         at'[c] \in {"idle", "shift"} => ~torn
  PROVE  CursorInv'
<1>1. Entry(b) \in {"put", "copy", "home", "erase", "idle", "shift"} /\ Entry(b) \in Stages
  BY StageNames DEF Entry
<1>2. Step(c, "idle", Entry(b)) /\ UNCHANGED <<col_pos, crt, placed>>
  BY DEF putc
<1>3. /\ at[c] = "idle" /\ at'[c] = Entry(b)
      /\ \A d \in Contexts : d # c => at'[d] = "idle"
  BY <1>1, <1>2, StepAt
<1>4. CASE Entry(b) \in {"idle", "shift"}
  <2>1. ~torn
    BY <1>3, <1>4
  <2>2. placed' => CursorAt' = Target' % (ByteMod * ByteMod)
    <3>1. placed => CursorAt = Target % (ByteMod * ByteMod)
      BY <1>3, <2>1 DEF CursorInv
    <3> QED BY <1>2, <3>1 DEF CursorAt, Target
  <2> QED BY <1>1, <1>2, <1>4, <2>1, <2>2, RestStep
<1>5. CASE Entry(b) \notin {"idle", "shift"}
  <2>1. \A d \in Contexts : Placing(d)'
    <3>1. \A d \in Contexts : at'[d] \notin CursorStages \cup {"cursor"}
      BY <1>1, <1>3 DEF CursorStages
    <3> QED BY <3>1 DEF Placing, CursorStages
  <2>2. at'[c] \notin {"idle", "shift", "wipe"}
    BY <1>1, <1>3, <1>5
  <2> QED BY <1>3, <2>1, <2>2 DEF CursorInv, Contexts
<1> QED BY <1>4, <1>5

LEMMA ColCursor ==
  ASSUME TypeInv, CursorInv, NEW c \in Contexts, NEW from, from # "idle", NEW v,
         SetCol(c, from, v)
  PROVE  CursorInv'
<1>1. Step(c, from, "cursor") /\ torn' = torn /\ col_pos' = v /\ reg'[c] = v
  BY DEF SetCol, Quiet, ghosts, TypeInv
<1>2. at'[c] = "cursor"
  BY <1>1, StepAt, StageNames
<1>3. Placing(c)'
  BY <1>1, <1>2 DEF Placing, CursorStages
<1>4. CASE torn
  BY <1>1, <1>4 DEF CursorInv
<1>5. CASE ~torn
  BY <1>1, <1>3, <1>5, PlacingStep, StageNames
<1> QED BY <1>4, <1>5

LEMMA PanicCursor ==
  ASSUME CursorInv, NEW c \in Contexts, NEW from, Panic(c, from)
  PROVE  CursorInv'
BY DEF CursorInv, Panic, ghosts, CursorAt, Target, Placing

\* Every step keeps the cursor, or what is left of placing it.
LEMMA NextCursor ==
  ASSUME TypeInv, CursorInv, [Next]_vars
  PROVE  CursorInv'
<1> USE DEF Quiet, ghosts
<1>1. CASE MainPutc
  <2>1. PICK b \in MainBytes : putc("main", b)
    BY <1>1 DEF MainPutc
  <2>2. b \in Glyphs \cup Controls /\ "main" \in Contexts
    BY ScreenAssumption DEF Contexts
  <2>3. at["handler"] = "idle"
    BY <2>1 DEF putc, Step, CanRun
  <2>4. CASE at'["main"] \in {"idle", "shift"} /\ torn
    BY <1>1, <2>4 DEF MainPutc, CursorInv
  <2>5. CASE ~(at'["main"] \in {"idle", "shift"} /\ torn)
    BY <2>1, <2>2, <2>3, <2>5, PutcCursor DEF Contexts, TypeInv
  <2> QED BY <2>4, <2>5
<1>2. CASE KeyInterrupts
  <2>1. PICK b \in HandlerBytes : putc("handler", b)
    BY <1>2 DEF KeyInterrupts
  <2>2. b \in Glyphs \cup Controls /\ "handler" \in Contexts
    BY ScreenAssumption DEF Contexts
  <2>3. torn' = (torn \/ at["main"] # "idle")
    BY <1>2 DEF KeyInterrupts
  <2>4. CASE torn \/ at["main"] # "idle"
    BY <2>3, <2>4 DEF CursorInv
  <2>5. CASE ~(torn \/ at["main"] # "idle")
    BY <2>1, <2>2, <2>5, PutcCursor DEF Contexts
  <2> QED BY <2>4, <2>5
<1>3. CASE Clear
  <2>1. Step("main", "idle", "wipe") /\ UNCHANGED <<col_pos, crt, placed, torn>>
    BY <1>3 DEF Clear
  <2>2. at["main"] = "idle" /\ at["handler"] = "idle"
    BY <2>1 DEF Step, CanRun
  <2>3. CASE torn
    BY <2>1, <2>3 DEF CursorInv
  <2>4. CASE ~torn
    <3>1. placed => CursorAt = Target % (ByteMod * ByteMod)
      BY <2>2, <2>4 DEF CursorInv, Contexts
    <3>2. placed' => CursorAt' = Target' % (ByteMod * ByteMod)
      BY <2>1, <3>1 DEF CursorAt, Target
    <3> QED BY <2>1, <2>2, <2>4, <3>2, RestStep, StageNames DEF Contexts
  <2> QED BY <2>3, <2>4
<1>4. CASE WipeRow \/ \E c \in Contexts : Shift(c)
  <2>1. PICK c \in Contexts, from \in {"wipe", "shift"}, to \in {"idle", "wipe"} :
          \/ Step(c, from, to) /\ UNCHANGED <<col_pos, crt, placed, torn>>
          \/ Panic(c, from)
    BY <1>4 DEF WipeRow, Shift, Contexts
  <2>2. CASE Panic(c, from)
    BY <2>2, PanicCursor
  <2>3. CASE Step(c, from, to) /\ UNCHANGED <<col_pos, crt, placed, torn>>
    <3>1. CASE torn
      BY <2>3, <3>1 DEF CursorInv
    <3>2. CASE ~torn
      <4>1. at[c] = from /\ \A d \in Contexts : d # c => at[d] = "idle"
        BY <2>3, <3>2 DEF Step, CursorInv, Contexts
      <4>2. placed => CursorAt = Target % (ByteMod * ByteMod)
        BY <3>2, <4>1 DEF CursorInv
      <4>3. placed' => CursorAt' = Target' % (ByteMod * ByteMod)
        BY <2>3, <4>2 DEF CursorAt, Target
      <4> QED BY <2>3, <3>2, <4>1, <4>3, RestStep, StageNames
    <3> QED BY <3>1, <3>2
  <2> QED BY <2>1, <2>2, <2>3
<1>5. ASSUME NEW c \in Contexts, Put(c) \/ Test(c) \/ CopyRow(c) \/ clear_row(c) \/ Erase(c)
      PROVE  CursorInv'
  <2>1. PICK from \in {"put", "test", "copy", "clear", "erase"},
             to \in {"test", "copy", "advance", "clear", "home", "back"} :
          \/ Step(c, from, to) /\ torn' = torn
          \/ Panic(c, from)
    BY <1>5 DEF Put, Test, CopyRow, clear_row, Erase
  <2>2. to \in Stages /\ to \notin CursorStages \cup {"cursor", "idle", "shift", "wipe"}
    BY StageNames DEF CursorStages
  <2> QED BY <2>1, <2>2, CursorStep, PanicCursor
<1>6. ASSUME NEW c \in Contexts, Advance(c) \/ Home(c) \/ Back(c) PROVE CursorInv'
  <2>1. CASE Home(c)
    BY <2>1, ColCursor DEF Home
  <2>2. CASE Advance(c)
    BY <2>2, ColCursor DEF Advance
  <2>3. CASE Back(c)
    BY <2>3, ColCursor, PanicCursor DEF Back
  <2> QED BY <1>6, <2>1, <2>2, <2>3
<1>7. ASSUME NEW c \in Contexts,
             Cursor(c) \/ SelectLow(c) \/ WriteLow(c) \/ SelectHigh(c) \/ WriteHigh(c)
      PROVE  CursorInv'
  <2>0. torn' = torn
    BY <1>7 DEF Cursor, SelectLow, WriteLow, SelectHigh, WriteHigh, Select
  <2>1. CASE torn
    BY <2>0, <2>1 DEF CursorInv
  <2>2. CASE ~torn
    <3>0. Placing(c) /\ pos[c] \in Nat /\ at[c] \in Stages
      BY <2>2 DEF CursorInv, TypeInv
    <3>1. CASE Cursor(c)
      <4>1. Step(c, "cursor", "select_low") /\ col_pos' = col_pos
        BY <3>1 DEF Cursor
      <4>2. at[c] = "cursor" /\ at'[c] = "select_low"
        BY <4>1, StepAt, StageNames
      <4>3. \A v \in Reads(c) : v = col_pos
        BY <3>0, <4>2 DEF Reads, Placing
      <4>4. pos'[c] = Target
        BY <3>1, <4>3 DEF Cursor, Target, TypeInv
      <4>5. Placing(c)'
        BY <4>1, <4>2, <4>4 DEF Placing, Target, CursorStages
      <4> QED BY <2>2, <4>1, <4>5, PlacingStep, StageNames DEF CursorStages
    <3>2. CASE SelectLow(c)
      <4>1. Step(c, "select_low", "low") /\ UNCHANGED <<col_pos, pos>> /\ index' = "low"
        BY <3>2 DEF SelectLow, Select
      <4>2. at[c] = "select_low" /\ at'[c] = "low"
        BY <4>1, StepAt, StageNames
      <4>3. Placing(c)'
        BY <3>0, <4>1, <4>2 DEF Placing, Target, CursorStages
      <4> QED BY <2>2, <4>1, <4>3, PlacingStep, StageNames DEF CursorStages
    <3>3. CASE WriteLow(c)
      <4>1. /\ Step(c, "low", "select_high") /\ UNCHANGED <<col_pos, pos>>
            /\ crt' = [crt EXCEPT ![index] = pos[c] % ByteMod]
        BY <3>3 DEF WriteLow
      <4>2. at[c] = "low" /\ at'[c] = "select_high"
        BY <4>1, StepAt, StageNames
      <4>3. pos[c] = Target /\ index = "low"
        BY <3>0, <4>2 DEF Placing, CursorStages
      <4>4. crt'.low = Target % ByteMod
        BY <4>1, <4>3 DEF TypeInv
      <4>5. Placing(c)'
        BY <4>1, <4>2, <4>3, <4>4 DEF Placing, Target, CursorStages
      <4> QED BY <2>2, <4>1, <4>5, PlacingStep, StageNames DEF CursorStages
    <3>4. CASE SelectHigh(c)
      <4>1. /\ Step(c, "select_high", "high") /\ UNCHANGED <<col_pos, pos, crt>>
            /\ index' = "high"
        BY <3>4 DEF SelectHigh, Select
      <4>2. at[c] = "select_high" /\ at'[c] = "high"
        BY <4>1, StepAt, StageNames
      <4>3. Placing(c)'
        BY <3>0, <4>1, <4>2 DEF Placing, Target, CursorStages
      <4> QED BY <2>2, <4>1, <4>3, PlacingStep, StageNames DEF CursorStages
    <3>5. CASE WriteHigh(c)
      <4>1. /\ Step(c, "high", "idle") /\ col_pos' = col_pos
            /\ crt' = [crt EXCEPT ![index] = (pos[c] \div ByteMod) % ByteMod]
        BY <3>5 DEF WriteHigh
      <4>2. at[c] = "high" /\ \A d \in Contexts : d # c => at[d] = "idle"
        BY <2>2, <4>1 DEF Step, CursorInv, Contexts
      <4>3. pos[c] = Target /\ index = "high" /\ crt.low = Target % ByteMod
        BY <3>0, <4>2 DEF Placing, CursorStages
      <4>4. crt'.low = Target % ByteMod /\ crt'.high = (Target \div ByteMod) % ByteMod
        BY <4>1, <4>3 DEF TypeInv
      <4>5. (Target % ByteMod) + ByteMod * ((Target \div ByteMod) % ByteMod)
              = Target % (ByteMod * ByteMod)
        <5>1. Target \in Nat
          BY <3>0, <4>3
        <5> HIDE DEF Target
        <5>2. ByteMod \in Nat /\ ByteMod > 0
          BY Sizes
        <5> QED BY <5>1, <5>2, TwoBytes, Zenon
      <4>6. CursorAt' = Target' % (ByteMod * ByteMod)
        BY <4>1, <4>4, <4>5 DEF CursorAt, Target
      <4> QED BY <2>2, <4>1, <4>2, <4>6, RestStep, StageNames
    <3> QED BY <1>7, <3>1, <3>2, <3>3, <3>4, <3>5
  <2> QED BY <2>1, <2>2
<1>8. CASE UNCHANGED vars
  BY <1>8 DEF vars, CursorInv, CursorAt, Target, Placing
<1> QED BY <1>1, <1>2, <1>3, <1>4, <1>5, <1>6, <1>7, <1>8 DEF Next

\* Whichever putcs a key has interrupted before, and whatever the compiler kept
\* in registers, the next putc of main that runs alone and moves the column
\* repairs the cursor: the four port writes of update_cursor leave the low 16
\* bits of its position in the CRT controller.
THEOREM CursorHealed == Spec => []CursorHeals
<1>1. Init => CursorInv
  BY DEF Init, CursorInv, Placing, CursorStages, Contexts
<1>2. CursorInv => CursorHeals
  BY DEF CursorInv, CursorHeals, AtRest, Target
<1> QED BY <1>1, <1>2, TypeInit, NextType, NextCursor, PTL DEF Spec

\* With the column on the screen those 16 bits are the whole position.
THEOREM CursorExact ==
  Spec => [](AtRest /\ placed /\ ~torn /\ col_pos \in Cols =>
               CursorAt = Bottom * BUFFER_WIDTH + col_pos)
<1>1. CursorHeals => (AtRest /\ placed /\ ~torn /\ col_pos \in Cols =>
                        CursorAt = Bottom * BUFFER_WIDTH + col_pos)
  <2> DEFINE p == Bottom * BUFFER_WIDTH + col_pos
             d == ByteMod * ByteMod
  <2>1. SUFFICES ASSUME CursorAt = p % d, col_pos \in Cols PROVE CursorAt = p
    BY DEF CursorHeals
  <2>2. d \in Nat /\ BUFFER_HEIGHT * BUFFER_WIDTH <= d
    <3>1. BUFFER_HEIGHT * BUFFER_WIDTH <= d
      BY ScreenAssumption, Zenon
    <3> QED BY <3>1, Sizes
  <2>3. p \in Nat /\ p < BUFFER_HEIGHT * BUFFER_WIDTH
    <3>1. BUFFER_HEIGHT \in Nat /\ BUFFER_HEIGHT >= 2 /\ BUFFER_WIDTH \in Nat
      BY Sizes
    <3>2. col_pos \in Nat /\ col_pos < BUFFER_WIDTH
      BY <2>1, <3>1 DEF Cols, LastCol
    <3>3. Bottom * BUFFER_WIDTH + BUFFER_WIDTH = BUFFER_HEIGHT * BUFFER_WIDTH
      BY <3>1 DEF Bottom
    <3>4. Bottom * BUFFER_WIDTH \in Nat
      BY <3>1 DEF Bottom
    <3> QED BY <3>1, <3>2, <3>3, <3>4
  <2> HIDE DEF p, d
  <2>4. p < d
    <3> DEFINE a == BUFFER_HEIGHT * BUFFER_WIDTH
    <3>1. a \in Nat
      BY Sizes
    <3> HIDE DEF a
    <3> QED BY <2>2, <2>3, <3>1 DEF a
  <2> QED BY <2>1, <2>2, <2>3, <2>4
<1> QED BY <1>1, CursorHealed, PTL

----------------------------------------------------------------------------
(* The screen and the terminal.                                            *)

Lines == [Cols -> Cells]
Edited(line, x, y) == [line EXCEPT ![x] = y]
Written(t, x, y, col) == [t EXCEPT !.line[x] = y, !.col = col]

\* Writing one cell of a terminal's line.
LEMMA TermWrite ==
  ASSUME NEW a, NEW l \in [Cols -> Cells], NEW c, NEW x \in Cols, NEW y \in Cells, NEW d
  PROVE  Written(Term(a, l, c), x, y, d) = Term(a, Edited(l, x, y), d)
<1> DEFINE t == Term(a, l, c)
           m == [l EXCEPT ![x] = y]
<1>1. Written(t, x, y, d) = [[t EXCEPT !.line[x] = y] EXCEPT !.col = d]
  BY Zenon DEF Written
<1>2. [t EXCEPT !.line[x] = y] = Term(a, m, c)
  BY SMT DEF Term
<1> HIDE DEF m
<1>3. [Term(a, m, c) EXCEPT !.col = d] = Term(a, m, d)
  BY SMT DEF Term
<1> QED BY <1>1, <1>2, <1>3, Zenon DEF m, Edited

\* What the reference terminal makes of a character ...
LEMMA TermGlyph ==
  ASSUME NEW a, NEW l \in Lines, NEW c \in Cols, NEW b \in Cells, b \notin Controls
  PROVE  /\ c = LastCol => TermPut(Term(a, l, c), b) = Scroll(Term(a, l, c), Edited(l, LastCol, b))
         /\ c # LastCol => TermPut(Term(a, l, c), b) = Term(a, Edited(l, c, b), c + 1)
<1> DEFINE t == Term(a, l, c)
<1>1. t.line = l /\ t.col = c
  BY DEF Term
<1>2. TermPut(t, b) = IF t.col = LastCol THEN Scroll(t, Edited(t.line, LastCol, b))
                      ELSE Written(t, t.col, b, t.col + 1)
  BY Zenon DEF TermPut, Controls, Edited, Written
<1>3. Written(t, c, b, c + 1) = Term(a, Edited(l, c, b), c + 1)
  BY TermWrite, SMT DEF Lines
<1> HIDE DEF t
<1> QED BY <1>1, <1>2, <1>3, Zenon DEF t

\* ... and of a backspace behind column 0.
LEMMA TermBackspace ==
  ASSUME NEW a, NEW l \in Lines, NEW c \in Cols, c # 0
  PROVE  TermPut(Term(a, l, c), "backspace") = Term(a, Edited(l, c - 1, " "), c - 1)
<1> DEFINE t == Term(a, l, c)
<1>1. t.col = c
  BY DEF Term
<1>2. TermPut(t, "backspace") = IF t.col = 0 THEN t ELSE Written(t, t.col - 1, " ", t.col - 1)
  BY Zenon DEF TermPut, Written
<1>3. \A d : \A x \in Cols, y \in Cells : Written(t, x, y, d) = Term(a, Edited(l, x, y), d)
  BY TermWrite, SMT DEF Lines
<1>4. c - 1 \in Cols
  BY Screen
<1>5. " " \in Cells
  BY DEF Cells
<1> HIDE DEF t
<1> QED BY <1>1, <1>2, <1>3, <1>4, <1>5, Zenon DEF t

Screens == [Rows -> [Cols -> Cells]]

\* The rows above the bottom one, and the row below each of them.
LEMMA UpperRows ==
  /\ Upper = 0 .. Bottom - 1 /\ Bottom - 1 \in Upper /\ Bottom \notin Upper
  /\ \A k \in Upper : /\ k \in Nat /\ k \in Rows /\ k # Bottom /\ k + 1 \in Rows
                      /\ k # Bottom - 1 => k + 1 \in Upper
                      /\ k = Bottom - 1 => k + 1 = Bottom
BY Screen DEF Upper

\* What new_line has to do is what the terminal's scroll does.
LEMMA ScrollIs ==
  ASSUME NEW ch \in Screens, NEW col \in Cols, NEW line, NEW r, NEW b
  PROVE  /\ Scroll(Shown(ch, col), line) =
              Term([k \in Upper |-> IF k = Bottom - 1 THEN line ELSE ch[k + 1]], BlankLine, 0)
         /\ Scroll(Shown(ch, col), ch[Bottom]) = Pending("copy", 1, b, ch, col)
<1> DEFINE up == [k \in Upper |-> IF k = Bottom - 1 THEN line ELSE ch[k + 1]]
<1>1. ch[Bottom] \in [Cols -> Cells]
  BY Screen DEF Screens
<1>2. ASSUME NEW x
      PROVE  Scroll(Shown(ch, col), x) =
               Term([k \in Upper |-> IF k = Bottom - 1 THEN x ELSE ch[k + 1]], BlankLine, 0)
  <2>2. Scroll(Shown(ch, col), x) =
          Term([k \in Upper |-> IF k = Bottom - 1 THEN x ELSE Above(ch)[k + 1]], BlankLine, 0)
    BY Zenon DEF Shown, Scroll, Term, Upper
  <2>3. \A k \in Upper : k # Bottom - 1 => Above(ch)[k + 1] = ch[k + 1]
    BY UpperRows DEF Above
  <2>4. [k \in Upper |-> IF k = Bottom - 1 THEN x ELSE Above(ch)[k + 1]]
          = [k \in Upper |-> IF k = Bottom - 1 THEN x ELSE ch[k + 1]]
    BY <2>3, Zenon
  <2> QED BY <2>2, <2>4, Zenon
<1>3. [k \in Upper |-> IF k = Bottom - 1 THEN ch[Bottom] ELSE ch[k + 1]]
        = [k \in Upper |-> IF k < 1 - 1 THEN ch[k] ELSE ch[k + 1]]
  <2>1. \A k \in Upper : ~(k < 1 - 1) /\ (k = Bottom - 1 => k + 1 = Bottom)
    BY UpperRows
  <2> QED BY <2>1, Zenon
<1>4. Pending("copy", 1, b, ch, col)
        = Term([k \in Upper |-> IF k < 1 - 1 THEN ch[k] ELSE ch[k + 1]], BlankLine, 0)
  BY Zenon DEF Pending
<1>5. Scroll(Shown(ch, col), ch[Bottom]) = Pending("copy", 1, b, ch, col)
  BY <1>2, <1>3, <1>4, Zenon
<1> QED BY <1>2, <1>5, Zenon

\* putc: what the terminal makes of the byte is pending at the first stage.
LEMMA EntryPending ==
  ASSUME NEW ch \in Screens, NEW col \in Cols, NEW b \in Glyphs \cup Controls
  PROVE  /\ b = "newline" => TermPut(Shown(ch, col), b) = Pending("copy", 1, b, ch, col)
         /\ b = "return" => TermPut(Shown(ch, col), b) = Pending("home", 1, b, ch, col)
         /\ b = "backspace" /\ col = 0 =>
              TermPut(Shown(ch, col), b) = Pending("idle", 1, b, ch, col)
<1>1. TermPut(Shown(ch, col), "newline") = Scroll(Shown(ch, col), ch[Bottom])
  BY DEF Shown, TermPut, Term
<1>2. TermPut(Shown(ch, col), "return") = Term(Above(ch), ch[Bottom], 0)
  BY DEF Shown, TermPut, Term
<1>3. TermPut(Shown(ch, 0), "backspace") = Shown(ch, 0)
  BY DEF Shown, TermPut, Term
<1>4. /\ Pending("home", 1, b, ch, col) = Term(Above(ch), ch[Bottom], 0)
      /\ Pending("idle", 1, b, ch, col) = Shown(ch, col)
  BY Zenon DEF Pending
<1>5. Scroll(Shown(ch, col), ch[Bottom]) = Pending("copy", 1, b, ch, col)
  BY ScrollIs, Zenon
<1> QED BY <1>1, <1>2, <1>3, <1>4, <1>5, Zenon

LEMMA AboveSame ==
  ASSUME NEW ch, NEW ch2, \A k \in Upper : ch2[k] = ch[k], NEW col, NEW line
  PROVE  Above(ch2) = Above(ch) /\ Scroll(Shown(ch2, col), line) = Scroll(Shown(ch, col), line)
<1>1. Above(ch2) = Above(ch)
  BY Zenon DEF Above
<1>2. /\ Scroll(Shown(ch2, col), line) =
           Term([k \in Upper |-> IF k = Bottom - 1 THEN line ELSE Above(ch2)[k + 1]], BlankLine, 0)
      /\ Scroll(Shown(ch, col), line) =
           Term([k \in Upper |-> IF k = Bottom - 1 THEN line ELSE Above(ch)[k + 1]], BlankLine, 0)
  BY Zenon DEF Shown, Scroll, Term, Upper
<1> QED BY <1>1, <1>2, Zenon

\* Each stage leaves pending what was pending before it: the character, ...
LEMMA PutPending ==
  ASSUME NEW ch \in Screens, NEW ch2 \in Screens, NEW col \in Cols, NEW r,
         NEW b \in Cells \ Controls,
         ch2[Bottom] = Edited(ch[Bottom], col, b), \A k \in Upper : ch2[k] = ch[k]
  PROVE  Pending("put", r, b, ch, col) = Pending("test", r, b, ch2, col)
<1>1. ch[Bottom] \in Lines /\ b \in Cells /\ b \notin Controls
  BY Screen DEF Screens, Lines
<1>2. /\ col = LastCol => TermPut(Shown(ch, col), b)
                            = Scroll(Shown(ch, col), Edited(ch[Bottom], LastCol, b))
      /\ col # LastCol => TermPut(Shown(ch, col), b)
                            = Term(Above(ch), Edited(ch[Bottom], col, b), col + 1)
  BY <1>1, TermGlyph, Zenon DEF Shown
<1>3. /\ Pending("put", r, b, ch, col) = TermPut(Shown(ch, col), b)
      /\ Pending("test", r, b, ch2, col) = IF col = LastCol
                                             THEN Scroll(Shown(ch2, col), ch2[Bottom])
                                             ELSE Term(Above(ch2), ch2[Bottom], col + 1)
  BY Zenon DEF Pending
<1>4. Above(ch2) = Above(ch) /\ \A line : Scroll(Shown(ch2, col), line) = Scroll(Shown(ch, col), line)
  BY AboveSame
<1> QED BY <1>2, <1>3, <1>4, Zenon

\* ... the test of the column, ...
LEMMA TestPending ==
  ASSUME NEW ch \in Screens, NEW col \in Cols, NEW b
  PROVE  Pending("test", 1, b, ch, col)
           = Pending(IF col = LastCol THEN "copy" ELSE "advance", 1, b, ch, col)
<1>1. Scroll(Shown(ch, col), ch[Bottom]) = Pending("copy", 1, b, ch, col)
  BY ScrollIs, Zenon
<1>2. /\ Pending("test", 1, b, ch, col) = IF col = LastCol
                                            THEN Scroll(Shown(ch, col), ch[Bottom])
                                            ELSE Term(Above(ch), ch[Bottom], col + 1)
      /\ Pending("advance", 1, b, ch, col) = Term(Above(ch), ch[Bottom], col + 1)
  BY Zenon DEF Pending
<1> QED BY <1>1, <1>2, Zenon

\* ... a row of new_line, ...
LEMMA CopyPending ==
  ASSUME NEW ch, NEW r \in 1 .. Bottom, NEW ch2,
         \A k \in Rows : ch2[k] = IF k = r - 1 THEN ch[r] ELSE ch[k],
         NEW b, NEW col, NEW to, to = IF r = Bottom THEN "clear" ELSE "copy"
  PROVE  Pending("copy", r, b, ch, col) = Pending(to, r + 1, b, ch2, col)
<1>0. r \in Nat /\ r >= 1 /\ r <= Bottom
  BY Screen
<1>1. \A k \in Rows : ch2[k] = IF k = r - 1 THEN ch[r] ELSE ch[k]
  OBVIOUS
<1> DEFINE old(k) == IF k < r - 1 THEN ch[k] ELSE ch[k + 1]
<1>2. Pending("copy", r, b, ch, col) = Term([k \in Upper |-> old(k)], BlankLine, 0)
  BY Zenon DEF Pending
<1>3. CASE r = Bottom
  <2>1. Pending("clear", r + 1, b, ch2, col) = Term(Above(ch2), BlankLine, 0)
    BY Zenon DEF Pending
  <2>2. \A k \in Upper : ch2[k] = old(k)
    <3>1. ASSUME NEW k \in Upper PROVE ch2[k] = old(k)
      <4>1. k \in Nat /\ k \in Rows /\ (k < r - 1 \/ (k = r - 1 /\ k + 1 = r))
        BY <1>0, <1>3, Screen, UpperRows
      <4> QED BY <1>0, <1>1, <4>1
    <3> QED BY <3>1
  <2> HIDE DEF old
  <2>3. Above(ch2) = [k \in Upper |-> old(k)]
    BY <2>2, Zenon DEF Above
  <2> QED BY <1>2, <1>3, <2>1, <2>3, Zenon
<1>4. CASE r # Bottom
  <2> DEFINE new(k) == IF k < (r + 1) - 1 THEN ch2[k] ELSE ch2[k + 1]
  <2>1. Pending("copy", r + 1, b, ch2, col) = Term([k \in Upper |-> new(k)], BlankLine, 0)
    BY Zenon DEF Pending
  <2>2. \A k \in Upper : new(k) = old(k)
    <3>1. ASSUME NEW k \in Upper PROVE new(k) = old(k)
      <4>1. k \in Nat /\ k \in Rows /\ k + 1 \in Rows
        BY UpperRows
      <4>2. CASE k < r - 1
        BY <1>0, <1>1, <4>1, <4>2
      <4>3. CASE k = r - 1
        BY <1>0, <1>1, <4>1, <4>3
      <4>4. CASE k > r - 1
        BY <1>0, <1>1, <4>1, <4>4
      <4> QED BY <1>0, <4>1, <4>2, <4>3, <4>4
    <3> QED BY <3>1
  <2> HIDE DEF old, new
  <2>3. [k \in Upper |-> new(k)] = [k \in Upper |-> old(k)]
    BY <2>2, Zenon
  <2> QED BY <1>2, <1>4, <2>1, <2>3, Zenon
<1> QED BY <1>3, <1>4

\* ... the bottom row, ...
LEMMA ClearPending ==
  ASSUME NEW ch, NEW ch2, NEW col, NEW r, NEW b,
         ch2[Bottom] = BlankLine, \A k \in Upper : ch2[k] = ch[k]
  PROVE  Pending("clear", r, b, ch, col) = Pending("home", r, b, ch2, col)
<1>1. Above(ch2) = Above(ch)
  BY AboveSame
<1>2. /\ Pending("clear", r, b, ch, col) = Term(Above(ch), BlankLine, 0)
      /\ Pending("home", r, b, ch2, col) = Term(Above(ch2), ch2[Bottom], 0)
  BY Zenon DEF Pending
<1> QED BY <1>1, <1>2, Zenon

\* ... the cell before the cursor, ...
LEMMA ErasePending ==
  ASSUME NEW ch \in Screens, NEW ch2 \in Screens, NEW col \in Cols, NEW r, col # 0,
         ch2[Bottom] = Edited(ch[Bottom], col - 1, " "), \A k \in Upper : ch2[k] = ch[k]
  PROVE  Pending("erase", r, "backspace", ch, col) = Pending("back", r, "backspace", ch2, col)
<1>1. ch[Bottom] \in [Cols -> Cells]
  BY Screen DEF Screens
<1>2. TermPut(Shown(ch, col), "backspace")
        = Term(Above(ch), Edited(ch[Bottom], col - 1, " "), col - 1)
  <2>1. ch[Bottom] \in Lines
    BY <1>1 DEF Lines
  <2> QED BY <2>1, TermBackspace, Zenon DEF Shown
<1>3. Above(ch2) = Above(ch)
  BY AboveSame
<1>4. /\ Pending("erase", r, "backspace", ch, col) = TermPut(Shown(ch, col), "backspace")
      /\ Pending("back", r, "backspace", ch2, col) = Term(Above(ch2), ch2[Bottom], col - 1)
  BY Zenon DEF Pending
<1> QED BY <1>2, <1>3, <1>4, Zenon

\* ... the cells behind it, ...
LEMMA ShiftPending ==
  ASSUME NEW ch, NEW ch2, NEW col, NEW r,
         ch2[Bottom] = Closed(ch[Bottom], col), \A k \in Upper : ch2[k] = ch[k]
  PROVE  Pending("shift", r, "del", ch, col) = Pending("idle", r, "del", ch2, col)
<1>1. TermPut(Shown(ch, col), "del") = Term(Above(ch), Closed(ch[Bottom], col), col)
  BY DEF Shown, TermPut, Term, Closed
<1>2. Above(ch2) = Above(ch)
  BY AboveSame
<1>3. /\ Pending("shift", r, "del", ch, col) = TermPut(Shown(ch, col), "del")
      /\ Pending("idle", r, "del", ch2, col) = Term(Above(ch2), ch2[Bottom], col)
  BY Zenon DEF Pending, Shown
<1> QED BY <1>1, <1>2, <1>3, Zenon

\* ... and a row of clear, from the first one on.
LEMMA WipePending ==
  ASSUME NEW ch, NEW r \in 0 .. Bottom, NEW ch2,
         \A k \in Rows : ch2[k] = IF k = r THEN BlankLine ELSE ch[k],
         NEW b, NEW col, NEW to, to = IF r = Bottom THEN "idle" ELSE "wipe"
  PROVE  Pending("wipe", r, b, ch, col) = Pending(to, r + 1, b, ch2, col)
<1>0. r \in Nat /\ r <= Bottom /\ Bottom \in Nat
  BY Screen
<1>1. \A k \in Rows : ch2[k] = IF k = r THEN BlankLine ELSE ch[k]
  OBVIOUS
<1> DEFINE old(k) == IF k < r THEN ch[k] ELSE BlankLine
<1>2. Pending("wipe", r, b, ch, col) = Term([k \in Upper |-> old(k)], BlankLine, col)
  BY Zenon DEF Pending
<1>3. CASE r = Bottom
  <2>1. Pending("idle", r + 1, b, ch2, col) = Term(Above(ch2), ch2[Bottom], col)
    BY Zenon DEF Pending, Shown
  <2>2. \A k \in Upper : ch2[k] = old(k)
    <3>1. ASSUME NEW k \in Upper PROVE ch2[k] = old(k)
      <4>1. k \in Nat /\ k \in Rows /\ k < r
        BY <1>0, <1>3, UpperRows
      <4> QED BY <1>0, <1>1, <4>1
    <3> QED BY <3>1
  <2>3. ch2[Bottom] = BlankLine
    BY <1>1, <1>3, Screen
  <2> HIDE DEF old
  <2>4. Above(ch2) = [k \in Upper |-> old(k)]
    BY <2>2, Zenon DEF Above
  <2> QED BY <1>2, <1>3, <2>1, <2>3, <2>4, Zenon
<1>4. CASE r # Bottom
  <2> DEFINE new(k) == IF k < r + 1 THEN ch2[k] ELSE BlankLine
  <2>1. Pending("wipe", r + 1, b, ch2, col) = Term([k \in Upper |-> new(k)], BlankLine, col)
    BY Zenon DEF Pending
  <2>2. \A k \in Upper : new(k) = old(k)
    <3>1. ASSUME NEW k \in Upper PROVE new(k) = old(k)
      <4>1. k \in Nat /\ k \in Rows
        BY UpperRows
      <4> QED BY <1>0, <1>1, <4>1
    <3> QED BY <3>1
  <2> HIDE DEF old, new
  <2>3. [k \in Upper |-> new(k)] = [k \in Upper |-> old(k)]
    BY <2>2, Zenon
  <2> QED BY <1>2, <1>4, <2>1, <2>3, Zenon
<1> QED BY <1>3, <1>4

LEMMA WipeStart ==
  ASSUME NEW ch, NEW b, NEW col
  PROVE  TermClear(Shown(ch, col)) = Pending("wipe", 0, b, ch, col)
<1>1. Pending("wipe", 0, b, ch, col)
        = Term([k \in Upper |-> IF k < 0 THEN ch[k] ELSE BlankLine], BlankLine, col)
  BY Zenon DEF Pending
<1>2. \A k \in Upper : ~(k < 0)
  BY UpperRows
<1>3. [k \in Upper |-> IF k < 0 THEN ch[k] ELSE BlankLine] = [k \in Upper |-> BlankLine]
  BY <1>2, Zenon
<1>4. TermClear(Shown(ch, col)) = Term([k \in Upper |-> BlankLine], BlankLine, col)
  BY DEF TermClear, Shown, Term, Upper
<1> QED BY <1>1, <1>3, <1>4, Zenon

\* Only main is in putc, and it reads one value for the column.
LEMMA MainAlone ==
  ASSUME TypeInv, Alone, NEW c \in Contexts, NEW from, from # "idle", at[c] = from
  PROVE  /\ c = "main"
         /\ from # "wipe" => \A v \in Reads(c) : v = col_pos
BY DEF Alone, Contexts, Reads

\* A stage that leaves pending what was pending.
LEMMA AloneStep ==
  ASSUME TypeInv, Alone, NEW from, from # "idle", NEW to \in Stages, Step("main", from, to),
         to \notin {"put", "erase", "shift"},
         UNCHANGED <<byte, panicked, terminal>>, col_pos' \in Cols,
         to \notin {"idle", "wipe"} => reg'["main"] = col_pos',
         to = "back" => col_pos' > 0, to = "advance" => col_pos' # LastCol,
         Pending(from, row["main"], byte["main"], chars, col_pos)
           = Pending(to, row'["main"], byte["main"], chars', col_pos')
  PROVE  Alone'
<1>1. at["main"] = from /\ at'["main"] = to /\ at'["handler"] = at["handler"]
  BY StepAt DEF Contexts
<1>2. terminal' = Pending(at'["main"], row'["main"], byte'["main"], chars', col_pos')
  BY <1>1, Zenon DEF Alone
<1> QED BY <1>1, <1>2 DEF Alone

\* The stage where putc begins owes what the terminal did with the byte.
LEMMA PutcAlone ==
  ASSUME TypeInv, Alone, interrupts = 0, NEW b \in Glyphs \cup Controls, putc("main", b)
  PROVE  Alone'
<1> DEFINE s == Entry(b)
<1>0. s \in Stages
  BY StageNames DEF Entry
<1>1. /\ s = "copy" => b = "newline"
      /\ s = "home" => b = "return"
      /\ s = "idle" => b = "backspace" /\ ~(col_pos > 0)
      /\ s = "erase" => b = "backspace" /\ col_pos > 0
      /\ s = "shift" => b = "del"
      /\ s = "put" => b \notin Controls
      /\ s \in {"copy", "home", "idle", "erase", "shift", "put"}
  BY DEF Entry, Controls
<1>2. Step("main", "idle", s)
  BY DEF putc
<1> HIDE DEF s
<1>3. at["main"] = "idle" /\ at'["main"] = s /\ at'["handler"] = at["handler"]
  BY <1>0, <1>2, StepAt DEF Contexts
<1>4. /\ byte'["main"] = b /\ reg'["main"] = col_pos /\ row'["main"] = 1
      /\ terminal' = TermPut(terminal, b)
      /\ UNCHANGED <<chars, col_pos, panicked>>
  BY DEF putc, TypeInv, Contexts
<1>5. terminal = Shown(chars, col_pos)
  <2>1. Pending("idle", row["main"], byte["main"], chars, col_pos) = Shown(chars, col_pos)
    BY Zenon DEF Pending
  <2> QED BY <1>3, <2>1, Zenon DEF Alone
<1>6. chars \in Screens /\ col_pos \in Cols /\ (~(col_pos > 0) => col_pos = 0)
  BY Screen DEF TypeInv, Alone, Screens
<1>7. TermPut(Shown(chars, col_pos), b) = Pending(s, 1, b, chars, col_pos)
  <2>1. CASE s \in {"put", "erase", "shift"}
    BY <2>1, Zenon DEF Pending
  <2>2. CASE s \in {"copy", "home", "idle"}
    BY <1>1, <1>6, <2>2, EntryPending
  <2> QED BY <1>1, <2>1, <2>2
<1>8. terminal' = Pending(at'["main"], row'["main"], byte'["main"], chars', col_pos')
  BY <1>3, <1>4, <1>5, <1>7, Zenon
<1> QED BY <1>1, <1>3, <1>4, <1>8 DEF Alone

\* Before the first key every step of main keeps what it owes the terminal.
LEMMA NextAlone ==
  ASSUME TypeInv, LoopInv, Alone, interrupts = 0, [Next]_vars, interrupts' = 0
  PROVE  Alone'
<1> USE DEF Quiet, ghosts
<1> DEFINE m == "main"
<1>0. chars \in Screens /\ col_pos \in Cols /\ byte[m] \in Cells /\ chars[Bottom] \in Lines
  BY Screen DEF TypeInv, Alone, Screens, Contexts, Cells, Lines
<1>1. CASE MainPutc
  BY <1>1, PutcAlone, ScreenAssumption DEF MainPutc
<1>2. CASE KeyInterrupts
  BY <1>2 DEF KeyInterrupts
<1>3. CASE Clear
  <2>1. at[m] = "idle" /\ at'[m] = "wipe" /\ at'["handler"] = at["handler"]
    BY <1>3, StepAt, StageNames DEF Clear, Contexts
  <2>2. /\ row'[m] = 0 /\ terminal' = TermClear(terminal)
        /\ UNCHANGED <<chars, col_pos, byte, panicked>>
    BY <1>3 DEF Clear, TypeInv, Contexts
  <2>3. terminal = Shown(chars, col_pos)
    <3>1. Pending("idle", row[m], byte[m], chars, col_pos) = Shown(chars, col_pos)
      BY Zenon DEF Pending
    <3> QED BY <2>1, <3>1, Zenon DEF Alone
  <2>4. TermClear(Shown(chars, col_pos)) = Pending("wipe", 0, byte[m], chars, col_pos)
    BY WipeStart, Zenon
  <2>5. terminal' = Pending(at'[m], row'[m], byte'[m], chars', col_pos')
    BY <2>1, <2>2, <2>3, <2>4, Zenon
  <2> QED BY <2>1, <2>2, <2>5 DEF Alone
<1>4. CASE WipeRow
  <2> DEFINE to == IF row[m] = Bottom THEN "idle" ELSE "wipe"
  <2>1. Step(m, "wipe", to) /\ to \in Stages /\ row[m] \in 0 .. Bottom
    BY <1>4, StageNames DEF WipeRow, LoopInv, Step
  <2>2. /\ row'[m] = row[m] + 1 /\ chars' = [chars EXCEPT ![row[m]] = BlankLine]
        /\ UNCHANGED <<byte, panicked, terminal, col_pos>>
    BY <1>4 DEF WipeRow, TypeInv, Contexts
  <2>3. to = (IF row[m] = Bottom THEN "idle" ELSE "wipe") /\ to \in {"idle", "wipe"}
    OBVIOUS
  <2> HIDE DEF to
  <2>4. Pending("wipe", row[m], byte[m], chars, col_pos)
          = Pending(to, row'[m], byte[m], chars', col_pos')
    <3>1. \A k \in Rows : chars'[k] = IF k = row[m] THEN BlankLine ELSE chars[k]
      BY <1>0, <2>2 DEF Screens
    <3>2. Pending("wipe", row[m], byte[m], chars, col_pos)
            = Pending(to, row[m] + 1, byte[m], chars', col_pos)
      BY <2>1, <2>3, <3>1, WipePending
    <3> QED BY <2>2, <3>2, Zenon
  <2> QED BY <1>0, <2>1, <2>2, <2>3, <2>4, AloneStep
<1>5. ASSUME NEW c \in Contexts, Put(c) PROVE Alone'
  <2>1. at[c] = "put"
    BY <1>5 DEF Put, Step, Panic
  <2>2. c = m /\ (\A v \in Reads(c) : v = col_pos) /\ byte[m] \notin Controls /\ reg[m] = col_pos
    BY <2>1, MainAlone DEF Alone
  <2>3. /\ Step(m, "put", "test") /\ chars' = [chars EXCEPT ![Bottom][col_pos] = byte[m]]
        /\ UNCHANGED <<col_pos, byte, row, reg, panicked, terminal>>
    BY <1>0, <1>5, <2>2 DEF Put
  <2>4. /\ chars' \in Screens /\ chars'[Bottom] = Edited(chars[Bottom], col_pos, byte[m])
        /\ \A k \in Upper : chars'[k] = chars[k]
    BY <1>0, <2>3, BottomCell DEF Screens, Edited, Upper
  <2>5. Pending("put", row[m], byte[m], chars, col_pos)
          = Pending("test", row[m], byte[m], chars', col_pos)
    BY <1>0, <2>2, <2>4, PutPending
  <2> QED BY <1>0, <2>2, <2>3, <2>5, AloneStep, StageNames
<1>6. ASSUME NEW c \in Contexts, Test(c) PROVE Alone'
  <2>1. at[c] = "test"
    BY <1>6 DEF Test, Step
  <2>2. c = m /\ (\A v \in Reads(c) : v = col_pos) /\ reg[m] = col_pos /\ row[m] = 1
    BY <2>1, MainAlone DEF Alone, LoopInv
  <2> DEFINE to == IF col_pos = LastCol THEN "copy" ELSE "advance"
  <2>3. /\ Step(m, "test", to) /\ to \in Stages
        /\ UNCHANGED <<chars, col_pos, byte, row, reg, panicked, terminal>>
    BY <1>6, <2>2, StageNames DEF Test
  <2>4. Pending("test", row[m], byte[m], chars, col_pos)
          = Pending(to, row[m], byte[m], chars, col_pos)
    BY <1>0, <2>2, TestPending, Zenon
  <2>5. to \in {"copy", "advance"} /\ (to = "advance" => col_pos # LastCol)
    OBVIOUS
  <2> HIDE DEF to
  <2> QED BY <1>0, <2>2, <2>3, <2>4, <2>5, AloneStep
<1>7. ASSUME NEW c \in Contexts, CopyRow(c) PROVE Alone'
  <2>1. at[c] = "copy"
    BY <1>7 DEF CopyRow, Step
  <2>2. c = m /\ row[m] \in 1 .. Bottom /\ reg[m] = col_pos
    BY <2>1, MainAlone DEF LoopInv, Alone
  <2> DEFINE to == IF row[m] = Bottom THEN "clear" ELSE "copy"
  <2>3. /\ Step(m, "copy", to) /\ to \in Stages
        /\ row'[m] = row[m] + 1 /\ chars' = [chars EXCEPT ![row[m] - 1] = chars[row[m]]]
        /\ UNCHANGED <<byte, panicked, terminal, col_pos, reg>>
    BY <1>7, <2>2, StageNames DEF CopyRow, TypeInv
  <2>4. to = (IF row[m] = Bottom THEN "clear" ELSE "copy") /\ to \in {"clear", "copy"}
    OBVIOUS
  <2> HIDE DEF to
  <2>5. Pending("copy", row[m], byte[m], chars, col_pos)
          = Pending(to, row'[m], byte[m], chars', col_pos')
    <3>1. \A k \in Rows : chars'[k] = IF k = row[m] - 1 THEN chars[row[m]] ELSE chars[k]
      BY <1>0, <2>3 DEF Screens
    <3>2. Pending("copy", row[m], byte[m], chars, col_pos)
            = Pending(to, row[m] + 1, byte[m], chars', col_pos)
      BY <2>2, <2>4, <3>1, CopyPending
    <3> QED BY <2>3, <3>2, Zenon
  <2> QED BY <1>0, <2>2, <2>3, <2>4, <2>5, AloneStep
<1>8. ASSUME NEW c \in Contexts, clear_row(c) PROVE Alone'
  <2>1. at[c] = "clear"
    BY <1>8 DEF clear_row, Step
  <2>2. c = m /\ reg[m] = col_pos
    BY <2>1, MainAlone DEF Alone
  <2>3. /\ Step(m, "clear", "home") /\ chars' = [chars EXCEPT ![Bottom] = BlankLine]
        /\ UNCHANGED <<byte, panicked, terminal, col_pos, reg, row>>
    BY <1>8, <2>2 DEF clear_row
  <2>4. chars'[Bottom] = BlankLine /\ \A k \in Upper : chars'[k] = chars[k]
    BY <2>3, BottomLine, Screen DEF Upper
  <2>5. Pending("clear", row[m], byte[m], chars, col_pos)
          = Pending("home", row[m], byte[m], chars', col_pos)
    BY <2>4, ClearPending
  <2> QED BY <1>0, <2>2, <2>3, <2>5, AloneStep, StageNames
<1>9. ASSUME NEW c \in Contexts, NEW from \in {"advance", "home", "back"}, NEW v \in Cols,
             SetCol(c, from, v),
             Pending(from, row[m], byte[m], chars, col_pos)
               = Pending("cursor", row[m], byte[m], chars, v)
      PROVE  Alone'
  <2>1. at[c] = from /\ from # "idle"
    BY <1>9 DEF SetCol, Step
  <2>2. c = m
    BY <2>1, MainAlone
  <2>3. /\ Step(m, from, "cursor") /\ col_pos' = v /\ reg'[m] = v
        /\ UNCHANGED <<chars, byte, row, panicked, terminal>>
    BY <1>9, <2>2 DEF SetCol, TypeInv
  <2> QED BY <1>9, <2>1, <2>3, AloneStep, StageNames
<1>10. ASSUME NEW c \in Contexts, Advance(c) PROVE Alone'
  <2>1. PICK v \in Reads(c) : SetCol(c, "advance", v + 1)
    BY <1>10 DEF Advance
  <2>2. at[c] = "advance"
    BY <2>1 DEF SetCol, Step
  <2>3. c = m /\ v = col_pos /\ col_pos # LastCol
    BY <2>2, MainAlone DEF Alone
  <2>4. col_pos + 1 \in Cols
    BY <1>0, <2>3, Screen
  <2>5. Pending("advance", row[m], byte[m], chars, col_pos)
          = Pending("cursor", row[m], byte[m], chars, col_pos + 1)
    BY Zenon DEF Pending, Shown
  <2> QED BY <1>9, <2>1, <2>3, <2>4, <2>5
<1>11. ASSUME NEW c \in Contexts, Home(c) PROVE Alone'
  <2>1. 0 \in Cols
    BY Screen
  <2>2. Pending("home", row[m], byte[m], chars, col_pos)
          = Pending("cursor", row[m], byte[m], chars, 0)
    BY Zenon DEF Pending, Shown
  <2> QED BY <1>9, <1>11, <2>1, <2>2 DEF Home
<1>12. ASSUME NEW c \in Contexts, Back(c) PROVE Alone'
  <2>1. PICK v \in Reads(c) : IF v > 0 THEN SetCol(c, "back", v - 1) ELSE Panic(c, "back")
    BY <1>12 DEF Back
  <2>2. at[c] = "back"
    BY <2>1 DEF SetCol, Step, Panic
  <2>3. c = m /\ v = col_pos /\ col_pos > 0
    BY <2>2, MainAlone DEF Alone
  <2>4. col_pos - 1 \in Cols
    BY <1>0, <2>3, Screen
  <2>5. Pending("back", row[m], byte[m], chars, col_pos)
          = Pending("cursor", row[m], byte[m], chars, col_pos - 1)
    BY Zenon DEF Pending, Shown
  <2> QED BY <1>9, <2>1, <2>3, <2>4, <2>5
<1>13. ASSUME NEW c \in Contexts, Erase(c) PROVE Alone'
  <2>1. at[c] = "erase"
    BY <1>13 DEF Erase, Step, Panic
  <2>2. /\ c = m /\ (\A v \in Reads(c) : v = col_pos) /\ byte[m] = "backspace"
        /\ reg[m] = col_pos /\ col_pos > 0
    BY <2>1, MainAlone DEF Alone
  <2>3. col_pos - 1 \in Cols /\ col_pos # 0
    BY <1>0, <2>2, Screen
  <2>4. /\ Step(m, "erase", "back") /\ chars' = [chars EXCEPT ![Bottom][col_pos - 1] = " "]
        /\ UNCHANGED <<col_pos, byte, row, reg, panicked, terminal>>
    BY <1>13, <2>2, <2>3 DEF Erase
  <2>5. " " \in Cells
    BY DEF Cells
  <2>6. /\ chars' \in Screens /\ chars'[Bottom] = Edited(chars[Bottom], col_pos - 1, " ")
        /\ \A k \in Upper : chars'[k] = chars[k]
    BY <2>3, <2>4, <2>5, BottomCell DEF Screens, Edited, Upper
  <2>7. Pending("erase", row[m], "backspace", chars, col_pos)
          = Pending("back", row[m], "backspace", chars', col_pos)
    BY <1>0, <2>3, <2>6, ErasePending
  <2> QED BY <1>0, <2>2, <2>4, <2>7, AloneStep, StageNames
<1>14. ASSUME NEW c \in Contexts, Shift(c) PROVE Alone'
  <2>1. at[c] = "shift"
    BY <1>14 DEF Shift, Step, Panic
  <2>2. c = m /\ (\A v \in Reads(c) : v = col_pos) /\ byte[m] = "del"
    BY <2>1, MainAlone DEF Alone
  <2>3. /\ Step(m, "shift", "idle")
        /\ chars' = [chars EXCEPT ![Bottom] = Closed(chars[Bottom], col_pos)]
        /\ UNCHANGED <<col_pos, byte, row, reg, panicked, terminal>>
    BY <1>0, <1>14, <2>2, ShiftIs
  <2>4. chars'[Bottom] = Closed(chars[Bottom], col_pos) /\ \A k \in Upper : chars'[k] = chars[k]
    BY <1>0, <2>3, ClosedLine, BottomLine DEF Upper, Lines
  <2>5. Pending("shift", row[m], "del", chars, col_pos)
          = Pending("idle", row[m], "del", chars', col_pos)
    BY <2>4, ShiftPending
  <2> QED BY <1>0, <2>2, <2>3, <2>5, AloneStep, StageNames
<1>15. ASSUME NEW c \in Contexts,
              Cursor(c) \/ SelectLow(c) \/ WriteLow(c) \/ SelectHigh(c) \/ WriteHigh(c)
       PROVE  Alone'
  <2>1. PICK from \in {"cursor"} \cup CursorStages, to \in {"idle"} \cup CursorStages :
          /\ Step(c, from, to)
          /\ UNCHANGED <<chars, col_pos, byte, row, reg, panicked, terminal>>
    BY <1>15 DEF Cursor, SelectLow, WriteLow, SelectHigh, WriteHigh, Select, CursorStages
  <2>2. at[c] = from /\ from \notin {"idle", "wipe"}
    BY <2>1 DEF Step, CursorStages
  <2>3. c = m /\ reg[m] = col_pos
    BY <2>2, MainAlone DEF Alone
  <2>4. \A x \in {"idle", "cursor"} \cup CursorStages :
          Pending(x, row[m], byte[m], chars, col_pos) = Shown(chars, col_pos)
    BY Zenon DEF Pending, CursorStages
  <2>5. to \in Stages /\ to \notin {"put", "erase", "shift", "back", "advance", "wipe"}
    BY DEF Stages, CursorStages
  <2> QED BY <1>0, <2>1, <2>2, <2>3, <2>4, <2>5, AloneStep
<1>16. CASE UNCHANGED vars
  BY <1>16 DEF vars, Alone
<1> QED
  BY <1>1, <1>2, <1>3, <1>4, <1>5, <1>6, <1>7, <1>8, <1>10, <1>11, <1>12, <1>13, <1>14,
     <1>15, <1>16 DEF Next

LEMMA ShowInvariance == Spec => [](TypeInv /\ ShowInv)
<1>1. Init => ShowInv
  <2> SUFFICES ASSUME Init PROVE Alone
    BY DEF ShowInv
  <2>1. col_pos = 0 /\ ~panicked /\ at["main"] = "idle" /\ at["handler"] = "idle" /\ 0 \in Cols
    BY Screen DEF Init, Contexts
  <2>2. Pending("idle", row["main"], byte["main"], chars, col_pos) = Shown(chars, col_pos)
    BY Zenon DEF Pending
  <2>3. terminal = Shown(chars, col_pos)
    <3>1. chars[Bottom] = [c \in Cols |-> "bios"] /\ Above(chars) = [k \in Upper |-> [c \in Cols |-> "bios"]]
      BY Screen, UpperRows DEF Init, Above
    <3> QED BY <2>1, <3>1 DEF Init, BootTerminal, Shown, Term, Upper
  <2> QED BY <2>1, <2>2, <2>3 DEF Alone
<1>2. TypeInv /\ LoopInv /\ ShowInv /\ [Next]_vars => ShowInv'
  <2> SUFFICES ASSUME TypeInv, LoopInv, ShowInv, [Next]_vars, interrupts' = 0 PROVE Alone'
    BY DEF ShowInv
  <2>1. interrupts = 0
    <3>1. CASE KeyInterrupts
      BY <3>1 DEF KeyInterrupts, TypeInv
    <3>2. CASE MainPutc \/ Clear \/ WipeRow \/ UNCHANGED vars
      BY <3>2 DEF MainPutc, Clear, WipeRow, Quiet, vars
    <3>3. ASSUME NEW c \in Contexts, Put(c) \/ Erase(c) \/ Shift(c) \/ Back(c) PROVE interrupts = 0
      BY <3>3 DEF Put, Erase, Shift, Back, Panic, SetCol, Quiet
    <3>4. ASSUME NEW c \in Contexts,
                 \/ Test(c) \/ Advance(c) \/ CopyRow(c) \/ clear_row(c) \/ Home(c) \/ Cursor(c)
                 \/ SelectLow(c) \/ WriteLow(c) \/ SelectHigh(c) \/ WriteHigh(c)
          PROVE  interrupts = 0
      BY <3>4 DEF Test, Advance, CopyRow, clear_row, Home, Cursor, SelectLow, WriteLow, SelectHigh,
                  WriteHigh, Select, SetCol, Quiet
    <3> QED BY <3>1, <3>2, <3>3, <3>4 DEF Next
  <2> QED BY <2>1, NextAlone DEF ShowInv
<1> QED BY <1>1, <1>2, TypeInit, NextType, PTL DEF Spec

\* Until the first key arrives, main's putc and clear, step by step on any size
\* of screen and for any bytes, show what the reference terminal shows.
THEOREM TerminalShown == Spec => []ShowsTerminal
<1>1. TypeInv /\ ShowInv => ShowsTerminal
  <2> SUFFICES ASSUME TypeInv, interrupts = 0, Alone
               PROVE  /\ ~panicked
                      /\ AtRest =>
                           /\ col_pos = terminal.col
                           /\ chars = [r \in Rows |-> IF r = Bottom THEN terminal.line
                                                      ELSE terminal.above[r]]
    BY DEF ShowInv, ShowsTerminal
  <2>1. SUFFICES ASSUME AtRest
                 PROVE  /\ col_pos = terminal.col
                        /\ chars = [r \in Rows |-> IF r = Bottom THEN terminal.line
                                                   ELSE terminal.above[r]]
    BY DEF Alone
  <2>2. Pending("idle", row["main"], byte["main"], chars, col_pos) = Shown(chars, col_pos)
    BY Zenon DEF Pending
  <2>3. terminal = Shown(chars, col_pos)
    BY <2>1, <2>2, Zenon DEF Alone, AtRest, Contexts
  <2>4. terminal.col = col_pos /\ terminal.line = chars[Bottom] /\ terminal.above = Above(chars)
    BY <2>3 DEF Shown, Term
  <2>5. \A r \in Rows : r # Bottom => Above(chars)[r] = chars[r]
    BY DEF Above, Upper
  <2> QED BY <2>4, <2>5, Screen DEF TypeInv
<1> QED BY <1>1, ShowInvariance, PTL

----------------------------------------------------------------------------
(* The column.                                                             *)

\* What the part of putc that works on col_pos relies on.
Holding(c) ==
  /\ at[c] \in Working => reg[c] = col_pos
  /\ at[c] = "advance" => col_pos # LastCol
  /\ at[c] \in {"erase", "back"} => col_pos > 0

\* Without a key in that part of main's putc, at most one context is in it,
\* and finds the column as it left it.
Steady ==
  /\ ~panicked /\ col_pos \in Cols
  /\ at["main"] \in Working => at["handler"] = "idle"
  /\ \A c \in Contexts : Holding(c)
ColInv == ~crossed => Steady

\* A step that leaves the column alone.
LEMMA SteadyStep ==
  ASSUME TypeInv, Steady, NEW c \in Contexts, NEW from \in Stages \ {"idle"}, NEW to \in Stages,
         Step(c, from, to), UNCHANGED <<col_pos, reg, panicked>>,
         to \in Working => from \in Working,
         to = "advance" => col_pos # LastCol, to \in {"erase", "back"} => col_pos > 0
  PROVE  Steady'
<1>1. /\ at[c] = from /\ at'[c] = to
      /\ \A d \in Contexts : d # c => at'[d] = at[d]
      /\ c = "main" => at["handler"] = "idle"
  BY StepAt DEF CanRun
<1>2. at'["main"] \in Working => at'["handler"] = "idle"
  BY <1>1 DEF Steady, Contexts
<1>3. ASSUME NEW d \in Contexts PROVE Holding(d)'
  <2>1. CASE d = c
    BY <1>1, <2>1 DEF Steady, Holding
  <2>2. CASE d # c
    BY <1>1, <2>2 DEF Steady, Holding
  <2> QED BY <2>1, <2>2
<1> QED BY <1>2, <1>3 DEF Steady

\* A step that writes it.
LEMMA SteadyCol ==
  ASSUME TypeInv, NEW c \in Contexts, NEW from, NEW v \in Cols, SetCol(c, from, v),
         ~panicked, c = "handler" => at["main"] \notin Working
  PROVE  Steady'
<1>1. Step(c, from, "cursor") /\ col_pos' = v /\ panicked' = panicked
  BY DEF SetCol
<1>2. /\ at'[c] = "cursor" /\ (\A d \in Contexts : d # c => at'[d] = at[d])
      /\ c = "main" => at["handler"] = "idle"
  BY <1>1, StepAt, StageNames DEF CanRun
<1>3. \A d \in Contexts : at'[d] \notin Working
  BY <1>2 DEF Contexts, Working
<1> QED BY <1>1, <1>3 DEF Steady, Holding, Contexts, Working

\* What the part of putc reads.
LEMMA SteadyReads ==
  ASSUME Steady, NEW c \in Contexts, at[c] \in Working, NEW v \in Reads(c)
  PROVE  v = col_pos
BY DEF Steady, Holding, Reads

LEMMA PutcSteady ==
  ASSUME TypeInv, Steady, NEW c \in Contexts, NEW b, putc(c, b),
         c = "handler" => at["main"] \notin Working
  PROVE  Steady'
<1>1. Entry(b) \in Stages /\ Entry(b) \notin {"advance", "back"} /\ (Entry(b) = "erase" => col_pos > 0)
  BY StageNames DEF Entry
<1>2. Step(c, "idle", Entry(b)) /\ UNCHANGED <<col_pos, panicked>>
  BY DEF putc
<1>3. /\ at'[c] = Entry(b) /\ (\A d \in Contexts : d # c => at'[d] = at[d])
      /\ c = "main" => at["handler"] = "idle"
  BY <1>1, <1>2, StepAt DEF CanRun
<1>4. reg'[c] = col_pos /\ \A d \in Contexts : d # c => reg'[d] = reg[d]
  BY DEF putc, TypeInv
<1>5. at'["main"] \in Working => at'["handler"] = "idle"
  BY <1>3 DEF Contexts
<1>6. ASSUME NEW d \in Contexts PROVE Holding(d)'
  <2>1. CASE d = c
    BY <1>1, <1>2, <1>3, <1>4, <2>1 DEF Holding
  <2>2. CASE d # c
    BY <1>2, <1>3, <1>4, <2>2 DEF Steady, Holding
  <2> QED BY <2>1, <2>2
<1> QED BY <1>2, <1>5, <1>6 DEF Steady

LEMMA NextColumn ==
  ASSUME TypeInv, ColInv, [Next]_vars
  PROVE  ColInv'
<1> SUFFICES ASSUME ~crossed' PROVE Steady'
  BY DEF ColInv
<1> USE DEF Quiet, ghosts
<1>1. CASE MainPutc
  <2>1. PICK b \in MainBytes : putc("main", b)
    BY <1>1 DEF MainPutc
  <2>2. Steady
    BY <1>1 DEF MainPutc, ColInv
  <2> QED BY <2>1, <2>2, PutcSteady DEF Contexts
<1>2. CASE KeyInterrupts
  <2>1. PICK b \in HandlerBytes : putc("handler", b)
    BY <1>2 DEF KeyInterrupts
  <2>2. Steady /\ at["main"] \notin Working
    BY <1>2 DEF KeyInterrupts, ColInv
  <2> QED BY <2>1, <2>2, PutcSteady DEF Contexts
<1>3. CASE Clear
  <2>1. Steady /\ UNCHANGED <<col_pos, reg, panicked>> /\ Step("main", "idle", "wipe")
    BY <1>3 DEF Clear, ColInv
  <2>2. at'["main"] = "wipe" /\ at'["handler"] = at["handler"] /\ at["handler"] = "idle"
    BY <2>1, StepAt, StageNames DEF Contexts, CanRun
  <2> QED BY <2>1, <2>2 DEF Steady, Holding, Contexts, Working
<1>4. CASE WipeRow
  <2>1. Steady /\ UNCHANGED <<col_pos, reg, panicked>>
    BY <1>4 DEF WipeRow, ColInv
  <2>2. PICK to \in {"idle", "wipe"} : Step("main", "wipe", to)
    BY <1>4 DEF WipeRow
  <2> QED BY <2>1, <2>2, SteadyStep, StageNames DEF Contexts, Working
<1>5. ASSUME NEW c \in Contexts, Put(c) PROVE Steady'
  <2>1. PICK v \in Reads(c) :
          IF v \in Cols
            THEN Step(c, "put", "test") /\ UNCHANGED <<col_pos, reg, panicked, crossed>>
            ELSE Panic(c, "put")
    BY <1>5 DEF Put
  <2>2. Steady /\ at[c] = "put"
    BY <2>1 DEF Panic, Step, ColInv
  <2>3. v \in Cols
    BY <2>2, SteadyReads DEF Working, Steady
  <2> QED BY <2>1, <2>2, <2>3, SteadyStep, StageNames DEF Working
<1>6. ASSUME NEW c \in Contexts, Test(c) PROVE Steady'
  <2>1. PICK v \in Reads(c) : Step(c, "test", IF v = LastCol THEN "copy" ELSE "advance")
    BY <1>6 DEF Test
  <2>2. Steady /\ at[c] = "test" /\ UNCHANGED <<col_pos, reg, panicked>>
    BY <1>6, <2>1 DEF Test, Step, ColInv
  <2>3. v = col_pos
    BY <2>2, SteadyReads DEF Working
  <2>4. CASE v = LastCol
    BY <2>1, <2>2, <2>4, SteadyStep, StageNames DEF Working
  <2>5. CASE v # LastCol
    BY <2>1, <2>2, <2>3, <2>5, SteadyStep, StageNames DEF Working
  <2> QED BY <2>4, <2>5
<1>7. ASSUME NEW c \in Contexts, Advance(c) PROVE Steady'
  <2>1. PICK v \in Reads(c) : SetCol(c, "advance", v + 1)
    BY <1>7 DEF Advance
  <2>2. Steady /\ at[c] = "advance"
    BY <2>1 DEF SetCol, Step, ColInv
  <2>3. v = col_pos /\ col_pos \in Cols /\ col_pos # LastCol
    BY <2>2, SteadyReads DEF Working, Steady, Holding
  <2>4. v + 1 \in Cols
    BY <2>3, Screen DEF Cols
  <2>5. c = "handler" => at["main"] \notin Working
    BY <2>2 DEF Steady
  <2> QED BY <2>1, <2>2, <2>4, <2>5, SteadyCol DEF Steady
<1>8. ASSUME NEW c \in Contexts, Home(c) PROVE Steady'
  <2>1. SetCol(c, "home", 0) /\ ~panicked /\ at[c] = "home"
    BY <1>8 DEF Home, SetCol, Step, CanRun
  <2>2. 0 \in Cols
    BY Screen DEF Cols
  <2>3. c = "handler" => at["main"] \notin Working
    <3>1. SUFFICES ASSUME c = "handler" PROVE at["main"] \notin Working
      OBVIOUS
    <3>2. <<c, "home">> # <<"main", "home">>
      BY <3>1
    <3>3. ~crossed
      BY <2>1, <3>2 DEF SetCol
    <3> QED BY <2>1, <3>1, <3>3 DEF ColInv, Steady
  <2> QED BY <2>1, <2>2, <2>3, SteadyCol
<1>9. ASSUME NEW c \in Contexts, Back(c) PROVE Steady'
  <2>1. PICK v \in Reads(c) : IF v > 0 THEN SetCol(c, "back", v - 1) ELSE Panic(c, "back")
    BY <1>9 DEF Back
  <2>2. Steady /\ at[c] = "back"
    BY <2>1 DEF SetCol, Panic, Step, ColInv
  <2>3. v = col_pos /\ col_pos \in Cols /\ col_pos > 0
    BY <2>2, SteadyReads DEF Working, Steady, Holding
  <2>4. v - 1 \in Cols
    BY <2>3, Screen DEF Cols
  <2>5. c = "handler" => at["main"] \notin Working
    BY <2>2 DEF Steady
  <2> QED BY <2>1, <2>2, <2>3, <2>4, <2>5, SteadyCol DEF Steady
<1>10. ASSUME NEW c \in Contexts, CopyRow(c) PROVE Steady'
  <2>1. Steady /\ UNCHANGED <<col_pos, reg, panicked>>
    BY <1>10 DEF CopyRow, ColInv
  <2>2. PICK to \in {"clear", "copy"} : Step(c, "copy", to)
    BY <1>10 DEF CopyRow
  <2> QED BY <2>1, <2>2, SteadyStep, StageNames DEF Working
<1>11. ASSUME NEW c \in Contexts, clear_row(c) PROVE Steady'
  <2>1. Steady /\ UNCHANGED <<col_pos, reg, panicked>> /\ Step(c, "clear", "home")
    BY <1>11 DEF clear_row, ColInv
  <2> QED BY <2>1, SteadyStep, StageNames DEF Working
<1>12. ASSUME NEW c \in Contexts, Erase(c) PROVE Steady'
  <2>1. PICK v \in Reads(c) :
          IF v - 1 \in Cols
            THEN Step(c, "erase", "back") /\ UNCHANGED <<col_pos, reg, panicked, crossed>>
            ELSE Panic(c, "erase")
    BY <1>12 DEF Erase
  <2>2. Steady /\ at[c] = "erase"
    BY <2>1 DEF Panic, Step, ColInv
  <2>3. v = col_pos /\ col_pos \in Cols /\ col_pos > 0
    BY <2>2, SteadyReads DEF Working, Steady, Holding
  <2>4. v - 1 \in Cols
    BY <2>3, Screen DEF Cols
  <2> QED BY <2>1, <2>2, <2>3, <2>4, SteadyStep, StageNames DEF Working
<1>13. ASSUME NEW c \in Contexts, Shift(c) PROVE Steady'
  <2>1. PICK v \in Reads(c) :
          IF v \in Cols
            THEN Step(c, "shift", "idle") /\ UNCHANGED <<col_pos, reg, panicked, crossed>>
            ELSE Panic(c, "shift")
    BY <1>13 DEF Shift
  <2>2. Steady /\ at[c] = "shift"
    BY <2>1 DEF Panic, Step, ColInv
  <2>3. v \in Cols
    BY <2>2, SteadyReads DEF Working, Steady
  <2> QED BY <2>1, <2>2, <2>3, SteadyStep, StageNames DEF Working
<1>14. ASSUME NEW c \in Contexts,
              Cursor(c) \/ SelectLow(c) \/ WriteLow(c) \/ SelectHigh(c) \/ WriteHigh(c)
       PROVE  Steady'
  <2>1. Steady /\ UNCHANGED <<col_pos, reg, panicked>>
    BY <1>14 DEF Cursor, SelectLow, SelectHigh, Select, WriteLow, WriteHigh, ColInv
  <2>2. PICK from \in {"cursor", "select_low", "low", "select_high", "high"},
             to \in {"select_low", "low", "select_high", "high", "idle"} : Step(c, from, to)
    BY <1>14 DEF Cursor, SelectLow, SelectHigh, Select, WriteLow, WriteHigh
  <2> QED BY <2>1, <2>2, SteadyStep, StageNames DEF Working
<1>15. CASE UNCHANGED vars
  BY <1>15 DEF vars, ColInv, Steady, Holding
<1> QED
  BY <1>1, <1>2, <1>3, <1>4, <1>5, <1>6, <1>7, <1>8, <1>9, <1>10, <1>11, <1>12, <1>13, <1>14, <1>15
     DEF Next

\* Only a key that comes where main's putc works on col_pos can move the column
\* off the screen; all other keys leave every index of putc on it, and after
\* such a key main's next newline or return does.
THEOREM ColumnKept == Spec => []OnlyRacesLoseColumn
<1>1. Init => ColInv
  <2> SUFFICES ASSUME Init PROVE Steady
    BY DEF ColInv
  <2>1. col_pos = 0 /\ panicked = FALSE /\ at = [c \in Contexts |-> "idle"]
    BY DEF Init
  <2> QED BY <2>1, Screen DEF Steady, Holding, Contexts, Working, Cols
<1>2. ColInv => OnlyRacesLoseColumn
  BY DEF ColInv, Steady, OnlyRacesLoseColumn, ColumnOnScreen
<1> QED BY <1>1, <1>2, TypeInit, NextType, NextColumn, PTL DEF Spec

----------------------------------------------------------------------------
(* The count of the timer.                                                 *)

\* The rounded quotient of h by f lies between its two neighbours.
LEMMA RoundedQuotient ==
  ASSUME NEW h \in Nat, NEW f \in Nat, f > 0
  PROVE  LET half == f \div 2
             q == (h + half) \div f
         IN  /\ q \in Nat /\ half \in Nat
             /\ 2 * half <= f /\ f <= 2 * half + 1
             /\ q * f <= h + half /\ h + half < q * f + f
<1> DEFINE half == f \div 2
           q == (h + half) \div f
<1>1. half \in Nat /\ 2 * half <= f /\ f <= 2 * half + 1
  OBVIOUS
<1> HIDE DEF half
<1>2. \A n \in Nat : n \div f \in Nat /\ (n \div f) * f <= n /\ n < (n \div f) * f + f
  OBVIOUS
<1>3. q \in Nat /\ q * f <= h + half /\ h + half < q * f + f
  BY <1>1, <1>2
<1> QED BY <1>1, <1>3 DEF half

\* Between the clamps the cast to u16 loses nothing, and the count is neither
\* 0 nor further than half a step from the exact quotient.
LEMMA CountIs ==
  ASSUME NEW f \in Nat, 19 <= f, f <= PIT_HZ
  PROVE  LET q == count(f)
         IN  /\ q \in Nat /\ 1 <= q /\ q <= 65535
             /\ 2 * (q * f) <= 2 * PIT_HZ + f
             /\ 2 * PIT_HZ + 1 <= 2 * (q * f) + f
<1> DEFINE h == PIT_HZ
           half == f \div 2
           q == (h + half) \div f
<1>1. h \in Nat /\ h <= 1200000
  BY SMT DEF PIT_HZ
<1> HIDE DEF h
<1>2. /\ q \in Nat /\ half \in Nat
      /\ 2 * half <= f /\ f <= 2 * half + 1
      /\ q * f <= h + half /\ h + half < q * f + f
  BY <1>1, RoundedQuotient
<1>3. count(f) = q % 65536
  <2>1. ~(f < 19) /\ ~(f > h)
    BY <1>1, SMT DEF h
  <2> QED BY <2>1, SMT DEF count, h
<1> HIDE DEF half, q
<1>4. 2 * (q * f) <= 2 * h + f /\ 2 * h + 1 <= 2 * (q * f) + f
  BY <1>1, <1>2
<1>5. q >= 1
  <2>1. SUFFICES ASSUME q = 0 PROVE FALSE
    BY <1>2
  <2>2. q * f = 0
    BY <2>1
  <2> QED BY <1>1, <1>2, <2>2, SMT DEF h
<1>6. q <= 65535
  <2>1. SUFFICES ASSUME q >= 65536 PROVE FALSE
    BY <1>2
  <2>2. q * f >= 65536 * f
    BY <1>2, <2>1, SMT
  <2> QED BY <1>1, <1>2, <1>4, <2>2, SMT
<1>7. q % 65536 = q
  BY <1>2, <1>6, SMT
<1> QED BY <1>2, <1>3, <1>4, <1>5, <1>6, <1>7, SMT DEF h

\* A higher frequency has no larger count.
LEMMA CountFalls ==
  ASSUME NEW f \in Nat, NEW g \in Nat, 19 <= f, f < g, g <= PIT_HZ
  PROVE  count(g) <= count(f)
<1> DEFINE h == PIT_HZ
           p == count(f)
           q == count(g)
<1>0. h \in Nat
  BY SMT DEF PIT_HZ
<1>1. p \in Nat /\ 2 * h + 1 <= 2 * (p * f) + f
  <2>1. f <= PIT_HZ
    BY <1>0, SMT
  <2> QED BY <2>1, CountIs, SMT
<1>2. q \in Nat /\ 1 <= q /\ 2 * (q * g) <= 2 * h + g
  <2>1. 19 <= g
    BY SMT
  <2> QED BY <2>1, CountIs, SMT
<1> HIDE DEF h, p, q
<1>3. SUFFICES ASSUME p + 1 <= q PROVE FALSE
  BY <1>1, <1>2, SMT DEF p, q
<1>4. p * f + f <= q * f
  BY <1>1, <1>2, <1>3, SMT
<1>5. q * g = q * f + q * (g - f) /\ q * (g - f) >= g - f
  BY <1>2, SMT
<1> QED BY <1>0, <1>1, <1>2, <1>4, <1>5, SMT

\* The two bytes of a count, put together again.
LEMMA BytesOfCount ==
  ASSUME NEW f \in Nat
  PROVE  /\ count(f) \in Nat
         /\ (count(f) % 256) + 256 * (count(f) \div 256) = count(f)
<1>1. count(f) \in Nat
  <2>1. CASE 19 <= f /\ f <= PIT_HZ
    BY <2>1, CountIs, SMT
  <2>2. CASE ~(19 <= f /\ f <= PIT_HZ)
    <3>1. f < 19 \/ f > PIT_HZ
      BY <2>2, SMT DEF PIT_HZ
    <3> QED BY <3>1, SMT DEF count
  <2> QED BY <2>1, <2>2
<1> QED BY <1>1, SMT

----------------------------------------------------------------------------
(* The three port writes.                                                  *)

\* The channel passed the assertion, and each byte that a call has written so
\* far is the byte of the count for that call's frequency.
TimerInv ==
  /\ frequency \in Nat
  /\ pc \in {"idle", "control", "low", "high", "panic"}
  /\ pc # "panic" => channel \in {0, 2}
  /\ low \in [{0, 2} -> Int] /\ high \in [{0, 2} -> Int]
  /\ pc = "high" \/ Programmed => low[channel] = count(frequency) % 256
  /\ Programmed => high[channel] = count(frequency) \div 256

\* The two bytes sent to the timer are those of the count computed.
LEMMA TimerInvariant == PitSpec => []TimerInv
<1>1. PitInit => TimerInv
  BY DEF PitInit, TimerInv, Programmed, Unset
<1>2. TimerInv /\ [PitNext]_pit_vars => TimerInv'
  <2> SUFFICES ASSUME TimerInv, [PitNext]_pit_vars PROVE TimerInv'
    OBVIOUS
  <2>0. count(frequency) \in Nat
    BY BytesOfCount DEF TimerInv
  <2>1. ASSUME NEW c \in Channels, NEW m \in Modes, NEW f \in Frequencies, Call(c, m, f)
        PROVE  TimerInv'
    BY <2>1, ArgumentsAssumption DEF TimerInv, Call, Programmed
  <2>2. CASE PitControl
    BY <2>2 DEF TimerInv, PitControl, Programmed
  <2>3. CASE PitLow
    BY <2>0, <2>3 DEF TimerInv, PitLow, Programmed
  <2>4. CASE PitHigh
    BY <2>0, <2>4 DEF TimerInv, PitHigh, Programmed
  <2>5. CASE UNCHANGED pit_vars
    BY <2>5 DEF TimerInv, pit_vars, Programmed
  <2> QED BY <2>1, <2>2, <2>3, <2>4, <2>5 DEF PitNext
<1> QED BY <1>1, <1>2, PTL DEF PitSpec

\* What the channel divides by once all three writes are done.
LEMMA DivisorIs ==
  ASSUME TimerInv, Programmed
  PROVE  Divisor(channel) =
           IF count(frequency) = 0 THEN 65536 ELSE count(frequency)
<1>1. low[channel] + 256 * high[channel] = count(frequency)
  <2>1. /\ low[channel] = count(frequency) % 256
        /\ high[channel] = count(frequency) \div 256
    BY DEF TimerInv
  <2> QED BY <2>1, BytesOfCount, SMT DEF TimerInv
<1> QED BY <1>1, SMT DEF Divisor

\* pit_configure_channel rounds to the nearest divisor, which fits 16 bits and
\* arrives in the channel low byte first, for every frequency between its two
\* clamps and after any earlier calls.
THEOREM TimerRate == PitSpec => []RateIsNearest
<1>1. TimerInv => RateIsNearest
  <2> DEFINE h == PIT_HZ
             d == Divisor(channel)
  <2>0. h \in Nat
    BY SMT DEF PIT_HZ
  <2>1. SUFFICES ASSUME TimerInv, Programmed, 19 <= frequency, frequency <= h
                 PROVE  /\ 2 * (d * frequency - h) <= frequency
                        /\ 2 * (h - d * frequency) <= frequency
    <3>1. frequency \in 19 .. h => 19 <= frequency /\ frequency <= h
      BY <2>0, SMT
    <3> HIDE DEF h
    <3> QED BY <3>1, SMT DEF RateIsNearest, h
  <2>2. frequency \in Nat
    BY <2>1 DEF TimerInv
  <2>3. /\ d \in Nat
        /\ 2 * (d * frequency) <= 2 * h + frequency
        /\ 2 * h + 1 <= 2 * (d * frequency) + frequency
    BY <2>1, <2>2, DivisorIs, CountIs, SMT
  <2> HIDE DEF h, d
  <2>4. d * frequency \in Nat
    BY <2>2, <2>3, SMT
  <2> QED BY <2>0, <2>2, <2>3, <2>4, SMT
<1> QED BY <1>1, TimerInvariant, PTL

\* A call for a higher frequency, up to PIT_HZ, never programs a larger divisor
\* than the one the channel has, the lower clamp included.
THEOREM TimerFaster == PitSpec => []FasterIsFaster
<1>1. TimerInv => FasterIsFaster
  <2>1. SUFFICES ASSUME TimerInv, Programmed, NEW f \in Frequencies, f > frequency,
                        f <= PIT_HZ
                 PROVE  (IF count(f) = 0 THEN 65536 ELSE count(f))
                          <= Divisor(channel)
    BY DEF FasterIsFaster
  <2>2. frequency \in Nat /\ f \in Nat
    BY <2>1, ArgumentsAssumption DEF TimerInv
  <2>3. CASE frequency < 19
    <3>1. count(frequency) = 0
      BY <2>3, SMT DEF count
    <3>2. Divisor(channel) = 65536
      BY <2>1, <3>1, DivisorIs, SMT
    <3>3. CASE f < 19
      <4>1. count(f) = 0
        BY <3>3, SMT DEF count
      <4> QED BY <3>2, <4>1, SMT
    <3>4. CASE 19 <= f
      <4>1. count(f) \in Nat /\ count(f) <= 65535
        BY <2>1, <2>2, <3>4, CountIs, SMT
      <4> QED BY <3>2, <4>1, SMT
    <3> QED BY <2>2, <3>3, <3>4, SMT
  <2>4. CASE 19 <= frequency
    <3>1. count(f) <= count(frequency)
      BY <2>1, <2>2, <2>4, CountFalls, SMT
    <3>2. 19 <= f /\ frequency <= PIT_HZ
      BY <2>1, <2>2, <2>4, SMT DEF PIT_HZ
    <3>3. /\ count(f) \in Nat /\ 1 <= count(f)
          /\ count(frequency) \in Nat /\ 1 <= count(frequency)
      BY <2>1, <2>2, <2>4, <3>2, CountIs, SMT
    <3> QED BY <2>1, <3>1, <3>3, DivisorIs, SMT
  <2> QED BY <2>2, <2>3, <2>4, SMT
<1> QED BY <1>1, TimerInvariant, PTL

\* Where the comment on the upper clamp of pit_configure_channel stops being
\* true: the count of 1 that it calls illegal in mode 2 is programmed exactly
\* for the frequencies from 795454 Hz up to PIT_HZ.  main asks for 200 Hz.
THEOREM TimerCountOfOne ==
  PitSpec =>
    [](Programmed => (Divisor(channel) = 1 <=> 795454 <= frequency /\ frequency <= PIT_HZ))
<1>1. TimerInv => (Programmed =>
                     (Divisor(channel) = 1
                      <=> 795454 <= frequency /\ frequency <= PIT_HZ))
  <2> DEFINE d == Divisor(channel)
  <2>1. SUFFICES ASSUME TimerInv, Programmed
                 PROVE  d = 1 <=> 795454 <= frequency /\ frequency <= PIT_HZ
    OBVIOUS
  <2>2. frequency \in Nat
    BY <2>1 DEF TimerInv
  <2>3. d = IF count(frequency) = 0 THEN 65536 ELSE count(frequency)
    BY <2>1, DivisorIs
  <2>4. CASE frequency < 19
    <3>1. count(frequency) = 0
      BY <2>4, SMT DEF count
    <3> QED BY <2>2, <2>3, <2>4, <3>1, SMT
  <2>5. CASE frequency > PIT_HZ
    <3>1. count(frequency) = 2
      BY <2>2, <2>5, SMT DEF count, PIT_HZ
    <3> QED BY <2>2, <2>3, <2>5, <3>1, SMT DEF PIT_HZ
  <2>6. CASE 19 <= frequency /\ frequency <= PIT_HZ
    <3>1. /\ d \in Nat /\ 1 <= d
          /\ 2 * (d * frequency) <= 2 * PIT_HZ + frequency
          /\ 2 * PIT_HZ + 1 <= 2 * (d * frequency) + frequency
      BY <2>2, <2>3, <2>6, CountIs, SMT
    <3> HIDE DEF d
    <3>2. CASE d = 1
      <4>1. d * frequency = frequency
        BY <2>2, <3>2, SMT
      <4> QED BY <2>2, <2>6, <3>1, <3>2, <4>1, SMT DEF PIT_HZ
    <3>3. CASE d >= 2
      <4>1. d * frequency >= 2 * frequency /\ d * frequency \in Nat
        BY <2>2, <3>1, <3>3, SMT
      <4> QED BY <2>2, <2>6, <3>1, <3>3, <4>1, SMT DEF PIT_HZ
    <3> QED BY <3>1, <3>2, <3>3, SMT
  <2> QED BY <2>2, <2>4, <2>5, <2>6, SMT DEF PIT_HZ
<1> QED BY <1>1, TimerInvariant, PTL
============================================================================
