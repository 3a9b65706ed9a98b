---------------------------- MODULE KernelProofs ----------------------------
(***************************************************************************)
(* Proofs about Kernel, for any lines without handlers, scancodes, length  *)
(* of the memory layout, start of VGA_BUFFER, number of events and room for*)
(* nesting and for panics.                                                 *)
(***************************************************************************)
EXTENDS Kernel, DescriptorsProofs, TLAPS

----------------------------------------------------------------------------
(* The interrupt table.                                                    *)

LEMMA Places ==
  /\ Place("breakpoint") = 3 /\ Place("double_fault") = 8
  /\ Place("segment_not_present") = 11 /\ Place("page_fault") = 14
  /\ Place("timer") = 32 /\ Place("keyboard") = 33
<1>1. DOMAIN Fields = 1 .. 25
  BY DEF Fields
<1>2. \A k \in 1 .. 25 :
        /\ Fields[k][1] = "breakpoint" <=> k = 4
        /\ Fields[k][1] = "double_fault" <=> k = 9
        /\ Fields[k][1] = "segment_not_present" <=> k = 12
        /\ Fields[k][1] = "page_fault" <=> k = 15
        /\ Fields[k][1] = "interrupts" <=> k = 25
  BY DEF Fields
<1>3. /\ (CHOOSE k \in DOMAIN Fields : Fields[k][1] = "breakpoint") = 4
      /\ (CHOOSE k \in DOMAIN Fields : Fields[k][1] = "double_fault") = 9
      /\ (CHOOSE k \in DOMAIN Fields : Fields[k][1] = "segment_not_present") = 12
      /\ (CHOOSE k \in DOMAIN Fields : Fields[k][1] = "page_fault") = 15
      /\ (CHOOSE k \in DOMAIN Fields : Fields[k][1] = "interrupts") = 25
  BY <1>1, <1>2
<1>4. /\ Vector("breakpoint", 0) = 3 /\ Vector("double_fault", 0) = 8
      /\ Vector("segment_not_present", 0) = 11 /\ Vector("page_fault", 0) = 14
      /\ Vector("interrupts", 0) = 32 /\ Vector("interrupts", 1) = 33
  <2>1. /\ Before[4] = 3 /\ Before[9] = 8 /\ Before[12] = 11 /\ Before[15] = 14
        /\ Before[25] = 32
    BY BeforeIs
  <2>2. /\ Vector("breakpoint", 0) = Before[4] + 0 /\ Vector("double_fault", 0) = Before[9] + 0
        /\ Vector("segment_not_present", 0) = Before[12] + 0
        /\ Vector("page_fault", 0) = Before[15] + 0
        /\ Vector("interrupts", 0) = Before[25] + 0 /\ Vector("interrupts", 1) = Before[25] + 1
    BY <1>3, Zenon DEF Vector
  <2> QED BY <2>1, <2>2
<1>5. index(32) = <<"interrupts", 0>> /\ index(33) = <<"interrupts", 1>>
  BY DEF index
<1> QED BY <1>4, <1>5 DEF Place, Entries

\* The options that set_handle_addr writes: present, and an interrupt gate.
LEMMA GateOptions ==
  /\ 15 \in set_handle_addr({}, {}).options /\ 8 \notin set_handle_addr({}, {}).options
  /\ 15 \notin entry_default.options
<1>1. ASSUME NEW b \in BOOLEAN
      PROVE  /\ 8 \notin option_new(FALSE, Ring0, b)
             /\ 15 \in option_new(FALSE, Ring0, b) <=> b
  <2> DEFINE w == set_trap({9, 10, 11}, FALSE)
             v == set_privilege_level(w, Ring0)
  <2>1. w \in Word(16) /\ 8 \notin w /\ 15 \notin w
    BY DEF set_trap, set_bit, Word
  <2> HIDE DEF w
  <2>2. /\ v \in Word(16)
        /\ \A i \in 0 .. 15 : i \in v <=> (i \in w /\ ~(13 <= i /\ i < 15)) \/ i - 13 \in Ring0
    <3>1. Closed(13, 14) = Closed(13, 15 - 1)
      OBVIOUS
    <3> QED BY <2>1, <3>1, SetBitsAt DEF set_privilege_level
  <2>3. 8 \notin v /\ 15 \notin v
    BY <2>1, <2>2 DEF Ring0
  <2> HIDE DEF v
  <2>4. option_new(FALSE, Ring0, b) = set_present(v, b)
    BY DEF option_new, v, w
  <2>5. CASE b = TRUE
    <3>1. option_new(FALSE, Ring0, b) = v \cup {15}
      BY <2>4, <2>5, Zenon DEF set_present, set_bit
    <3>2. 8 \notin v \cup {15} /\ 15 \in v \cup {15}
      BY <2>3
    <3> QED BY <2>5, <3>1, <3>2, Zenon
  <2>6. CASE b = FALSE
    <3>1. option_new(FALSE, Ring0, b) = v \ {15}
      BY <2>4, <2>6, Zenon DEF set_present, set_bit
    <3> QED BY <2>3, <2>6, <3>1
  <2> QED BY <2>5, <2>6
<1> QED BY <1>1 DEF set_handle_addr, entry_default

----------------------------------------------------------------------------
(* Delivery.                                                               *)

\* INTR_TABLE after main's calls of set_handle_fn.
Table == [v \in {Place(h) : h \in DOMAIN Entries} |->
            [handler |-> CHOOSE h \in DOMAIN Entries : Place(h) = v,
             options |-> set_handle_addr({}, {}).options]]

LEMMA TableIs ==
  /\ DOMAIN Table = {3, 8, 11, 14, 32, 33}
  /\ Table[11].handler = "segment_not_present"
  /\ Table[32].handler = "timer" /\ Table[33].handler = "keyboard"
  /\ \A v \in {3, 8, 11, 14, 32, 33} : Table[v].options = set_handle_addr({}, {}).options
<1>1. DOMAIN Entries = {"breakpoint", "page_fault", "double_fault", "segment_not_present",
                        "timer", "keyboard"}
  BY DEF Entries
<1>2. {Place(h) : h \in DOMAIN Entries} = {3, 8, 11, 14, 32, 33}
  BY <1>1, Places
<1>3. /\ (CHOOSE h \in DOMAIN Entries : Place(h) = 11) = "segment_not_present"
      /\ (CHOOSE h \in DOMAIN Entries : Place(h) = 32) = "timer"
      /\ (CHOOSE h \in DOMAIN Entries : Place(h) = 33) = "keyboard"
  BY <1>1, Places
<1> QED BY <1>2, <1>3 DEF Table

\* What the CPU does at a vector once main has executed lidt.
LEMMA Delivery ==
  ASSUME idtr = TRUE, idt = Table, NEW v \in {32, 33, 40} \cup (35 .. 39), Vectored(v)
  PROVE  /\ stack' = Append(stack, [h |-> CASE v = 32 -> "timer" [] v = 33 -> "keyboard"
                                            [] OTHER -> "segment_not_present",
                                    at |-> "start"])
         /\ eflags_if' = FALSE /\ cpu' = cpu
<1> DEFINE usable == {x \in {v, 11, 8} : GatePresent(x)}
           taken == IF v \in usable THEN v ELSE Max(usable)
<1>1. \A x \in {v, 11, 8} : GatePresent(x) <=> x \in {8, 11, 32, 33}
  BY TableIs, GateOptions DEF GatePresent, Options
<1>2. usable = {v, 11, 8} \cap {8, 11, 32, 33}
  BY <1>1
<1>3. v \notin {32, 33} => Max(usable) = 11
  <2>1. SUFFICES ASSUME v \notin {32, 33} PROVE Max(usable) = 11
    OBVIOUS
  <2>2. usable = {8, 11}
    BY <1>2, <2>1
  <2> HIDE DEF usable
  <2> QED BY <2>2 DEF Max
<1>4. /\ usable # {}
      /\ taken = IF v \in {32, 33} THEN v ELSE 11
  <2>0. v \notin {8, 11}
    OBVIOUS
  <2>1. 11 \in usable /\ (v \in usable <=> v \in {32, 33})
    BY <1>2, <2>0, Zenon
  <2> HIDE DEF usable
  <2> QED BY <1>3, <2>1
<1>5. /\ stack' = Append(stack, [h |-> idt[taken].handler, at |-> "start"])
      /\ eflags_if' = GateIsTrap(taken) /\ cpu' = cpu
  BY <1>4 DEF Vectored
<1> HIDE DEF usable, taken
<1>6. GateIsTrap(taken) = FALSE
  BY <1>4, TableIs, GateOptions DEF GateIsTrap, Options
<1>7. idt[taken].handler = CASE v = 32 -> "timer" [] v = 33 -> "keyboard"
                             [] OTHER -> "segment_not_present"
  BY <1>4, TableIs
<1> QED BY <1>5, <1>6, <1>7

LEMMA MinIs ==
  ASSUME NEW S, NEW m \in S, S \subseteq Int, \A x \in S : m <= x
  PROVE  Min(S) = m
<1>1. ASSUME NEW x \in S, \A y \in S : x <= y PROVE x = m
  BY <1>1
<1> QED BY <1>1 DEF Min

LEMMA MinOfLines ==
  ASSUME NEW S \in SUBSET (0 .. 6), S # {}
  PROVE  Min(S) \in S /\ \A x \in S : Min(S) <= x
<1>1. \E m \in S : \A x \in S : m <= x
  <2>1. CASE 0 \in S
    BY <2>1
  <2>2. CASE 0 \notin S /\ 1 \in S
    BY <2>2
  <2>3. CASE S \cap {0, 1} = {} /\ 2 \in S
    BY <2>3
  <2>4. CASE S \cap {0, 1, 2} = {} /\ 3 \in S
    BY <2>4
  <2>5. CASE S \cap {0, 1, 2, 3} = {} /\ 4 \in S
    BY <2>5
  <2>6. CASE S \cap {0, 1, 2, 3, 4} = {} /\ 5 \in S
    BY <2>6
  <2>7. CASE S \cap {0, 1, 2, 3, 4, 5} = {}
    <3>1. \A x \in S : x = 6
      BY <2>7
    <3>2. \A x, y \in S : x <= y
      BY <3>1
    <3> QED BY <3>2
  <2> QED BY <2>1, <2>2, <2>3, <2>4, <2>5, <2>6, <2>7
<1> QED BY <1>1 DEF Min
----------------------------------------------------------------------------
(* The invariant.                                                          *)

Frame(h, at) == [h |-> h, at |-> at]

\* How far main has brought the machine up: where interrupts are enabled, the
\* controller is mapped to 32 on, and the table is filled and loaded.
Up == {"run", "idle", "panic", "dead"}
Booting ==
  /\ stage \in {"serial", "hello", "pic", "idt", "lidt", "sti"} \cup Up
  /\ stage \in {"idt", "lidt", "sti"} => base = 32
  /\ stage \in {"lidt", "sti"} => idt = Table
  /\ stage = "sti" => idtr = TRUE
  /\ \/ eflags_if = FALSE /\ stack = <<>>
     \/ stage \in Up /\ base = 32 /\ idt = Table /\ idtr = TRUE

\* main prints only in three stages, so its steps follow each other.
Printing ==
  /\ lines \in Nat /\ (lines > 0 => stage \in {"serial", "hello", "run", "panic"})
  /\ stage = "serial" => lines = 3
  /\ vga_pc = [c \in Contexts |-> vga_pc[c]]
  /\ vga_pc[0] # "idle" => lines > 0 /\ stage # "serial"

LinesOK == irr \subseteq 0 .. 6 /\ isr \subseteq 0 .. 6

\* The handler that runs, how far it is, and whether its line is in service.
InTimer ==
  \E at \in {"start", "eoi", "iret"} :
    stack = <<Frame("timer", at)>> /\ 1 \notin isr /\ (0 \in isr <=> at # "iret")
KeyboardAts ==
  {"start", "print", "printing", "edit", "editing", "panic", "panicking", "eoi", "iret"}
InKeyboard ==
  \E at \in KeyboardAts :
    stack = <<Frame("keyboard", at)>> /\ 0 \notin isr /\ (1 \in isr <=> at # "iret")
MissingAts == {"start", "print", "printing", "panic", "panicking", "iret"}
InMissing ==
  \E at \in MissingAts :
    stack = <<Frame("segment_not_present", at)>> /\ 0 \notin isr /\ 1 \notin isr
Serving ==
  \/ stack = <<>> /\ 0 \notin isr /\ 1 \notin isr
  \/ eflags_if = FALSE /\ (InTimer \/ InKeyboard \/ InMissing)

IInv == Booting /\ Printing /\ LinesOK /\ Serving

----------------------------------------------------------------------------
(* Steps on the stack and on VGA_BUFFER.                                   *)

LEMMA TopOfStack ==
  ASSUME NEW h, NEW at, stack = <<Frame(h, at)>>
  PROVE  /\ stack # <<>> /\ Depth = 1 /\ Len(stack) = 1
         /\ stack[Depth].h = h /\ stack[Depth].at = at
         /\ stack[Depth] = Frame(h, at)
         /\ DOMAIN stack = {1} /\ stack[1] = Frame(h, at)
BY DEF Frame, Depth

LEMMA EmptyStack ==
  ASSUME stack = <<>> PROVE Len(stack) = 0 /\ DOMAIN stack = {}
OBVIOUS

LEMMA FrameEq ==
  ASSUME NEW h, NEW at, NEW k, NEW b
  PROVE  Frame(h, at) = Frame(k, b) <=> h = k /\ at = b
BY DEF Frame

LEMMA AtTop ==
  ASSUME NEW h, NEW at, NEW k, NEW b, stack = <<Frame(h, at)>>, At(k, b)
  PROVE  h = k /\ at = b
<1>1. Frame(h, at) = Frame(k, b)
  BY TopOfStack DEF At, Frame
<1> QED BY <1>1, FrameEq

LEMMA GoOnTop ==
  ASSUME NEW h, NEW at, NEW b, stack = <<Frame(h, at)>>, GoOn(b)
  PROVE  stack' = <<Frame(h, b)>>
BY TopOfStack DEF GoOn, Frame

LEMMA ContextsNonEmpty == 0 \in Contexts /\ 1 \in Contexts
BY LinesAssumption DEF Contexts

LEMMA VgaCall ==
  ASSUME Printing, NEW c \in Contexts, VGA_BUFFER!Call(c)
  PROVE  /\ vga_pc' = [x \in Contexts |-> vga_pc'[x]]
         /\ \A x \in Contexts : x # c => vga_pc'[x] = vga_pc[x]
BY DEF Printing, VGA_BUFFER!Call, VGA_BUFFER!Goto

LEMMA VgaStep ==
  ASSUME Printing, NEW c \in Contexts, VGA_BUFFER!Step(c)
  PROVE  /\ vga_pc' = [x \in Contexts |-> vga_pc'[x]]
         /\ \A x \in Contexts : x # c => vga_pc'[x] = vga_pc[x]
         /\ vga_pc[c] # "idle"
<1>1. PICK from, to : from # "idle" /\ VGA_BUFFER!Goto(c, from, to)
  BY DEF VGA_BUFFER!Step, VGA_BUFFER!CompareExchange, VGA_BUFFER!SpinEnds,
         VGA_BUFFER!WriteDefault, VGA_BUFFER!StoreInited, VGA_BUFFER!AssertInited,
         VGA_BUFFER!Use
<1> QED BY <1>1 DEF Printing, VGA_BUFFER!Goto
----------------------------------------------------------------------------
(* main.                                                                   *)

LEMMA QuietInMain ==
  ASSUME Serving, stack = <<>> PROVE 0 \notin isr /\ 1 \notin isr
<1>1. ~InTimer /\ ~InKeyboard /\ ~InMissing
  BY TopOfStack DEF InTimer, InKeyboard, InMissing
<1> QED BY <1>1 DEF Serving

LEMMA MainCallsPrintIInv == IInv /\ MainCallsPrint => IInv'
<1> SUFFICES ASSUME IInv, MainCallsPrint PROVE IInv'
  OBVIOUS
<1>1. /\ stack = <<>> /\ lines > 0 /\ VGA_BUFFER!Call(0)
      /\ UNCHANGED <<stage, lines, idtr, idt, eflags_if, irr, isr, imr, base, stack>>
  BY DEF MainCallsPrint, InMain, mainVars, picVars
<1>2. Booting'
  BY <1>1 DEF IInv, Booting, Up
<1>3. Printing'
  BY <1>1, VgaCall, ContextsNonEmpty DEF IInv, Printing
<1>4. Serving'
  BY <1>1, QuietInMain DEF IInv, Serving
<1> QED BY <1>1, <1>2, <1>3, <1>4 DEF IInv, LinesOK

LEMMA MainGreetsSerialIInv == IInv /\ MainGreetsSerial => IInv'
<1> SUFFICES ASSUME IInv, MainGreetsSerial PROVE IInv'
  OBVIOUS
<1>1. /\ stack = <<>> /\ stage = "serial" /\ stage' = "hello"
      /\ UNCHANGED <<lines, idtr, idt, eflags_if, irr, isr, base, stack, vga_pc>>
  BY DEF MainGreetsSerial, InMain, picVars, vgaVars
<1>2. Booting'
  BY <1>1 DEF IInv, Booting, Up
<1>3. Printing'
  BY <1>1 DEF IInv, Printing
<1>4. Serving'
  BY <1>1, QuietInMain DEF IInv, Serving
<1> QED BY <1>1, <1>2, <1>3, <1>4 DEF IInv, LinesOK

\* A panic of main that is not in the middle of a print.
LEMMA MainPanicsKeeps ==
  ASSUME IInv, stack = <<>>, NEW why, MainPanics(why), stage \in {"hello", "run", "panic"},
         vga_pc' = [x \in Contexts |-> vga_pc'[x]], vga_pc'[0] = "idle",
         UNCHANGED <<idtr, idt, eflags_if, base, stack>>
  PROVE  Booting' /\ Printing'
<1>1. (stage' = "panic" /\ lines' = 1) \/ UNCHANGED <<stage, lines>>
  BY DEF MainPanics
<1>2. Booting'
  BY <1>1 DEF IInv, Booting, Up
<1>3. Printing'
  BY <1>1 DEF IInv, Printing
<1> QED BY <1>2, <1>3

LEMMA MainFailsIInv == IInv /\ MainFails => IInv'
<1> SUFFICES ASSUME IInv, MainFails PROVE IInv'
  OBVIOUS
<1>1. /\ stack = <<>> /\ vga_pc[0] = "idle" /\ stage \in {"hello", "run"}
      /\ \E why : MainPanics(why)
      /\ UNCHANGED <<idtr, idt, eflags_if, irr, isr, base, stack, vga_pc>>
  BY DEF MainFails, InMain, picVars, vgaVars
<1>2. vga_pc' = [x \in Contexts |-> vga_pc'[x]] /\ vga_pc'[0] = "idle"
  BY <1>1 DEF IInv, Printing
<1>3. Booting' /\ Printing'
  BY <1>1, <1>2, MainPanicsKeeps
<1>4. Serving'
  BY <1>1, QuietInMain DEF IInv, Serving
<1> QED BY <1>1, <1>3, <1>4 DEF IInv, LinesOK

LEMMA ColumnLostIInv == IInv /\ ColumnLost => IInv'
<1> SUFFICES ASSUME IInv, ColumnLost PROVE IInv'
  OBVIOUS
<1>1. /\ stack = <<>>
      /\ UNCHANGED <<stage, lines, idtr, idt, eflags_if, irr, isr, base, stack, vga_pc>>
  BY DEF ColumnLost, InMain, mainVars, picVars, vgaVars
<1>2. Booting'
  BY <1>1 DEF IInv, Booting, Up
<1>3. Printing'
  BY <1>1 DEF IInv, Printing
<1>4. Serving'
  BY <1>1, QuietInMain DEF IInv, Serving
<1> QED BY <1>1, <1>2, <1>3, <1>4 DEF IInv, LinesOK

\* What a print of main does to its stage.
LEMMA MainLine ==
  ASSUME IInv, MainPrints
  PROVE  /\ lines > 0 /\ lines \in Nat /\ stage \in {"hello", "run", "panic"}
         /\ vga_pc' = [x \in Contexts |-> vga_pc'[x]]
         /\ \/ vga_pc'[0] # "idle" /\ UNCHANGED <<stage, lines, culprits, room, cpu>>
            \/ /\ vga_pc'[0] = "idle" /\ UNCHANGED <<culprits, room, cpu>>
               /\ lines' = lines - 1 /\ (lines' > 0 => stage' = stage)
               /\ stage = "hello" => stage' \in {"hello", "pic"}
               /\ stage = "run" => stage' \in {"run", "idle"}
               /\ stage = "panic" => stage' \in {"panic", "dead"}
            \/ vga_pc'[0] = "idle" /\ MainPanics(<<"index", 0>>)
<1>1. vga_pc[0] # "idle" /\ vga_pc' = [x \in Contexts |-> vga_pc'[x]]
  BY VgaStep, ContextsNonEmpty DEF IInv, MainPrints
<1>2. lines > 0 /\ lines \in Nat /\ stage \in {"hello", "run", "panic"}
  BY <1>1 DEF IInv, Printing
<1>3. \/ vga_pc'[0] # "idle" /\ UNCHANGED <<stage, lines, culprits, room, cpu>>
      \/ /\ vga_pc'[0] = "idle" /\ lines' = lines - 1 /\ UNCHANGED <<culprits, room, cpu>>
         /\ stage' = CASE lines' > 0 -> stage
                       [] lines' = 0 /\ stage = "hello" -> "pic"
                       [] lines' = 0 /\ stage = "run" -> "idle"
                       [] lines' = 0 /\ stage = "panic" -> "dead"
      \/ vga_pc'[0] = "idle" /\ MainPanics(<<"index", 0>>)
  BY DEF MainPrints, panicVars
<1> QED BY <1>1, <1>2, <1>3

LEMMA MainPrintsIInv == IInv /\ MainPrints => IInv'
<1> SUFFICES ASSUME IInv, MainPrints PROVE IInv'
  OBVIOUS
<1>1. stack = <<>> /\ UNCHANGED <<idtr, idt, eflags_if, irr, isr, base, stack>>
  BY DEF MainPrints, InMain, picVars
<1>2. CASE vga_pc'[0] = "idle" /\ MainPanics(<<"index", 0>>)
  <2>1. Booting' /\ Printing'
    BY <1>1, <1>2, MainLine, MainPanicsKeeps
  <2>2. Serving'
    BY <1>1, QuietInMain DEF IInv, Serving
  <2> QED BY <1>1, <2>1, <2>2 DEF IInv, LinesOK
<1>3. CASE ~(vga_pc'[0] = "idle" /\ MainPanics(<<"index", 0>>))
  <2>1. /\ lines' \in Nat /\ (lines' > 0 => stage' = stage) /\ (vga_pc'[0] # "idle" => lines' > 0)
        /\ stage = "hello" => stage' \in {"hello", "pic"}
        /\ stage = "run" => stage' \in {"run", "idle"}
        /\ stage = "panic" => stage' \in {"panic", "dead"}
        /\ stage \in {"hello", "run", "panic"}
        /\ vga_pc' = [x \in Contexts |-> vga_pc'[x]]
    BY <1>3, MainLine
  <2>2. Booting'
    BY <1>1, <2>1 DEF IInv, Booting, Up
  <2>3. Printing'
    BY <2>1 DEF Printing
  <2>4. Serving'
    BY <1>1, QuietInMain DEF IInv, Serving
  <2> QED BY <1>1, <2>2, <2>3, <2>4 DEF IInv, LinesOK
<1> QED BY <1>2, <1>3

LEMMA InitPicIInv == IInv /\ InitPic => IInv'
<1> SUFFICES ASSUME IInv, InitPic PROVE IInv'
  OBVIOUS
<1>1. /\ stack = <<>> /\ cpu = "running" /\ stage = "pic" /\ stage' = "idt"
      /\ irr' = {} /\ isr' = {} /\ base' = 32
      /\ UNCHANGED <<lines, idtr, idt, eflags_if, stack, vga_pc>>
  BY DEF InitPic, InMain, pic_init, vgaVars
<1>2. Booting'
  BY <1>1 DEF IInv, Booting, Up
<1>3. Printing'
  BY <1>1 DEF IInv, Printing
<1> QED BY <1>1, <1>2, <1>3 DEF IInv, LinesOK, Serving

LEMMA SetHandlersIInv == IInv /\ SetHandlers => IInv'
<1> SUFFICES ASSUME IInv, SetHandlers PROVE IInv'
  OBVIOUS
<1>1. /\ stack = <<>> /\ cpu = "running" /\ stage = "idt" /\ stage' = "lidt"
      /\ idt' = Table
      /\ UNCHANGED <<lines, idtr, eflags_if, irr, isr, base, stack, vga_pc>>
  BY DEF SetHandlers, InMain, Table, vgaVars, picVars
<1>2. Booting'
  BY <1>1 DEF IInv, Booting, Up
<1>3. Printing'
  BY <1>1 DEF IInv, Printing
<1>4. Serving'
  BY <1>1, QuietInMain DEF IInv, Serving
<1> QED BY <1>1, <1>2, <1>3, <1>4 DEF IInv, LinesOK

LEMMA UpdateIInv == IInv /\ Update => IInv'
<1> SUFFICES ASSUME IInv, Update PROVE IInv'
  OBVIOUS
<1>1. /\ stack = <<>> /\ cpu = "running" /\ stage = "lidt" /\ stage' = "sti" /\ idtr' = TRUE
      /\ UNCHANGED <<lines, idt, eflags_if, irr, isr, base, stack, vga_pc>>
  BY DEF Update, InMain, vgaVars, picVars
<1>2. Booting'
  BY <1>1 DEF IInv, Booting, Up
<1>3. Printing'
  BY <1>1 DEF IInv, Printing
<1>4. Serving'
  BY <1>1, QuietInMain DEF IInv, Serving
<1> QED BY <1>1, <1>2, <1>3, <1>4 DEF IInv, LinesOK

LEMMA StiIInv == IInv /\ Sti => IInv'
<1> SUFFICES ASSUME IInv, Sti PROVE IInv'
  OBVIOUS
<1>1. /\ stack = <<>> /\ cpu = "running" /\ stage = "sti" /\ stage' = "run"
      /\ lines' = Regions + 2
      /\ UNCHANGED <<idtr, idt, irr, isr, base, stack, vga_pc>>
  BY DEF Sti, InMain, vgaVars, picVars
<1>2. Booting'
  BY <1>1 DEF IInv, Booting, Up
<1>3. Printing'
  BY <1>1, LinesAssumption DEF IInv, Printing
<1>4. Serving'
  BY <1>1, QuietInMain DEF IInv, Serving
<1> QED BY <1>1, <1>2, <1>3, <1>4 DEF IInv, LinesOK

----------------------------------------------------------------------------
(* Devices and delivery.                                                   *)

LEMMA RaiseIInv ==
  ASSUME IInv, (\E l \in OtherLines \cup {TIMER} : Raise(l)) \/ KeyArrives
  PROVE  IInv'
<1>1. /\ \E l \in 0 .. 6 : irr' = irr \cup {l}
      /\ UNCHANGED <<stage, lines, idtr, idt, eflags_if, isr, base, stack, vga_pc>>
  BY LinesAssumption DEF Raise, KeyArrives, TIMER, KEYBOARD, mainVars, vgaVars
<1>2. Booting'
  BY <1>1 DEF IInv, Booting, Up
<1>3. Printing'
  BY <1>1 DEF IInv, Printing
<1>4. Serving'
  BY <1>1 DEF IInv, Serving, InTimer, InKeyboard, InMissing
<1>5. LinesOK'
  BY <1>1 DEF IInv, LinesOK
<1> QED BY <1>1, <1>2, <1>3, <1>4, <1>5 DEF IInv

\* Interrupts are enabled only in main, after sti.
LEMMA WhenEnabled ==
  ASSUME IInv, eflags_if
  PROVE  /\ stack = <<>> /\ base = 32 /\ idt = Table /\ idtr = TRUE
         /\ stage \in Up /\ 0 \notin isr /\ 1 \notin isr
<1>1. stage \in Up /\ base = 32 /\ idt = Table /\ idtr = TRUE
  BY DEF IInv, Booting
<1>2. stack = <<>> /\ 0 \notin isr /\ 1 \notin isr
  BY DEF IInv, Serving
<1> QED BY <1>1, <1>2

LEMMA InterruptIInv == IInv /\ Interrupt => IInv'
<1> SUFFICES ASSUME IInv, Interrupt PROVE IInv'
  OBVIOUS
<1> DEFINE l == Min(Deliverable)
<1>1. /\ cpu = "running" /\ eflags_if /\ Deliverable # {}
      /\ irr' = irr \ {l} /\ isr' = isr \cup {l} /\ Vectored(VectorOf(l))
      /\ UNCHANGED <<stage, lines, idtr, idt, base, vga_pc>>
  BY DEF Interrupt, mainVars, vgaVars
<1>2. /\ stack = <<>> /\ base = 32 /\ idt = Table /\ idtr = TRUE
      /\ stage \in Up /\ 0 \notin isr /\ 1 \notin isr
  BY <1>1, WhenEnabled
<1>3. l \in 0 .. 6
  <2>1. Deliverable \in SUBSET (0 .. 6)
    BY DEF Deliverable, IInv, LinesOK
  <2> QED BY <1>1, <2>1, MinOfLines
<1> HIDE DEF l
<1> DEFINE v == VectorOf(l)
<1>4. /\ v \in {32, 33, 40} \cup (35 .. 39)
      /\ (v = 32 <=> l = 0) /\ (v = 33 <=> l = 1)
  BY <1>2, <1>3 DEF VectorOf
<1> HIDE DEF v
<1>5. /\ stack' = Append(<<>>, [h |-> CASE v = 32 -> "timer" [] v = 33 -> "keyboard"
                                        [] OTHER -> "segment_not_present",
                                at |-> "start"])
      /\ eflags_if' = FALSE /\ cpu' = cpu
  BY <1>1, <1>2, <1>4, Delivery DEF v
<1>6. Booting'
  BY <1>1, <1>2 DEF Booting, Up
<1>7. Printing'
  BY <1>1 DEF IInv, Printing
<1>8. LinesOK'
  BY <1>1, <1>3 DEF IInv, LinesOK
<1>9. Serving'
  <2>1. CASE l = 0
    <3>1. stack' = <<Frame("timer", "start")>>
      BY <1>4, <1>5, <2>1 DEF Frame
    <3>2. InTimer'
      BY <1>1, <1>2, <2>1, <3>1 DEF InTimer
    <3> QED BY <1>5, <3>2 DEF Serving
  <2>2. CASE l = 1
    <3>1. stack' = <<Frame("keyboard", "start")>>
      BY <1>4, <1>5, <2>2 DEF Frame
    <3>2. InKeyboard'
      BY <1>1, <1>2, <2>2, <3>1 DEF InKeyboard, KeyboardAts
    <3> QED BY <1>5, <3>2 DEF Serving
  <2>3. CASE l \notin {0, 1}
    <3>1. stack' = <<Frame("segment_not_present", "start")>>
      BY <1>4, <1>5, <2>3 DEF Frame
    <3>2. InMissing'
      BY <1>1, <1>2, <2>3, <3>1 DEF InMissing, MissingAts
    <3> QED BY <1>5, <3>2 DEF Serving
  <2> QED BY <2>1, <2>2, <2>3
<1> QED BY <1>1, <1>5, <1>6, <1>7, <1>8, <1>9 DEF IInv

LEMMA SpuriousIInv == IInv /\ SpuriousInterrupt => IInv'
<1> SUFFICES ASSUME IInv, SpuriousInterrupt PROVE IInv'
  OBVIOUS
<1>1. /\ cpu = "running" /\ eflags_if /\ Vectored(base + 7)
      /\ UNCHANGED <<stage, lines, idtr, idt, irr, isr, base, vga_pc>>
  BY DEF SpuriousInterrupt, SPURIOUS, mainVars, picVars, vgaVars
<1>2. /\ stack = <<>> /\ base = 32 /\ idt = Table /\ idtr = TRUE
      /\ stage \in Up /\ 0 \notin isr /\ 1 \notin isr
  BY <1>1, WhenEnabled
<1>3. base + 7 = 39 /\ 39 \in {32, 33, 40} \cup (35 .. 39)
  BY <1>2
<1>4. stack' = <<Frame("segment_not_present", "start")>> /\ eflags_if' = FALSE /\ cpu' = cpu
  BY <1>1, <1>2, <1>3, Delivery DEF Frame
<1>5. InMissing'
  BY <1>1, <1>2, <1>4 DEF InMissing, MissingAts
<1>6. Booting'
  BY <1>1, <1>2 DEF Booting, Up
<1>7. Printing'
  BY <1>1 DEF IInv, Printing
<1> QED BY <1>1, <1>4, <1>5, <1>6, <1>7 DEF IInv, LinesOK, Serving
----------------------------------------------------------------------------
(* The handlers.                                                           *)

\* A handler runs: the machine is up, interrupts are off, and it is one of
\* three.
LEMMA WhenHandling ==
  ASSUME IInv, stack # <<>>
  PROVE  /\ eflags_if = FALSE /\ stage \in Up
         /\ InTimer \/ InKeyboard \/ InMissing
BY DEF IInv, Booting, Serving

\* What a step of a handler leaves alone keeps these parts.
LEMMA HandlerKeeps ==
  ASSUME IInv, stack # <<>>,
         UNCHANGED <<stage, lines, idtr, idt, eflags_if, irr, base>>,
         isr' \subseteq isr,
         vga_pc' = [x \in Contexts |-> vga_pc'[x]], vga_pc'[0] = vga_pc[0]
  PROVE  Booting' /\ Printing' /\ LinesOK' /\ eflags_if' = FALSE
<1>1. eflags_if = FALSE /\ stage \in Up
  BY WhenHandling
<1>2. Booting'
  BY <1>1 DEF IInv, Booting, Up
<1>3. Printing'
  BY DEF IInv, Printing
<1>4. LinesOK'
  BY DEF IInv, LinesOK
<1> QED BY <1>1, <1>2, <1>3, <1>4

LEMMA VgaKept ==
  ASSUME IInv, UNCHANGED vga_pc
  PROVE  vga_pc' = [x \in Contexts |-> vga_pc'[x]] /\ vga_pc'[0] = vga_pc[0]
BY DEF IInv, Printing

LEMMA TimerTicksIInv == IInv /\ TimerTicks => IInv'
<1> SUFFICES ASSUME IInv, TimerTicks PROVE IInv'
  OBVIOUS
<1>1. /\ At("timer", "start") /\ GoOn("eoi") /\ cpu = "running" /\ stack # <<>>
      /\ UNCHANGED <<stage, lines, idtr, idt, eflags_if, irr, isr, base, vga_pc>>
  BY DEF TimerTicks, At, mainVars, picVars, vgaVars
<1>2. Booting' /\ Printing' /\ LinesOK' /\ eflags_if' = FALSE
  BY <1>1, VgaKept, HandlerKeeps
<1>3. stack = <<Frame("timer", "start")>> /\ 0 \in isr /\ 1 \notin isr
  BY <1>1, WhenHandling, AtTop DEF InTimer, InKeyboard, InMissing
<1>4. stack' = <<Frame("timer", "eoi")>>
  BY <1>1, <1>3, GoOnTop
<1>5. InTimer'
  BY <1>1, <1>3, <1>4 DEF InTimer
<1> QED BY <1>1, <1>2, <1>5 DEF IInv, Serving

\* No scancode but 0x00 panics: the checks of the arrays never fail.
LEMMA OnlyZeroPanics ==
  ASSUME NEW code \in Scancodes, scancode_to_char(code) = "panic" PROVE code = 0
<1>1. code \in 0 .. 255
  BY LinesAssumption
<1> QED BY <1>1 DEF scancode_to_char, Indexed

LEMMA Outcomes ==
  ASSUME NEW code \in Scancodes
  PROVE  scancode_to_char(code) \in {"panic", "glyph", "edit", "none"}
<1>1. code \in 0 .. 255
  BY LinesAssumption
<1> QED BY <1>1 DEF scancode_to_char, Indexed

\* What the keyboard handler does with the byte: it goes on, or panics because
\* of scancode 0x00.
LEMMA KeyOutcome ==
  ASSUME KeyboardReads
  PROVE  \/ HandlerPanics(<<"scancode", 0>>)
         \/ /\ \E at \in {"print", "edit", "eoi"} : GoOn(at)
            /\ UNCHANGED <<culprits, room, cpu>>
<1>1. PICK code \in Scancodes :
        LET ch == scancode_to_char(code)
        IN  IF ch = "panic"
              THEN HandlerPanics(<<"scancode", code>>)
              ELSE /\ GoOn(CASE ch = "glyph" -> "print" [] ch = "edit" -> "edit" [] ch = "none" -> "eoi")
                   /\ UNCHANGED <<panicVars, cpu>>
  BY DEF KeyboardReads
<1>2. CASE scancode_to_char(code) = "panic"
  BY <1>1, <1>2, OnlyZeroPanics
<1>3. CASE scancode_to_char(code) = "glyph"
  BY <1>1, <1>3 DEF panicVars
<1>4. CASE scancode_to_char(code) = "edit"
  BY <1>1, <1>4 DEF panicVars
<1>5. CASE scancode_to_char(code) = "none"
  BY <1>1, <1>5 DEF panicVars
<1> QED BY <1>2, <1>3, <1>4, <1>5, Outcomes

LEMMA KeyboardReadsIInv == IInv /\ KeyboardReads => IInv'
<1> SUFFICES ASSUME IInv, KeyboardReads PROVE IInv'
  OBVIOUS
<1>1. /\ At("keyboard", "start") /\ stack # <<>>
      /\ UNCHANGED <<stage, lines, idtr, idt, eflags_if, irr, isr, base, vga_pc>>
  BY DEF KeyboardReads, At, mainVars, picVars, vgaVars
<1>2. stack' = stack \/ \E at \in {"print", "edit", "eoi", "panic"} : GoOn(at)
  BY KeyOutcome DEF HandlerPanics
<1>3. Booting' /\ Printing' /\ LinesOK' /\ eflags_if' = FALSE
  BY <1>1, VgaKept, HandlerKeeps
<1>4. stack = <<Frame("keyboard", "start")>> /\ 1 \in isr /\ 0 \notin isr
  BY <1>1, WhenHandling, AtTop DEF InTimer, InKeyboard, InMissing
<1>5. PICK at \in {"start", "print", "edit", "eoi", "panic"} : stack' = <<Frame("keyboard", at)>>
  BY <1>2, <1>4, GoOnTop
<1>6. InKeyboard'
  BY <1>1, <1>4, <1>5 DEF InKeyboard, KeyboardAts
<1> QED BY <1>3, <1>6 DEF IInv, Serving

LEMMA ExceptionIInv == IInv /\ ExceptionEntered => IInv'
<1> SUFFICES ASSUME IInv, ExceptionEntered PROVE IInv'
  OBVIOUS
<1>1. PICK h \in {"breakpoint", "double_fault", "segment_not_present", "page_fault"} :
        At(h, "start")
  BY DEF ExceptionEntered
<1>2. /\ GoOn("print") /\ cpu = "running" /\ stack # <<>>
      /\ UNCHANGED <<stage, lines, idtr, idt, eflags_if, irr, isr, base, vga_pc>>
  BY DEF ExceptionEntered, At, mainVars, picVars, vgaVars
<1>3. Booting' /\ Printing' /\ LinesOK' /\ eflags_if' = FALSE
  BY <1>2, VgaKept, HandlerKeeps
<1>4. stack = <<Frame("segment_not_present", "start")>> /\ 0 \notin isr /\ 1 \notin isr
  BY <1>1, <1>2, WhenHandling, AtTop DEF InTimer, InKeyboard, InMissing
<1>5. stack' = <<Frame("segment_not_present", "print")>>
  BY <1>2, <1>4, GoOnTop
<1>6. InMissing'
  BY <1>2, <1>4, <1>5 DEF InMissing, MissingAts
<1> QED BY <1>2, <1>3, <1>6 DEF IInv, Serving

\* A step of a handler that prints: nothing but its place changes.
LEMMA PrintingKeeps ==
  ASSUME IInv, stack # <<>>, VGA_BUFFER!Call(Depth) \/ VGA_BUFFER!Step(Depth),
         UNCHANGED <<stage, lines, idtr, idt, eflags_if, irr, isr, base>>,
         stack[Depth].at \in {"print", "printing", "edit", "editing", "panic", "panicking"},
         \/ stack' = stack
         \/ GoOn("panic") \/ GoOn("panicking")
         \/ stack[Depth].at = "print" /\ GoOn("printing")
         \/ stack[Depth].at = "edit" /\ GoOn("editing")
         \/ stack[Depth].h = "keyboard" /\ GoOn("eoi")
         \/ stack[Depth].h # "keyboard" /\ GoOn("iret")
  PROVE  IInv'
<1>1. InTimer \/ InKeyboard \/ InMissing
  BY WhenHandling
<1>2. Depth = 1
  BY <1>1, TopOfStack DEF InTimer, InKeyboard, InMissing
<1>3. vga_pc' = [x \in Contexts |-> vga_pc'[x]] /\ vga_pc'[0] = vga_pc[0]
  BY <1>2, VgaCall, VgaStep, ContextsNonEmpty DEF IInv
<1>4. Booting' /\ Printing' /\ LinesOK' /\ eflags_if' = FALSE
  BY <1>3, HandlerKeeps
<1>5. ~InTimer
  <2>1. SUFFICES ASSUME NEW at \in {"start", "eoi", "iret"}, stack = <<Frame("timer", at)>> PROVE FALSE
    BY DEF InTimer
  <2>2. stack[Depth].at = at
    BY <2>1, TopOfStack
  <2> QED BY <2>2
<1>6. CASE InKeyboard
  <2>1. PICK at \in KeyboardAts :
          stack = <<Frame("keyboard", at)>> /\ 0 \notin isr /\ (1 \in isr <=> at # "iret")
    BY <1>6 DEF InKeyboard, KeyboardAts
  <2>2. stack[Depth].at = at /\ stack[Depth].h = "keyboard"
    BY <2>1, TopOfStack
  <2>3. PICK b \in KeyboardAts \ {"iret"} : stack' = <<Frame("keyboard", b)>>
    <3>1. \/ stack' = stack
          \/ \E b \in {"panic", "panicking", "printing", "editing", "eoi"} : GoOn(b)
      BY <2>2
    <3> QED BY <2>1, <2>2, <3>1, GoOnTop DEF KeyboardAts
  <2>4. InKeyboard'
    BY <2>1, <2>2, <2>3 DEF InKeyboard, KeyboardAts
  <2> QED BY <1>4, <2>4 DEF IInv, Serving
<1>7. CASE InMissing
  <2>1. PICK at \in MissingAts :
          stack = <<Frame("segment_not_present", at)>> /\ 0 \notin isr /\ 1 \notin isr
    BY <1>7 DEF InMissing, MissingAts
  <2>2. stack[Depth].at = at /\ stack[Depth].h = "segment_not_present"
    BY <2>1, TopOfStack
  <2>3. PICK b \in MissingAts : stack' = <<Frame("segment_not_present", b)>>
    <3>1. \/ stack' = stack
          \/ \E b \in {"panic", "panicking", "printing", "iret"} : GoOn(b)
      BY <2>1, <2>2 DEF MissingAts
    <3> QED BY <2>1, <2>2, <3>1, GoOnTop DEF MissingAts
  <2>4. InMissing'
    BY <2>1, <2>3 DEF InMissing
  <2> QED BY <1>4, <2>4 DEF IInv, Serving
<1> QED BY <1>1, <1>5, <1>6, <1>7

LEMMA HandlerCallsPrintIInv == IInv /\ HandlerCallsPrint => IInv'
<1> SUFFICES ASSUME IInv, HandlerCallsPrint PROVE IInv'
  OBVIOUS
<1>1. /\ stack # <<>> /\ VGA_BUFFER!Call(Depth)
      /\ \/ stack[Depth].at = "print" /\ GoOn("printing")
         \/ stack[Depth].at = "edit" /\ GoOn("editing")
         \/ stack[Depth].at = "panic" /\ GoOn("panicking")
      /\ UNCHANGED <<stage, lines, idtr, idt, eflags_if, irr, isr, base>>
  BY DEF HandlerCallsPrint, mainVars, picVars
<1> QED BY <1>1, PrintingKeeps

\* How a step of a handler's print ends.
LEMMA HandlerLine ==
  ASSUME HandlerPrints
  PROVE  \/ stack' = stack /\ UNCHANGED <<culprits, room, cpu>>
         \/ HandlerPanics(<<"index", 0>>)
         \/ stack[Depth].h = "double_fault" /\ HandlerPanics(<<"fault", 0>>)
         \/ stack[Depth].at = "panicking" /\ cpu' = "halted" /\ UNCHANGED <<stack, culprits, room>>
         \/ /\ stack[Depth].at \in {"printing", "editing"} /\ UNCHANGED <<culprits, room, cpu>>
            /\ \/ stack[Depth].h = "keyboard" /\ GoOn("eoi")
               \/ stack[Depth].h # "keyboard" /\ GoOn("iret")
<1>1. CASE AfterPrint(stack[Depth].h, stack[Depth].at)
  <2>1. CASE stack[Depth].at = "panicking"
    BY <1>1, <2>1 DEF AfterPrint, panicVars
  <2>2. CASE stack[Depth].at # "panicking" /\ stack[Depth].h = "double_fault"
    BY <1>1, <2>2 DEF AfterPrint
  <2>3. CASE stack[Depth].at # "panicking" /\ stack[Depth].h # "double_fault"
    <3>1. stack[Depth].at \in {"printing", "editing"}
      BY <2>3 DEF HandlerPrints
    <3>2. /\ GoOn(IF stack[Depth].h = "keyboard" THEN "eoi" ELSE "iret")
          /\ UNCHANGED <<culprits, room, cpu>>
      BY <1>1, <2>3 DEF AfterPrint, panicVars
    <3> QED BY <3>1, <3>2
  <2> QED BY <2>1, <2>2, <2>3
<1>2. CASE ~AfterPrint(stack[Depth].h, stack[Depth].at)
  BY <1>2 DEF HandlerPrints, panicVars
<1> QED BY <1>1, <1>2

LEMMA HandlerPrintsIInv == IInv /\ HandlerPrints => IInv'
<1> SUFFICES ASSUME IInv, HandlerPrints PROVE IInv'
  OBVIOUS
<1>1. /\ stack # <<>> /\ VGA_BUFFER!Step(Depth)
      /\ stack[Depth].at \in {"printing", "editing", "panicking"}
      /\ UNCHANGED <<stage, lines, idtr, idt, eflags_if, irr, isr, base>>
  BY DEF HandlerPrints, mainVars, picVars
<1>2. \/ stack' = stack \/ GoOn("panic")
      \/ stack[Depth].h = "keyboard" /\ GoOn("eoi")
      \/ stack[Depth].h # "keyboard" /\ GoOn("iret")
  BY HandlerLine DEF HandlerPanics
<1> QED BY <1>1, <1>2, PrintingKeeps

\* The handler that sends the EOI has the highest line in service.
LEMMA EoiIsOwn ==
  ASSUME IInv, EndOfInterrupt
  PROVE  \E h \in {"timer", "keyboard"} :
           LET own == IF h = "timer" THEN 0 ELSE 1
           IN  /\ stack = <<Frame(h, "eoi")>> /\ own \in isr /\ 1 - own \notin isr
               /\ isr' = isr \ {own}
<1>1. /\ At("timer", "eoi") \/ At("keyboard", "eoi")
      /\ isr' = isr \ Highest(isr) /\ stack # <<>>
  BY DEF EndOfInterrupt, At
<1>2. isr \subseteq Int /\ \A x \in isr : 0 <= x
  BY DEF IInv, LinesOK
<1>3. CASE At("timer", "eoi")
  <2>1. stack = <<Frame("timer", "eoi")>> /\ 0 \in isr /\ 1 \notin isr
    BY <1>1, <1>3, WhenHandling, AtTop DEF InTimer, InKeyboard, InMissing
  <2>2. Min(isr) = 0
    BY <1>2, <2>1, MinIs
  <2> QED BY <1>1, <2>1, <2>2 DEF Highest
<1>4. CASE At("keyboard", "eoi")
  <2>1. stack = <<Frame("keyboard", "eoi")>> /\ 1 \in isr /\ 0 \notin isr
    BY <1>1, <1>4, WhenHandling, AtTop DEF InTimer, InKeyboard, InMissing
  <2>2. \A x \in isr : 1 <= x
    BY <1>2, <2>1
  <2>3. Min(isr) = 1
    BY <1>2, <2>1, <2>2, MinIs
  <2> QED BY <1>1, <2>1, <2>3 DEF Highest
<1> QED BY <1>1, <1>3, <1>4

LEMMA EndOfInterruptIInv == IInv /\ EndOfInterrupt => IInv'
<1> SUFFICES ASSUME IInv, EndOfInterrupt PROVE IInv'
  OBVIOUS
<1>1. /\ GoOn("iret") /\ cpu = "running" /\ stack # <<>>
      /\ UNCHANGED <<stage, lines, idtr, idt, eflags_if, irr, base, vga_pc>>
  BY DEF EndOfInterrupt, At, mainVars, vgaVars
<1>2. isr' \subseteq isr
  BY EoiIsOwn
<1>3. Booting' /\ Printing' /\ LinesOK' /\ eflags_if' = FALSE
  BY <1>1, <1>2, VgaKept, HandlerKeeps
<1>4. CASE stack = <<Frame("timer", "eoi")>> /\ 1 \notin isr /\ isr' = isr \ {0}
  <2>1. stack' = <<Frame("timer", "iret")>>
    BY <1>1, <1>4, GoOnTop
  <2>2. InTimer'
    BY <1>4, <2>1 DEF InTimer
  <2> QED BY <1>1, <1>3, <2>2 DEF IInv, Serving
<1>5. CASE stack = <<Frame("keyboard", "eoi")>> /\ 0 \notin isr /\ isr' = isr \ {1}
  <2>1. stack' = <<Frame("keyboard", "iret")>>
    BY <1>1, <1>5, GoOnTop
  <2>2. InKeyboard'
    BY <1>5, <2>1 DEF InKeyboard, KeyboardAts
  <2> QED BY <1>1, <1>3, <2>2 DEF IInv, Serving
<1> QED BY <1>4, <1>5, EoiIsOwn

LEMMA IretIInv == IInv /\ Iret => IInv'
<1> SUFFICES ASSUME IInv, Iret PROVE IInv'
  OBVIOUS
<1>1. /\ cpu = "running" /\ stack # <<>> /\ stack[Depth].at = "iret"
      /\ stack' = SubSeq(stack, 1, Depth - 1) /\ eflags_if' = TRUE
      /\ UNCHANGED <<stage, lines, idtr, idt, irr, isr, base, vga_pc>>
  BY DEF Iret, mainVars, picVars, vgaVars
<1>2. /\ stage \in Up
      /\ InTimer \/ InKeyboard \/ InMissing
  BY <1>1, WhenHandling
<1>3. Depth = 1 /\ 0 \notin isr /\ 1 \notin isr
  BY <1>1, <1>2, TopOfStack DEF InTimer, InKeyboard, InMissing
<1>4. stack' = <<>>
  BY <1>1, <1>3
<1>5. Booting'
  BY <1>1, <1>2 DEF IInv, Booting
<1>6. Printing'
  BY <1>1 DEF IInv, Printing
<1>7. Serving'
  BY <1>1, <1>3, <1>4 DEF Serving
<1> QED BY <1>1, <1>5, <1>6, <1>7 DEF IInv, LinesOK

----------------------------------------------------------------------------
(* The theorems.                                                           *)

LEMMA InitIInv == Init => IInv
<1> SUFFICES ASSUME Init PROVE IInv
  OBVIOUS
<1>1. /\ stage = "serial" /\ lines = 3 /\ eflags_if = FALSE /\ irr \subseteq {0} /\ isr = {}
      /\ stack = <<>> /\ cpu = "running" /\ vga_pc = [c \in Contexts |-> "idle"]
  BY DEF Init, TIMER, VGA_BUFFER!Init
<1>2. Booting
  BY <1>1 DEF Booting
<1>3. Printing
  BY <1>1, ContextsNonEmpty DEF Printing
<1>4. LinesOK
  BY <1>1 DEF LinesOK
<1> QED BY <1>1, <1>2, <1>3, <1>4 DEF IInv, Serving

LEMMA NextIInv == IInv /\ [Next]_vars => IInv'
<1> SUFFICES ASSUME IInv, [Next]_vars PROVE IInv'
  OBVIOUS
<1>1. CASE MainStep
  BY <1>1, MainGreetsSerialIInv, MainCallsPrintIInv, MainFailsIInv, ColumnLostIInv,
     MainPrintsIInv, InitPicIInv, SetHandlersIInv, UpdateIInv, StiIInv DEF MainStep
<1>2. CASE HandlerStep
  BY <1>2, TimerTicksIInv, KeyboardReadsIInv, ExceptionIInv, HandlerCallsPrintIInv,
     HandlerPrintsIInv, EndOfInterruptIInv, IretIInv DEF HandlerStep
<1>3. CASE Interrupt
  BY <1>3, InterruptIInv
<1>4. CASE SpuriousInterrupt
  BY <1>4, SpuriousIInv
<1>5. CASE (\E l \in OtherLines \cup {TIMER} : Raise(l)) \/ KeyArrives
  BY <1>5, RaiseIInv
<1>6. CASE UNCHANGED vars
  <2>1. UNCHANGED <<stage, lines, eflags_if, idtr, idt, irr, isr, base, stack, vga_pc>>
    BY <1>6 DEF vars
  <2>2. Booting'
    BY <2>1 DEF IInv, Booting
  <2>3. Printing'
    BY <2>1 DEF IInv, Printing
  <2>4. Serving'
    BY <2>1 DEF IInv, Serving, InTimer, InKeyboard, InMissing
  <2> QED BY <2>1, <2>2, <2>3, <2>4 DEF IInv, LinesOK
<1> QED BY <1>1, <1>2, <1>3, <1>4, <1>5, <1>6 DEF Next

LEMMA Invariance == Spec => []IInv
BY InitIInv, NextIInv, PTL DEF Spec

\* Handlers never nest, whatever fires and however much room there is: every
\* entry that main sets is an interrupt gate, and only iret sets the flag.
THEOREM NoNesting == Spec => []HandlersDoNotNest
<1>1. IInv => HandlersDoNotNest
  <2> SUFFICES ASSUME IInv PROVE Len(stack) <= 1
    BY DEF HandlersDoNotNest
  <2>1. CASE stack = <<>>
    BY <2>1, EmptyStack
  <2>2. CASE stack # <<>>
    <3>1. Len(stack) = 1
      BY <2>2, WhenHandling, TopOfStack DEF InTimer, InKeyboard, InMissing
    <3> QED BY <3>1
  <2> QED BY <2>1, <2>2
<1> QED BY <1>1, Invariance, PTL

\* Timer and keyboard are in service exactly while their handlers have the EOI
\* before them.
THEOREM ServiceMatchesHandler == Spec => []InServiceIsHandled
<1>1. IInv => InServiceIsHandled
  <2> SUFFICES ASSUME IInv, NEW h \in {"timer", "keyboard"}
               PROVE  (IF h = "timer" THEN TIMER ELSE KEYBOARD) \in isr
                      <=> \E d \in DOMAIN stack : stack[d].h = h /\ stack[d].at # "iret"
    BY DEF InServiceIsHandled
  <2>1. CASE stack = <<>>
    BY <2>1, EmptyStack, QuietInMain DEF IInv, TIMER, KEYBOARD
  <2>2. CASE stack # <<>>
    <3>1. PICK k, at :
            /\ stack = <<Frame(k, at)>>
            /\ 0 \in isr <=> k = "timer" /\ at # "iret"
            /\ 1 \in isr <=> k = "keyboard" /\ at # "iret"
      BY <2>2, WhenHandling DEF InTimer, InKeyboard, InMissing
    <3>2. (\E d \in DOMAIN stack : stack[d].h = h /\ stack[d].at # "iret")
          <=> k = h /\ at # "iret"
      BY <3>1, TopOfStack DEF Frame
    <3> QED BY <3>1, <3>2 DEF TIMER, KEYBOARD
  <2> QED BY <2>1, <2>2
<1> QED BY <1>1, Invariance, PTL

\* The non-specific EOI always retires the line of the handler that sends it.
THEOREM EoiRetires == Spec => EoiRetiresOwnLine
<1>1. IInv /\ [Next]_vars =>
        [EndOfInterrupt =>
           isr \ isr' = {IF stack[Depth].h = "timer" THEN TIMER ELSE KEYBOARD}]_vars
  <2> SUFFICES ASSUME IInv, EndOfInterrupt
               PROVE  isr \ isr' = {IF stack[Depth].h = "timer" THEN TIMER ELSE KEYBOARD}
    OBVIOUS
  <2>1. PICK h \in {"timer", "keyboard"} :
          /\ stack = <<Frame(h, "eoi")>>
          /\ (IF h = "timer" THEN 0 ELSE 1) \in isr
          /\ isr' = isr \ {IF h = "timer" THEN 0 ELSE 1}
    BY EoiIsOwn
  <2>2. stack[Depth].h = h
    BY <2>1, TopOfStack
  <2> QED BY <2>1, <2>2 DEF TIMER, KEYBOARD
<1> QED BY <1>1, Invariance, PTL DEF Spec, EoiRetiresOwnLine

----------------------------------------------------------------------------
(* Panics.                                                                 *)

Lost == <<"index", 0>>
Zero == <<"scancode", 0>>
Known == {Zero, <<"overflow", 0>>, <<"unwrap", 0>>, Lost}

\* main, or the handler that runs, is in the panic handler.
MainDown == stage \in {"panic", "dead"}
HandlerDown == stack # <<>> /\ stack[Depth].at \in {"panic", "panicking"}

\* Without a lost column main panics at most once and a handler at most once,
\* for which the stack has room.
PanicInv ==
  /\ culprits \subseteq Known /\ room \in 0 .. PanicRoom
  /\ cpu \in {"running", "halted", "reset"}
  /\ HandlerDown \/ cpu = "halted" => Zero \in culprits \/ Lost \in culprits
  /\ Lost \notin culprits =>
       /\ cpu # "reset"
       /\ ~MainDown /\ ~HandlerDown => room = PanicRoom
       /\ ~MainDown \/ ~HandlerDown => room >= PanicRoom - 1

LEMMA KeepsPanics ==
  ASSUME PanicInv, UNCHANGED <<culprits, room, cpu>>,
         MainDown' <=> MainDown, HandlerDown' <=> HandlerDown
  PROVE  PanicInv'
BY DEF PanicInv

LEMMA MainPanicInv ==
  ASSUME IInv, PanicInv, MainStep
  PROVE  PanicInv'
<1>1. stack = <<>> /\ stack' = stack /\ cpu = "running"
  BY DEF MainStep, MainGreetsSerial, MainCallsPrint, MainFails, ColumnLost, MainPrints, InitPic,
         SetHandlers, Update, Sti, InMain
<1>2. ~HandlerDown /\ ~HandlerDown'
  BY <1>1 DEF HandlerDown
<1>3. CASE MainFails
  <2>1. PICK why \in {<<"overflow", 0>>, <<"unwrap", 0>>} : MainPanics(why) /\ ~MainDown
    BY <1>3 DEF MainFails, MainDown
  <2>2. culprits' \subseteq Known /\ culprits' = culprits \cup {why} /\ (Lost \in culprits => Lost \in culprits')
    BY <2>1 DEF MainPanics, PanicInv, Known
  <2>3. why # Lost
    BY <2>1 DEF Lost
  <2>4. CASE room > 0
    <3>1. stage' = "panic" /\ room' = room - 1 /\ cpu' = cpu
      BY <2>1, <2>4 DEF MainPanics
    <3> QED BY <1>1, <1>2, <2>1, <2>2, <2>3, <2>4, <3>1, LinesAssumption DEF PanicInv, MainDown
  <2>5. CASE ~(room > 0)
    <3>1. Lost \in culprits
      BY <1>2, <2>1, <2>5, LinesAssumption DEF PanicInv
    <3>2. cpu' = "reset" /\ room' = room
      BY <2>1, <2>5 DEF MainPanics
    <3> QED BY <1>2, <2>2, <3>1, <3>2 DEF PanicInv
  <2> QED BY <2>4, <2>5
<1>4. CASE MainPrints
  <2>1. CASE MainPanics(Lost)
    <3>1. culprits' \subseteq Known /\ Lost \in culprits'
      BY <2>1 DEF MainPanics, PanicInv, Known
    <3>2. room' \in 0 .. PanicRoom /\ (cpu' = cpu \/ cpu' = "reset")
      BY <2>1, LinesAssumption DEF MainPanics, PanicInv
    <3> QED BY <1>1, <1>2, <3>1, <3>2 DEF PanicInv
  <2>2. CASE ~MainPanics(Lost)
    <3>1. UNCHANGED <<culprits, room, cpu>> /\ (MainDown' <=> MainDown)
      BY <1>4, <2>2, MainLine DEF MainDown, Lost
    <3> QED BY <1>2, <3>1, KeepsPanics
  <2> QED BY <2>1, <2>2
<1>5. CASE ~MainFails /\ ~MainPrints
  <2>1. UNCHANGED <<culprits, room, cpu>> /\ (MainDown' <=> MainDown)
    BY <1>5 DEF MainStep, MainGreetsSerial, MainCallsPrint, ColumnLost, InitPic, SetHandlers,
                Update, Sti, panicVars, mainVars, MainDown
  <2> QED BY <1>2, <2>1, KeepsPanics
<1> QED BY <1>3, <1>4, <1>5

\* Where a handler is after it goes on.
LEMMA GoesOn ==
  ASSUME IInv, stack # <<>>, NEW b, GoOn(b)
  PROVE  stack' # <<>> /\ Depth' = Depth /\ stack'[Depth'].at = b
<1>1. PICK h, at : stack = <<Frame(h, at)>>
  BY WhenHandling DEF InTimer, InKeyboard, InMissing
<1>2. stack' = <<Frame(h, b)>>
  BY <1>1, GoOnTop
<1> QED BY <1>1, <1>2 DEF Frame, Depth

\* A panic of a handler that was not in the panic handler yet, or one over a
\* lost column.
LEMMA HandlerPanicInv ==
  ASSUME IInv, stack # <<>>, PanicInv, NEW why \in {Zero, Lost}, HandlerPanics(why), stage' = stage,
         why = Lost \/ ~HandlerDown, cpu = "running"
  PROVE  PanicInv'
<1>1. culprits' = culprits \cup {why} /\ culprits' \subseteq Known
  BY DEF HandlerPanics, PanicInv, Known
<1>2. MainDown' <=> MainDown
  BY DEF MainDown
<1>3. CASE room > 0
  <2>1. room' = room - 1 /\ cpu' = cpu /\ GoOn("panic")
    BY <1>3 DEF HandlerPanics
  <2>2. HandlerDown'
    BY <2>1, GoesOn DEF HandlerDown
  <2>3. room' \in 0 .. PanicRoom
    BY <1>3, <2>1, LinesAssumption DEF PanicInv
  <2>4. CASE Lost \in culprits'
    BY <1>1, <2>1, <2>3, <2>4 DEF PanicInv
  <2>5. CASE Lost \notin culprits'
    <3>1. ~HandlerDown /\ Lost \notin culprits /\ Zero \in culprits'
      BY <1>1, <2>5
    <3>2. ~MainDown => room' >= PanicRoom - 1
      BY <2>1, <3>1, LinesAssumption DEF PanicInv
    <3> QED BY <1>1, <1>2, <2>1, <2>2, <2>3, <3>1, <3>2 DEF PanicInv
  <2> QED BY <2>4, <2>5
<1>4. CASE ~(room > 0)
  <2>1. cpu' = "reset" /\ room' = room
    BY <1>4 DEF HandlerPanics
  <2>2. Lost \in culprits'
    BY <1>1, <1>4, LinesAssumption DEF PanicInv
  <2> QED BY <1>1, <2>1, <2>2 DEF PanicInv
<1> QED BY <1>3, <1>4

LEMMA HandlerStepPanicInv ==
  ASSUME IInv, IInv', PanicInv, HandlerStep
  PROVE  PanicInv'
<1>1. stack # <<>> /\ cpu = "running" /\ stage' = stage
  BY DEF HandlerStep, TimerTicks, KeyboardReads, ExceptionEntered, HandlerCallsPrint, HandlerPrints,
         EndOfInterrupt, Iret, At, mainVars
<1>2. MainDown' <=> MainDown
  BY <1>1 DEF MainDown
<1>3. ASSUME UNCHANGED <<culprits, room, cpu>>, ~HandlerDown,
             NEW b \in {"print", "edit", "eoi", "iret"}, GoOn(b)
      PROVE  PanicInv'
  <2>1. ~HandlerDown'
    BY <1>1, <1>3, GoesOn DEF HandlerDown
  <2> QED BY <1>2, <1>3, <2>1, KeepsPanics
<1>4. CASE KeyboardReads
  <2>1. ~HandlerDown
    BY <1>4 DEF KeyboardReads, At, HandlerDown
  <2> QED BY <1>1, <1>3, <2>1, KeyOutcome, <1>4, HandlerPanicInv DEF Zero
<1>5. CASE TimerTicks \/ ExceptionEntered \/ EndOfInterrupt
  <2>1. ~HandlerDown
    BY <1>5 DEF TimerTicks, ExceptionEntered, EndOfInterrupt, At, HandlerDown
  <2>2. UNCHANGED <<culprits, room, cpu>> /\ \E b \in {"print", "eoi", "iret"} : GoOn(b)
    BY <1>5 DEF TimerTicks, ExceptionEntered, EndOfInterrupt, panicVars
  <2> QED BY <1>3, <2>1, <2>2
<1>6. CASE HandlerCallsPrint
  <2>1. UNCHANGED <<culprits, room, cpu>>
    BY <1>6 DEF HandlerCallsPrint, panicVars
  <2>2. \/ stack[Depth].at \in {"print", "edit"} /\ \E b \in {"printing", "editing"} : GoOn(b)
        \/ stack[Depth].at = "panic" /\ GoOn("panicking")
    BY <1>6 DEF HandlerCallsPrint
  <2>3. HandlerDown' <=> HandlerDown
    BY <1>1, <2>2, GoesOn DEF HandlerDown
  <2> QED BY <1>2, <2>1, <2>3, KeepsPanics
<1>7. CASE HandlerPrints
  <2>1. CASE stack' = stack /\ UNCHANGED <<culprits, room, cpu>>
    BY <1>2, <2>1, KeepsPanics DEF HandlerDown, Depth
  <2>2. CASE HandlerPanics(<<"index", 0>>)
    BY <1>1, <2>2, HandlerPanicInv DEF Lost
  <2>3. CASE stack[Depth].h = "double_fault"
    <3>1. PICK h \in {"timer", "keyboard", "segment_not_present"} : \E at : stack = <<Frame(h, at)>>
      BY <1>1, WhenHandling DEF InTimer, InKeyboard, InMissing
    <3> QED BY <2>3, <3>1, TopOfStack
  <2>4. CASE stack[Depth].at = "panicking" /\ cpu' = "halted" /\ UNCHANGED <<stack, culprits, room>>
    <3>1. HandlerDown /\ HandlerDown'
      BY <1>1, <2>4 DEF HandlerDown, Depth
    <3> QED BY <1>2, <2>4, <3>1 DEF PanicInv
  <2>5. CASE /\ stack[Depth].at \in {"printing", "editing"} /\ UNCHANGED <<culprits, room, cpu>>
             /\ GoOn("eoi") \/ GoOn("iret")
    <3>1. ~HandlerDown
      BY <2>5 DEF HandlerDown
    <3> QED BY <1>3, <2>5, <3>1
  <2> QED BY <1>7, <2>1, <2>2, <2>3, <2>4, <2>5, HandlerLine
<1>8. CASE Iret
  <2>1. UNCHANGED <<culprits, room, cpu>> /\ stack[Depth].at = "iret" /\ eflags_if' = TRUE
    BY <1>8 DEF Iret, panicVars
  <2>2. stack' = <<>>
    BY <2>1 DEF IInv, Serving
  <2>3. ~HandlerDown /\ ~HandlerDown'
    BY <2>1, <2>2 DEF HandlerDown
  <2> QED BY <1>2, <2>1, <2>3, KeepsPanics
<1> QED BY <1>4, <1>5, <1>6, <1>7, <1>8 DEF HandlerStep

\* The start of a handler.
LEMMA DeliveryPanicInv ==
  ASSUME IInv, PanicInv, Interrupt \/ SpuriousInterrupt
  PROVE  PanicInv'
<1>1. /\ eflags_if /\ stage' = stage /\ UNCHANGED <<culprits, room>>
  BY DEF Interrupt, SpuriousInterrupt, mainVars, panicVars
<1>2. stack = <<>> /\ base = 32 /\ idt = Table /\ idtr = TRUE
  BY <1>1, WhenEnabled
<1>3. PICK v \in {32, 33, 40} \cup (35 .. 39) : Vectored(v)
  <2>1. CASE SpuriousInterrupt
    <3>1. base + SPURIOUS = 39
      BY <1>2 DEF SPURIOUS
    <3> QED BY <2>1, <3>1 DEF SpuriousInterrupt
  <2>2. CASE Interrupt
    <3> DEFINE l == Min(Deliverable)
    <3>1. l \in 0 .. 6
      <4>1. Deliverable \in SUBSET (0 .. 6) /\ Deliverable # {}
        BY <2>2 DEF Interrupt, Deliverable, IInv, LinesOK
      <4> QED BY <4>1, MinOfLines
    <3>2. Vectored(VectorOf(l))
      BY <2>2 DEF Interrupt
    <3> HIDE DEF l
    <3> QED BY <1>2, <3>1, <3>2 DEF VectorOf
  <2> QED BY <2>1, <2>2
<1>4. cpu' = cpu /\ \E h : stack' = Append(<<>>, [h |-> h, at |-> "start"])
  BY <1>2, <1>3, Delivery
<1>5. PICK h : stack' = <<Frame(h, "start")>>
  <2>1. PICK h : stack' = Append(<<>>, Frame(h, "start"))
    BY <1>4 DEF Frame
  <2>2. stack' = <<Frame(h, "start")>>
    BY <2>1
  <2> QED BY <2>2
<1>6. ~HandlerDown /\ ~HandlerDown'
  BY <1>2, <1>5 DEF HandlerDown, Depth, Frame
<1> QED BY <1>1, <1>4, <1>6, KeepsPanics DEF MainDown

LEMMA NextPanicInv == IInv /\ IInv' /\ PanicInv /\ [Next]_vars => PanicInv'
<1> SUFFICES ASSUME IInv, IInv', PanicInv, [Next]_vars PROVE PanicInv'
  OBVIOUS
<1>1. CASE MainStep
  BY <1>1, MainPanicInv
<1>2. CASE HandlerStep
  BY <1>2, HandlerStepPanicInv
<1>3. CASE Interrupt \/ SpuriousInterrupt
  BY <1>3, DeliveryPanicInv
<1>4. CASE KeyArrives \/ (\E l \in OtherLines \cup {TIMER} : Raise(l)) \/ UNCHANGED vars
  <2>1. UNCHANGED <<culprits, room, cpu, stack, stage>>
    BY <1>4 DEF KeyArrives, Raise, vars, panicVars, mainVars
  <2> QED BY <2>1, KeepsPanics DEF MainDown, HandlerDown, Depth
<1> QED BY <1>1, <1>2, <1>3, <1>4 DEF Next

LEMMA InitPanicInv == Init => PanicInv
<1> SUFFICES ASSUME Init PROVE PanicInv
  OBVIOUS
<1>1. stack = <<>> /\ culprits = {} /\ room = PanicRoom /\ cpu = "running"
  BY DEF Init
<1> QED BY <1>1, LinesAssumption DEF PanicInv, HandlerDown

\* Whatever fires and whenever, the only panics are those of scancode 0x00, of
\* the memory map, of the allocation, and of a column that a key moved off the
\* screen within a print of main; only the last can recur until the stack is
\* used up and the machine resets, and no line is taken for an exception.
THEOREM PanicsHaveCauses == Spec => []PanicsExplained
<1>1. IInv /\ PanicInv => PanicsExplained
  <2> SUFFICES ASSUME IInv, PanicInv PROVE PanicsExplained
    OBVIOUS
  <2>1. \A d \in DOMAIN stack : stack[d].h \in {"timer", "keyboard", "segment_not_present"}
    <3>1. CASE stack = <<>>
      BY <3>1, EmptyStack
    <3>2. CASE stack # <<>>
      <4>1. PICK h \in {"timer", "keyboard", "segment_not_present"} : \E at : stack = <<Frame(h, at)>>
        BY <3>2, WhenHandling DEF InTimer, InKeyboard, InMissing
      <4> QED BY <4>1, TopOfStack DEF Frame
    <3> QED BY <3>1, <3>2
  <2>2. culprits \subseteq {<<"scancode", 0>>, <<"overflow", 0>>, <<"unwrap", 0>>, <<"index", 0>>}
    BY DEF PanicInv, Known, Zero, Lost
  <2>3. /\ cpu = "halted" => culprits \cap {<<"scancode", 0>>, <<"index", 0>>} # {}
        /\ cpu = "reset" => <<"index", 0>> \in culprits
    BY DEF PanicInv, Zero, Lost
  <2> QED BY <2>1, <2>2, <2>3 DEF PanicsExplained
<1> QED BY <1>1, InitPanicInv, NextPanicInv, Invariance, PTL DEF Spec

----------------------------------------------------------------------------
(* VGA_BUFFER as main and the handlers use it.                             *)

\* main has not printed its first line.
Greeting == stage = "serial" \/ (stage = "hello" /\ lines = 3)

\* Who uses the cell in a step of the kernel: nobody, main, which is past its
\* first line only when it has finished with the cell, or a handler, later.
LEMMA VgaUser ==
  ASSUME IInv, [Next]_vars
  PROVE  \/ UNCHANGED vgaVars /\ (Greeting => Greeting')
         \/ /\ VGA_BUFFER!Call(0) \/ VGA_BUFFER!Step(0)
            /\ Greeting /\ ~Greeting' => VGA_BUFFER!Step(0) /\ vga_pc'[0] = "idle"
         \/ /\ VGA_BUFFER!Call(1) \/ VGA_BUFFER!Step(1)
            /\ ~Greeting
<1>1. CASE MainCallsPrint
  BY <1>1 DEF MainCallsPrint, mainVars, Greeting
<1>2. CASE MainPrints
  <2>1. VGA_BUFFER!Step(0)
    BY <1>2 DEF MainPrints
  <2>2. vga_pc'[0] # "idle" => UNCHANGED <<stage, lines>>
    BY <1>2, MainLine
  <2> QED BY <2>1, <2>2 DEF Greeting
<1>3. CASE InitPic \/ SetHandlers \/ Update \/ Sti \/ MainGreetsSerial \/ MainFails \/ ColumnLost
  <2>1. stage = "serial" => lines = 3
    BY DEF IInv, Printing
  <2>2. CASE InitPic \/ SetHandlers \/ Update \/ Sti
    BY <2>1, <2>2 DEF InitPic, SetHandlers, Update, Sti, mainVars, Greeting
  <2>3. CASE MainGreetsSerial \/ ColumnLost
    BY <2>1, <2>3 DEF MainGreetsSerial, ColumnLost, mainVars, Greeting
  <2>4. CASE MainFails
    BY <2>4 DEF MainFails, Greeting
  <2> QED BY <1>3, <2>2, <2>3, <2>4
<1>4. CASE HandlerCallsPrint \/ HandlerPrints
  <2>1. /\ stack # <<>>
        /\ VGA_BUFFER!Call(Depth) \/ VGA_BUFFER!Step(Depth)
    BY <1>4 DEF HandlerCallsPrint, HandlerPrints, mainVars
  <2>2. Depth = 1 /\ ~Greeting
    BY <2>1, WhenHandling, TopOfStack DEF InTimer, InKeyboard, InMissing, Up, Greeting
  <2> QED BY <2>1, <2>2
<1>5. CASE TimerTicks \/ KeyboardReads \/ ExceptionEntered \/ EndOfInterrupt \/ Iret
  BY <1>5 DEF TimerTicks, KeyboardReads, ExceptionEntered, EndOfInterrupt, Iret, mainVars,
              Greeting
<1>6. CASE Interrupt \/ SpuriousInterrupt \/ KeyArrives \/ \E l \in OtherLines \cup {TIMER} : Raise(l)
  BY <1>6 DEF Interrupt, SpuriousInterrupt, KeyArrives, Raise, mainVars, Greeting
<1>7. CASE UNCHANGED vars
  BY <1>7 DEF vars, vgaVars, Greeting
<1> QED BY <1>1, <1>2, <1>3, <1>4, <1>5, <1>6, <1>7 DEF Next, MainStep, HandlerStep

\* main initialises the cell alone, with the greeting, before there are
\* handlers, whatever the byte held at the start.
Initialising ==
  /\ vga_inited = 1 => vga_pc[0] \in {"write", "store"}
  /\ vga_pc[0] \in {"write", "store"} => vga_inited # 2
VgaInv ==
  /\ VGA_BUFFER!TypeOK /\ Initialising
  /\ ~Greeting => vga_inited = 2
  /\ \A c \in Contexts : /\ vga_pc[c] \notin {"spin", "panic"}
                         /\ vga_pc[c] \in {"check", "use"} => vga_inited = 2
                         /\ vga_inited # 2 /\ c # 0 => vga_pc[c] = "idle"
                         /\ c # 0 => vga_pc[c] \notin {"write", "store"}

LEMMA VgaStepKeeps ==
  ASSUME VgaInv, NEW c \in Contexts, c # 0 => vga_inited = 2,
         VGA_BUFFER!Call(c) \/ VGA_BUFFER!Step(c), ~Greeting' => vga_inited' = 2
  PROVE  VgaInv'
<1> USE ContextsNonEmpty DEF VgaInv, Initialising, VGA_BUFFER!TypeOK, VGA_BUFFER!Goto,
        VGA_BUFFER!SINGLE_UNINIT, VGA_BUFFER!SINGLE_INITING, VGA_BUFFER!SINGLE_INITED
<1>1. CASE VGA_BUFFER!Call(c)
  BY <1>1 DEF VGA_BUFFER!Call
<1>2. CASE VGA_BUFFER!CompareExchange(c)
  BY <1>2 DEF VGA_BUFFER!CompareExchange
<1>3. CASE VGA_BUFFER!SpinEnds(c)
  BY <1>3 DEF VGA_BUFFER!SpinEnds
<1>4. CASE VGA_BUFFER!WriteDefault(c)
  BY <1>4 DEF VGA_BUFFER!WriteDefault
<1>5. CASE VGA_BUFFER!StoreInited(c)
  BY <1>5 DEF VGA_BUFFER!StoreInited
<1>6. CASE VGA_BUFFER!AssertInited(c)
  BY <1>6 DEF VGA_BUFFER!AssertInited
<1>7. CASE VGA_BUFFER!Use(c)
  BY <1>7 DEF VGA_BUFFER!Use
<1> QED BY <1>1, <1>2, <1>3, <1>4, <1>5, <1>6, <1>7 DEF VGA_BUFFER!Step

\* A cell that is initialised stays so, and main leaves it initialised.
LEMMA StaysInited ==
  ASSUME VgaInv, NEW c \in Contexts, VGA_BUFFER!Call(c) \/ VGA_BUFFER!Step(c)
  PROVE  /\ vga_inited = 2 => vga_inited' = 2
         /\ VGA_BUFFER!Step(c) /\ vga_pc'[c] = "idle" => vga_inited' = 2
<1> USE DEF VgaInv, VGA_BUFFER!TypeOK, VGA_BUFFER!Goto, VGA_BUFFER!SINGLE_UNINIT,
        VGA_BUFFER!SINGLE_INITING, VGA_BUFFER!SINGLE_INITED
<1>1. CASE VGA_BUFFER!Call(c)
  BY <1>1 DEF VGA_BUFFER!Call, VGA_BUFFER!Step, VGA_BUFFER!CompareExchange, VGA_BUFFER!SpinEnds,
              VGA_BUFFER!WriteDefault, VGA_BUFFER!StoreInited, VGA_BUFFER!AssertInited,
              VGA_BUFFER!Use
<1>2. CASE VGA_BUFFER!Step(c)
  <2>1. CASE VGA_BUFFER!CompareExchange(c)
    BY <2>1 DEF VGA_BUFFER!CompareExchange
  <2>2. CASE VGA_BUFFER!StoreInited(c)
    BY <2>2 DEF VGA_BUFFER!StoreInited
  <2>3. CASE VGA_BUFFER!SpinEnds(c) \/ VGA_BUFFER!WriteDefault(c) \/ VGA_BUFFER!AssertInited(c)
    BY <2>3 DEF VGA_BUFFER!SpinEnds, VGA_BUFFER!WriteDefault, VGA_BUFFER!AssertInited
  <2>4. CASE VGA_BUFFER!Use(c)
    BY <2>4 DEF VGA_BUFFER!Use
  <2> QED BY <1>2, <2>1, <2>2, <2>3, <2>4 DEF VGA_BUFFER!Step
<1> QED BY <1>1, <1>2

LEMMA NextVga == IInv /\ VgaInv /\ [Next]_vars => VgaInv'
<1> SUFFICES ASSUME IInv, VgaInv, [Next]_vars PROVE VgaInv'
  OBVIOUS
<1>1. CASE UNCHANGED vgaVars /\ (Greeting => Greeting')
  BY <1>1 DEF VgaInv, Initialising, VGA_BUFFER!TypeOK, vgaVars
<1>2. CASE /\ VGA_BUFFER!Call(0) \/ VGA_BUFFER!Step(0)
           /\ Greeting /\ ~Greeting' => VGA_BUFFER!Step(0) /\ vga_pc'[0] = "idle"
  <2>1. ~Greeting' => vga_inited' = 2
    BY <1>2, StaysInited, ContextsNonEmpty DEF VgaInv
  <2> QED BY <1>2, <2>1, VgaStepKeeps, ContextsNonEmpty
<1>3. CASE /\ VGA_BUFFER!Call(1) \/ VGA_BUFFER!Step(1)
           /\ ~Greeting
  <2>1. vga_inited = 2 /\ vga_inited' = 2
    BY <1>3, StaysInited, ContextsNonEmpty DEF VgaInv
  <2> QED BY <1>3, <2>1, VgaStepKeeps, ContextsNonEmpty
<1> QED BY <1>1, <1>2, <1>3, VgaUser

LEMMA InitVga == Init => VgaInv
<1> SUFFICES ASSUME Init PROVE VgaInv
  OBVIOUS
<1>1. /\ stage = "serial" /\ vga_inited = vga_boot /\ vga_boot \in BootBytes
      /\ vga_data = "uninit" /\ vga_pc = [c \in Contexts |-> "idle"]
  BY DEF Init, VGA_BUFFER!Init
<1>2. vga_boot \in 0 .. 255 /\ vga_boot \notin {1, 2}
  BY <1>1, LinesAssumption
<1> QED BY <1>1, <1>2, ContextsNonEmpty DEF VgaInv, Initialising, VGA_BUFFER!TypeOK, Greeting

\* main and the handlers together use VGA_BUFFER as the contexts of Singleton
\* do: what is shown of the cell for any users holds in the kernel.
THEOREM KernelUsesSingleton == Spec => VGA_BUFFER!Spec
<1>1. Init => VGA_BUFFER!Init
  BY DEF Init
<1>2. IInv /\ [Next]_vars => [VGA_BUFFER!Next]_(VGA_BUFFER!vars)
  <2> SUFFICES ASSUME IInv, [Next]_vars PROVE VGA_BUFFER!Next \/ UNCHANGED VGA_BUFFER!vars
    OBVIOUS
  <2> QED BY VgaUser, ContextsNonEmpty DEF VGA_BUFFER!Next, VGA_BUFFER!vars, vgaVars
<1> QED BY <1>1, <1>2, Invariance, PTL DEF Spec, VGA_BUFFER!Spec

\* No print ever waits for VGA_BUFFER, and no handler initialises it: main has
\* done so before it enables interrupts, so a handler never spins on the
\* context it has interrupted.
NobodyWaits ==
  \A c \in Contexts : /\ vga_pc[c] \notin {"spin", "panic"}
                      /\ c # 0 => vga_pc[c] \notin {"write", "store"}

\* The safety behind HandlersReturn: the greeting, printed before sti, leaves
\* VGA_BUFFER ready for every handler.
THEOREM HandlersNeverWait == Spec => []NobodyWaits
<1>1. VgaInv => NobodyWaits
  BY DEF VgaInv, NobodyWaits
<1> QED BY <1>1, InitVga, NextVga, Invariance, PTL DEF Spec

----------------------------------------------------------------------------
(* Types, and the ticks.                                                   *)

One(b) == IF b THEN 1 ELSE 0
Ticking == stack = <<Frame("timer", "start")>>

\* An edge of the timer line is pending, or with a handler that has still to
\* count it, or counted; one was there at boot.
Edges == TICKS \in Nat /\ TICKS + One(0 \in irr) + One(Ticking) <= events + 1

Values ==
  /\ eflags_if \in BOOLEAN /\ idtr \in BOOLEAN /\ lines <= Regions + 3
  /\ idt \in {NoHandlers, Table} /\ imr \subseteq OtherLines /\ base \in {8, 32}
  /\ obf \in BOOLEAN /\ stranded \in BOOLEAN
  /\ column \in {"on", "lost", "off"} /\ raced \in BOOLEAN
  /\ events \in 0 .. MaxEvents

LEMMA MainValues ==
  ASSUME IInv, Values, MainStep
  PROVE  Values'
<1>1. CASE MainCallsPrint \/ MainGreetsSerial
  BY <1>1 DEF MainCallsPrint, MainGreetsSerial, mainVars, picVars, screenVars, Values
<1>2. CASE MainPrints
  <2>1. UNCHANGED <<eflags_if, idtr, idt, imr, base, obf, stranded, events>>
    BY <1>2 DEF MainPrints, picVars
  <2>2. lines' <= Regions + 3
    BY <1>2, MainLine, LinesAssumption DEF Values, MainPanics
  <2>3. (column' = column \/ column' \in {"on", "off"}) /\ (raced' = raced \/ raced' = FALSE)
    BY <1>2 DEF MainPrints, screenVars
  <2>4. raced' \in BOOLEAN
    BY <2>3, Zenon DEF Values
  <2> QED BY <2>1, <2>2, <2>3, <2>4 DEF Values
<1>3. CASE MainFails
  <2>1. UNCHANGED <<eflags_if, idtr, idt, imr, base, obf, stranded, column, raced, events>>
    BY <1>3 DEF MainFails, picVars, screenVars
  <2>2. lines' <= Regions + 3
    BY <1>3, LinesAssumption DEF MainFails, MainPanics, Values
  <2> QED BY <2>1, <2>2 DEF Values
<1>4. CASE ColumnLost
  <2>1. /\ UNCHANGED <<eflags_if, idtr, lines, idt, imr, base, obf, stranded, events>>
        /\ column' = "lost" /\ raced' = FALSE
    BY <1>4 DEF ColumnLost, mainVars, picVars
  <2>2. raced' \in BOOLEAN
    BY <2>1, Zenon
  <2> QED BY <2>1, <2>2 DEF Values
<1>5. CASE InitPic
  BY <1>5 DEF InitPic, pic_init, screenVars, Values
<1>6. CASE SetHandlers
  BY <1>6 DEF SetHandlers, Table, picVars, screenVars, Values
<1>7. CASE Update
  BY <1>7 DEF Update, picVars, screenVars, Values
<1>8. CASE Sti
  BY <1>8, LinesAssumption DEF Sti, picVars, screenVars, Values
<1> QED BY <1>1, <1>2, <1>3, <1>4, <1>5, <1>6, <1>7, <1>8 DEF MainStep

LEMMA HandlerValues ==
  ASSUME IInv, Values, HandlerStep
  PROVE  Values'
<1>1. CASE KeyboardReads
  BY <1>1 DEF KeyboardReads, mainVars, picVars, screenVars, Values
<1>2. CASE TimerTicks \/ ExceptionEntered \/ HandlerCallsPrint
  BY <1>2 DEF TimerTicks, ExceptionEntered, HandlerCallsPrint, mainVars, picVars, screenVars, Values
<1>3. CASE EndOfInterrupt
  BY <1>3 DEF EndOfInterrupt, mainVars, picVars, screenVars, Values
<1>5. CASE Iret
  BY <1>5 DEF Iret, mainVars, picVars, screenVars, Values
<1>4. CASE HandlerPrints
  <2>1. UNCHANGED <<eflags_if, idtr, lines, idt, imr, base, obf, stranded, events>>
    BY <1>4 DEF HandlerPrints, mainVars, picVars
  <2>2. column' = column \/ column' = "on"
    BY <1>4 DEF HandlerPrints, screenVars
  <2>3. \/ raced' = raced
        \/ raced' = (vga_pc[0] = "use")
    BY <1>4, Zenon DEF HandlerPrints, screenVars
  <2>4. raced' \in BOOLEAN
    BY <2>3, Zenon DEF Values
  <2> QED BY <2>1, <2>2, <2>4 DEF Values
<1> QED BY <1>1, <1>2, <1>3, <1>4, <1>5 DEF HandlerStep

LEMMA NextValues ==
  ASSUME IInv, IInv', Values, [Next]_vars
  PROVE  Values'
<1>1. CASE MainStep
  BY <1>1, MainValues
<1>2. CASE HandlerStep
  BY <1>2, HandlerValues
<1>3. CASE Interrupt \/ SpuriousInterrupt
  <2>1. /\ UNCHANGED <<idtr, lines, idt, imr, base, obf, stranded, column, raced>>
        /\ events' \in 0 .. MaxEvents
    BY <1>3, LinesAssumption DEF Interrupt, SpuriousInterrupt, mainVars, picVars, screenVars, Values
  <2>2. eflags_if' = eflags_if \/ \E f : stack' = Append(stack, f)
    BY <1>3 DEF Interrupt, SpuriousInterrupt, Vectored
  <2>3. stack = <<>>
    BY <1>3, WhenEnabled DEF Interrupt, SpuriousInterrupt
  <2>4. stack' # <<>> => eflags_if' = FALSE
    BY DEF IInv, Serving
  <2>5. \A f : Append(<<>>, f) # <<>>
    OBVIOUS
  <2>6. eflags_if' = eflags_if \/ eflags_if' = FALSE
    BY <2>2, <2>3, <2>4, <2>5, Zenon
  <2>7. eflags_if' \in BOOLEAN
    BY <2>6, Zenon DEF Values
  <2> QED BY <2>1, <2>7 DEF Values
<1>4. CASE KeyArrives \/ \E l \in OtherLines \cup {TIMER} : Raise(l)
  <2>1. /\ UNCHANGED <<eflags_if, idtr, lines, idt, imr, base, stranded, column, raced>>
        /\ events < MaxEvents /\ events' = events + 1 /\ (obf' = obf \/ obf' = TRUE)
    BY <1>4 DEF KeyArrives, Raise, mainVars, screenVars
  <2>2. obf' \in BOOLEAN
    BY <2>1, Zenon DEF Values
  <2>3. events' \in 0 .. MaxEvents
    BY <2>1, LinesAssumption DEF Values
  <2> QED BY <2>1, <2>2, <2>3 DEF Values
<1>5. CASE UNCHANGED vars
  BY <1>5 DEF vars, Values
<1> QED BY <1>1, <1>2, <1>3, <1>4, <1>5 DEF Next

LEMMA OneFrame ==
  ASSUME NEW h, NEW at, NEW k, NEW b, <<Frame(h, at)>> = <<Frame(k, b)>>
  PROVE  h = k /\ at = b
<1>1. Frame(h, at) = Frame(k, b)
  OBVIOUS
<1> QED BY <1>1, FrameEq

LEMMA NoFrame ==
  ASSUME NEW f PROVE <<f>> # <<>>
OBVIOUS

\* Only the delivery of the timer's line starts its handler.
LEMMA NextEdges ==
  ASSUME IInv, IInv', Values, Edges, [Next]_vars
  PROVE  Edges'
<1>0. TICKS \in Nat /\ events \in Nat /\ TICKS + One(0 \in irr) + One(Ticking) <= events + 1
  BY LinesAssumption DEF Edges, Values
<1>1. /\ One(0 \in irr) \in {0, 1} /\ One(Ticking) \in {0, 1}
      /\ One(0 \in irr') \in {0, 1} /\ One(Ticking') \in {0, 1}
  BY Zenon DEF One
<1>2. /\ (0 \in irr' => 0 \in irr) => One(0 \in irr') <= One(0 \in irr)
      /\ (Ticking' => Ticking) => One(Ticking') <= One(Ticking)
  BY DEF One
<1>3. ASSUME TICKS' = TICKS, events' = events \/ events' = events + 1,
             0 \in irr' => 0 \in irr, Ticking' => Ticking
      PROVE  Edges'
  BY <1>0, <1>1, <1>2, <1>3 DEF Edges
<1>4. Ticking' => 0 \in isr'
  <2>1. SUFFICES ASSUME stack' = <<Frame("timer", "start")>> PROVE 0 \in isr'
    BY DEF Ticking
  <2>2. stack' # <<>> /\ \A h, at : stack' = <<Frame(h, at)>> => h = "timer" /\ at = "start"
    BY <2>1, OneFrame, NoFrame
  <2> QED BY <2>2 DEF IInv, Serving, InTimer, InKeyboard, InMissing
<1>5. CASE MainStep
  <2>1. stack' = stack /\ TICKS' = TICKS /\ events' = events /\ irr' \subseteq irr
    BY <1>5 DEF MainStep, MainGreetsSerial, MainCallsPrint, MainFails, ColumnLost, MainPrints, InitPic,
                pic_init, SetHandlers, Update, Sti, picVars
  <2> QED BY <1>3, <2>1 DEF Ticking
<1>6. CASE TimerTicks
  <2>1. /\ TICKS' = TICKS + 1 /\ UNCHANGED <<events, irr>> /\ GoOn("eoi") /\ stack # <<>>
        /\ At("timer", "start")
    BY <1>6 DEF TimerTicks, At, picVars
  <2>2. stack = <<Frame("timer", "start")>>
    BY <2>1, WhenHandling, AtTop DEF InTimer, InKeyboard, InMissing
  <2>3. stack' = <<Frame("timer", "eoi")>>
    BY <2>1, <2>2, GoOnTop
  <2>4. Ticking /\ ~Ticking'
    BY <2>2, <2>3, OneFrame DEF Ticking
  <2>5. One(Ticking) = 1 /\ One(Ticking') = 0
    BY <2>4, Zenon DEF One
  <2> QED BY <1>0, <1>1, <2>1, <2>5 DEF Edges
<1>7. CASE EndOfInterrupt
  <2>1. 0 \notin isr'
    BY <1>7, EoiIsOwn
  <2> QED BY <1>3, <1>4, <1>7, <2>1 DEF EndOfInterrupt
<1>8. CASE KeyboardReads \/ ExceptionEntered \/ HandlerCallsPrint \/ HandlerPrints \/ Iret
  <2>1. UNCHANGED <<TICKS, events, irr, isr>> /\ stack # <<>>
    BY <1>8 DEF KeyboardReads, ExceptionEntered, HandlerCallsPrint, HandlerPrints, Iret, At, picVars
  <2>2. ~InTimer \/ 0 \notin isr
    <3>1. SUFFICES ASSUME NEW at \in {"start", "eoi"}, stack = <<Frame("timer", at)>> PROVE FALSE
      BY DEF InTimer
    <3>2. stack[Depth].h = "timer" /\ stack[Depth].at = at
      BY <3>1, TopOfStack
    <3> QED BY <1>8, <3>1, <3>2 DEF KeyboardReads, ExceptionEntered, HandlerCallsPrint,
                                    HandlerPrints, Iret, At
  <2>3. 0 \notin isr
    BY <2>1, <2>2, WhenHandling DEF InKeyboard, InMissing
  <2> QED BY <1>3, <1>4, <2>1, <2>3
<1>9. CASE Interrupt
  <2> DEFINE l == Min(Deliverable)
  <2>1. /\ eflags_if /\ Deliverable # {} /\ irr' = irr \ {l} /\ isr' = isr \cup {l}
        /\ UNCHANGED <<TICKS, events>>
    BY <1>9 DEF Interrupt
  <2>2. l \in irr
    <3>1. Deliverable \in SUBSET (0 .. 6)
      BY DEF Deliverable, IInv, LinesOK
    <3>2. l \in Deliverable
      BY <2>1, <3>1, MinOfLines
    <3> QED BY <3>2 DEF Deliverable
  <2> HIDE DEF l
  <2>3. 0 \notin isr
    BY <2>1, WhenEnabled
  <2>4. CASE l = 0
    <3>1. One(0 \in irr) = 1 /\ One(0 \in irr') = 0
      BY <2>1, <2>2, <2>4 DEF One
    <3>2. ~Ticking
      BY <2>1, WhenEnabled, NoFrame DEF Ticking
    <3>3. One(Ticking) = 0
      BY <3>2, Zenon DEF One
    <3> QED BY <1>0, <1>1, <2>1, <3>1, <3>3 DEF Edges
  <2>5. CASE l # 0
    BY <1>3, <1>4, <2>1, <2>3, <2>5
  <2> QED BY <2>4, <2>5
<1>10. CASE SpuriousInterrupt
  <2>1. eflags_if /\ UNCHANGED <<TICKS, irr, isr>> /\ events' = events + 1
    BY <1>10 DEF SpuriousInterrupt, picVars
  <2>2. 0 \notin isr
    BY <2>1, WhenEnabled
  <2> QED BY <1>3, <1>4, <2>1, <2>2
<1>11. CASE KeyArrives \/ \E l \in OtherLines \cup {TIMER} : Raise(l)
  <2>1. UNCHANGED <<TICKS, stack>> /\ events' = events + 1
    BY <1>11 DEF KeyArrives, Raise
  <2>2. One(Ticking') = One(Ticking)
    BY <2>1 DEF Ticking
  <2> QED BY <1>0, <1>1, <2>1, <2>2 DEF Edges
<1>12. CASE UNCHANGED vars
  BY <1>3, <1>12 DEF vars, Ticking
<1> QED BY <1>5, <1>6, <1>7, <1>8, <1>9, <1>10, <1>11, <1>12 DEF Next, HandlerStep

\* The state of the kernel is always well formed; in particular no edge of the
\* timer's line is counted twice.
THEOREM KernelTypes == Spec => []TypeOK
<1>1. Init => Values /\ Edges
  <2> SUFFICES ASSUME Init PROVE Values /\ Edges
    OBVIOUS
  <2>1. Values
    <3>1. /\ eflags_if \in BOOLEAN /\ idtr \in BOOLEAN /\ obf \in BOOLEAN /\ stranded \in BOOLEAN
          /\ idt = NoHandlers /\ imr \subseteq OtherLines /\ base = 8
          /\ column = "on" /\ raced \in BOOLEAN
      BY Zenon DEF Init
    <3>2. lines <= Regions + 3 /\ events \in 0 .. MaxEvents
      BY LinesAssumption DEF Init
    <3> QED BY <3>1, <3>2 DEF Values
  <2>2. stack = <<>> /\ TICKS = 0 /\ events = 0
    BY DEF Init
  <2>3. ~Ticking
    BY <2>2, NoFrame DEF Ticking
  <2>4. One(Ticking) = 0 /\ One(0 \in irr) \in {0, 1}
    BY <2>3, Zenon DEF One
  <2> QED BY <2>1, <2>2, <2>4 DEF Edges
<1>2. IInv /\ Values /\ Edges /\ [Next]_vars => Values' /\ Edges'
  BY NextIInv, NextValues, NextEdges
<1>3. IInv /\ VgaInv /\ PanicInv /\ Values /\ Edges => TypeOK
  <2> SUFFICES ASSUME IInv, VgaInv, PanicInv, Values, Edges PROVE TypeOK
    OBVIOUS
  <2>1. DOMAIN idt \subseteq 0 .. 255
    <3>1. DOMAIN NoHandlers = {}
      BY DEF NoHandlers
    <3>2. idt = NoHandlers \/ idt = Table
      BY Zenon DEF Values
    <3>3. DOMAIN Table \subseteq 0 .. 255
      BY TableIs
    <3> QED BY <3>1, <3>2, <3>3, Zenon
  <2>2. TICKS \in 0 .. events + 1
    <3>1. One(Ticking) \in {0, 1} /\ One(0 \in irr) \in {0, 1}
      BY Zenon DEF One
    <3> QED BY <3>1 DEF Edges, Values
  <2>3. /\ stack \in Seq([h : {"timer", "keyboard", "breakpoint", "double_fault",
                               "segment_not_present", "page_fault"},
                          at : {"start", "print", "printing", "edit", "editing", "panic",
                                "panicking", "eoi", "iret"}])
        /\ Len(stack) <= MaxDepth
    <3>1. CASE stack = <<>>
      BY <3>1, EmptyStack, LinesAssumption
    <3>2. CASE stack # <<>>
      <4>1. PICK h \in {"timer", "keyboard", "segment_not_present"},
                 at \in KeyboardAts :
              stack = <<Frame(h, at)>>
        BY <3>2, WhenHandling DEF InTimer, InKeyboard, InMissing, KeyboardAts, MissingAts
      <4> QED BY <4>1, TopOfStack, LinesAssumption DEF Frame, KeyboardAts
    <3> QED BY <3>1, <3>2
  <2>4. /\ lines \in 0 .. Regions + 3 /\ base \in 0 .. 248
        /\ irr \subseteq 0 .. 7 /\ isr \subseteq 0 .. 7 /\ imr \subseteq 0 .. 7
    BY LinesAssumption DEF IInv, Printing, LinesOK, Values
  <2>5. /\ stage \in {"serial", "hello", "pic", "idt", "lidt", "sti", "run", "idle", "panic", "dead"}
        /\ cpu \in {"running", "halted", "reset"} /\ VGA_BUFFER!TypeOK
    BY DEF IInv, Booting, Up, PanicInv, VgaInv
  <2>6. /\ eflags_if \in BOOLEAN /\ idtr \in BOOLEAN /\ obf \in BOOLEAN /\ stranded \in BOOLEAN
        /\ column \in {"on", "lost", "off"} /\ raced \in BOOLEAN /\ events \in 0 .. MaxEvents
    BY Zenon DEF Values
  <2>7. /\ culprits \subseteq {"scancode", "index", "overflow", "unwrap", "fault"} \X (0 .. 255)
        /\ room \in 0 .. PanicRoom
    BY DEF PanicInv, Known, Zero, Lost
  <2> QED BY <2>1, <2>2, <2>3, <2>4, <2>5, <2>6, <2>7, Zenon DEF TypeOK
<1> QED BY <1>1, <1>2, <1>3, InitVga, NextVga, InitPanicInv, NextPanicInv, Invariance, PTL DEF Spec
=============================================================================
