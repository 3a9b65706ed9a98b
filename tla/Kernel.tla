------------------------------- MODULE Kernel -------------------------------
(***************************************************************************)
(* The kernel at work: main (kernel/src/main.rs) brings the machine up and *)
(* then prints and halts, while the 8259A interrupt controller delivers the*)
(* lines of timer, keyboard and the devices nobody has a handler for.      *)
(*                                                                         *)
(* There is one CPU.  An interrupt suspends the running context until the  *)
(* handler's iret, so contexts are numbered by nesting depth: 0 is main, 1 *)
(* the handler that interrupted it.  All of them print through VGA_BUFFER, *)
(* whose Singleton is composed in: a context that finds the cell           *)
(* SINGLE_INITING spins, and a handler that spins on the context it has    *)
(* interrupted would never end.                                            *)
(*                                                                         *)
(* The controller is modelled from how it is programmed: fully nested      *)
(* priorities, edge triggered, non-specific EOI.  irr, isr and imr are the *)
(* sets of requested, in-service and masked lines of the master.           *)
(*                                                                         *)
(* A print is one use of the cell.  What Vga shows of the characters inside*)
(* it is kept as the state of the column: a handler that prints between the*)
(* test and the increment of main's putc may leave col_pos off the screen, *)
(* and then the next character indexes the row out of bounds.  A panic     *)
(* prints its message through the same cell, and panics again while the    *)
(* column is off.                                                          *)
(***************************************************************************)
EXTENDS Descriptors, FiniteSetsExt

CONSTANTS
  OtherLines,  \* lines of the master with a device but no handler
  Scancodes,   \* bytes the keyboard may send
  Regions,     \* the length of the memory layout, which main prints
  BootBytes,   \* the values the state byte of VGA_BUFFER may hold at the start
  PanicRoom,   \* the nested panics that the boot stack has room for
  MaxEvents,   \* bound: edges and spurious interrupts in a behaviour
  MaxDepth     \* bound: nesting of handlers (never met: HandlersDoNotNest)

TIMER == 0
KEYBOARD == 1
SPURIOUS == 7

\* A state byte that happens to be 1 or 2 stops main in its first print or lets
\* it print through data nobody has filled, see Singleton; the kernel that gets
\* any further has started from another.
ASSUME LinesAssumption ==
  /\ OtherLines \subseteq 2 .. 6 /\ Scancodes \subseteq 0 .. 255
  /\ Regions \in Nat
  /\ BootBytes \subseteq (0 .. 255) \ {1, 2}
  /\ PanicRoom \in Nat /\ PanicRoom >= 2
  /\ MaxEvents \in Nat
  /\ MaxDepth \in Nat \ {0}

VARIABLES
  stage,    \* how far main has come
  eflags_if, \* the interrupt flag
  idtr,     \* lidt has been executed
  lines,    \* the lines that main has still to print in this stage
  idt,      \* INTR_TABLE: vector -> entry, for the entries that main has set
  irr, isr, imr, base,  \* the master 8259A; base is the vector of line 0
  obf,      \* the keyboard controller's output buffer is full
  stranded, \* ghost: pic_init dropped the edge of a byte still in the buffer
  stack,    \* the handlers that run, outermost first: [h, at]
  column,   \* col_pos: "on" the screen, "lost" in main's print, or "off" it
  raced,    \* ghost: a handler has printed inside main's print
  culprits, \* ghost: the causes of the panics so far
  room,     \* the nested panics that the stack has still room for
  TICKS,
  cpu,      \* "running", "halted" in the panic loop, or "reset"
  events,   \* edges and spurious interrupts so far
  vga_inited, vga_data, vga_pc, vga_boot  \* the Singleton VGA_BUFFER

mainVars == <<stage, lines, idtr, idt>>
picVars == <<irr, isr, imr, base>>
screenVars == <<column, raced>>
panicVars == <<culprits, room>>
vgaVars == <<vga_inited, vga_data, vga_pc, vga_boot>>
vars == <<stage, lines, eflags_if, idtr, idt, irr, isr, imr, base, obf, stranded,
          stack, column, raced, culprits, room, TICKS, cpu, events,
          vga_inited, vga_data, vga_pc, vga_boot>>

Contexts == 0 .. MaxDepth
VGA_BUFFER == INSTANCE Singleton WITH
  inited <- vga_inited, data <- vga_data, pc <- vga_pc, boot <- vga_boot

\* InterruptDescriptorTable::new: every entry is the default one.
NoHandlers == <<>>

\* The BIOS leaves the lines at vectors 8..15; the loader has executed cli.
Init_NoGreeting ==
  /\ stage = "pic" /\ lines = 0 /\ eflags_if = FALSE /\ idtr = FALSE /\ idt = NoHandlers
  /\ irr = {} /\ isr = {} /\ imr = {} /\ base = 8
  /\ obf = FALSE /\ stranded = FALSE
  /\ stack = <<>> /\ column = "on" /\ raced = FALSE /\ culprits = {} /\ room = PanicRoom
  /\ TICKS = 0 /\ cpu = "running" /\ events = 0
  /\ VGA_BUFFER!Init
Init ==
  /\ stage = "serial" /\ lines = 3 /\ eflags_if = FALSE /\ idtr = FALSE /\ idt = NoHandlers
  /\ irr \in SUBSET {TIMER} /\ isr = {} /\ imr \in {{}, OtherLines}
  /\ base = 8
  /\ obf = FALSE /\ stranded = FALSE
  /\ stack = <<>> /\ column = "on" /\ raced = FALSE /\ culprits = {} /\ room = PanicRoom
  /\ TICKS = 0 /\ cpu = "running" /\ events = 0
  /\ VGA_BUFFER!Init

----------------------------------------------------------------------------
(* main.                                                                   *)

InMain == cpu = "running" /\ stack = <<>>

\* serial_println; that it ends is Serial's SendsEnd.
MainGreetsSerial ==
  /\ InMain /\ stage = "serial"
  /\ stage' = "hello"
  /\ UNCHANGED <<lines, eflags_if, idtr, idt, picVars, obf, stranded, stack, screenVars, panicVars,
                 TICKS, cpu, events, vgaVars>>

\* A panic of main: the panic handler starts, with one message to print, and
\* then to send over the serial port, which ends as in MainGreetsSerial.  It
\* runs on the stack of the code that called it, and panics that recur run
\* down this stack into pages that are not mapped, where no exception can be
\* delivered either.
MainPanics(why) ==
  /\ culprits' = culprits \cup {why}
  /\ IF room > 0
       THEN stage' = "panic" /\ lines' = 1 /\ room' = room - 1 /\ UNCHANGED cpu
       ELSE cpu' = "reset" /\ UNCHANGED <<stage, lines, room>>

\* println: three greetings come before the PIC is touched, the memory layout,
\* the stack page and the address of the Box after sti, and the message of a
\* panic whenever there is one.
MainCallsPrint ==
  /\ InMain /\ stage \in {"hello", "run", "panic"}
  /\ lines > 0
  /\ VGA_BUFFER!Call(0)
  /\ UNCHANGED <<mainVars, eflags_if, picVars, obf, stranded, stack, screenVars, panicVars,
                 TICKS, cpu, events>>

\* What main computes for the last line of a stage may panic instead: the sum
\* of available_mem_size overflows, or no page is left for the Box.  Boot has
\* the memory maps for which this happens.
MainFails ==
  /\ InMain /\ lines = 1 /\ vga_pc[0] = "idle"
  /\ \/ stage = "hello" /\ MainPanics(<<"overflow", 0>>)
     \/ stage = "run" /\ MainPanics(<<"unwrap", 0>>)
  /\ UNCHANGED <<eflags_if, idtr, idt, picVars, obf, stranded, stack, screenVars, TICKS, events,
                 vgaVars>>

\* A handler printed where main's putc works on col_pos, and what main then
\* writes or has in a register is off the screen: Vga shows how, and that
\* nothing else does it.
ColumnLost ==
  /\ InMain /\ vga_pc[0] = "use" /\ raced
  /\ column' = "lost" /\ raced' = FALSE
  /\ UNCHANGED <<mainVars, eflags_if, picVars, obf, stranded, stack, panicVars, TICKS, cpu, events,
                 vgaVars>>

\* A line ends with a new_line, which brings the column back.  After a lost
\* column any other character comes too late: it is out of the row's bounds.
MainPrints ==
  /\ InMain
  /\ VGA_BUFFER!Step(0)
  /\ \/ vga_pc'[0] # "idle" /\ UNCHANGED <<stage, lines, screenVars, panicVars, cpu>>
     \/ /\ vga_pc'[0] = "idle" /\ column # "off"
        /\ lines' = lines - 1
        /\ stage' = CASE lines' > 0 -> stage
                      [] lines' = 0 /\ stage = "hello" -> "pic"
                      [] lines' = 0 /\ stage = "run" -> "idle"
                      [] lines' = 0 /\ stage = "panic" -> "dead"
        /\ column' = "on" /\ raced' = FALSE
        /\ UNCHANGED <<panicVars, cpu>>
     \/ /\ vga_pc'[0] = "idle" /\ column # "on"
        /\ MainPanics(<<"index", 0>>)
        /\ column' = "off" /\ raced' = FALSE
  /\ UNCHANGED <<eflags_if, idtr, idt, picVars, obf, stranded, stack, TICKS, events>>

\* ICW1 clears the requests and the mask and restarts the edge detection, so
\* a line that is already high must fall before it is seen again.
pic_init_NoRemap ==
  /\ irr' = {} /\ isr' = {} /\ imr' = {} /\ base' = base
pic_init ==
  /\ irr' = {} /\ isr' = {} /\ imr' = {} /\ base' = 32

\* pic_init(); pit_configure_channel(0, 2, TIMER_FREQ)
InitPic ==
  /\ InMain /\ stage = "pic"
  /\ pic_init
  /\ stranded' = obf
  /\ stage' = "idt"
  /\ UNCHANGED <<lines, eflags_if, idtr, idt, obf, stack, screenVars, panicVars, TICKS, cpu, events, vgaVars>>

\* The entries to which main gives handlers, by field or by index.
Entries == [breakpoint |-> <<"breakpoint", 0>>, page_fault |-> <<"page_fault", 0>>,
            double_fault |-> <<"double_fault", 0>>,
            segment_not_present |-> <<"segment_not_present", 0>>,
            timer |-> index(32), keyboard |-> index(33)]
Place(h) == Vector(Entries[h][1], Entries[h][2])

\* main's calls of set_handle_fn, which comes down to set_handle_addr.  The
\* address of a handler, in two halves of the entry, is the handler's name
\* here; Bits follows the halves.
SetHandlers ==
  /\ InMain /\ stage = "idt"
  /\ idt' = [v \in {Place(h) : h \in DOMAIN Entries} |->
               [handler |-> CHOOSE h \in DOMAIN Entries : Place(h) = v,
                options |-> set_handle_addr({}, {}).options]]
  /\ stage' = "lidt"
  /\ UNCHANGED <<lines, eflags_if, idtr, picVars, obf, stranded, stack, screenVars, panicVars, TICKS, cpu, events, vgaVars>>

Update ==
  /\ InMain /\ stage = "lidt"
  /\ idtr' = TRUE
  /\ stage' = "sti"
  /\ UNCHANGED <<lines, eflags_if, idt, picVars, obf, stranded, stack, screenVars, panicVars, TICKS, cpu, events, vgaVars>>

Sti ==
  /\ InMain /\ stage = "sti"
  /\ eflags_if' = TRUE
  /\ stage' = "run" /\ lines' = Regions + 2
  /\ UNCHANGED <<idtr, idt, picVars, obf, stranded, stack, screenVars, panicVars, TICKS, cpu, events, vgaVars>>

----------------------------------------------------------------------------
(* Devices, interrupt controller and CPU.                                  *)

\* A device raises its line.
Raise(l) ==
  /\ events < MaxEvents
  /\ events' = events + 1
  /\ irr' = irr \cup {l}
  /\ UNCHANGED <<mainVars, eflags_if, isr, imr, base, obf, stranded, stack, screenVars, panicVars, TICKS, cpu, vgaVars>>

\* The keyboard controller has a byte; its line stays high until it is read.
KeyArrives ==
  /\ ~obf
  /\ events < MaxEvents
  /\ events' = events + 1
  /\ obf' = TRUE
  /\ irr' = irr \cup {KEYBOARD}
  /\ UNCHANGED <<mainVars, eflags_if, isr, imr, base, stranded, stack, screenVars, panicVars, TICKS, cpu, vgaVars>>

\* The lines above every line in service.
Deliverable == {l \in irr \ imr : \A m \in isr : l < m}

\* What the CPU finds at a vector: bit 15 of the options is the present bit,
\* bit 8 tells a trap gate, which leaves the interrupt flag, from an interrupt
\* gate, which clears it.
Options(v) == IF v \in DOMAIN idt THEN idt[v].options ELSE entry_default.options
GatePresent(v) == 15 \in Options(v)
GateIsTrap(v) == 8 \in Options(v)

\* The CPU looks the vector up.  An entry that is not present raises vector
\* 11 instead, and without that vector 8; failing this too resets the machine.
Vectored(vector) ==
  LET usable == IF idtr THEN {v \in {vector, 11, 8} : GatePresent(v)} ELSE {}
      taken == IF vector \in usable THEN vector ELSE Max(usable)
  IN  IF usable = {}
        THEN cpu' = "reset" /\ UNCHANGED <<eflags_if, stack>>
        ELSE /\ stack' = Append(stack, [h |-> idt[taken].handler, at |-> "start"])
             /\ eflags_if' = GateIsTrap(taken)
             /\ UNCHANGED cpu

\* The slave's lines reach line 2 and bring the slave's vectors, 40 on.
VectorOf(l) == IF l = 2 THEN 40 ELSE base + l

Interrupt ==
  /\ cpu = "running" /\ eflags_if /\ Len(stack) < MaxDepth
  /\ Deliverable # {}
  /\ LET l == Min(Deliverable)
     IN  /\ irr' = irr \ {l}
         /\ isr' = isr \cup {l}
         /\ Vectored(VectorOf(l))
  /\ UNCHANGED <<mainVars, imr, base, obf, stranded, screenVars, panicVars, TICKS, events, vgaVars>>

\* A request that has gone when the CPU acknowledges it is answered with the
\* vector of line 7, and is not in service.
SpuriousInterrupt ==
  /\ cpu = "running" /\ eflags_if /\ Len(stack) < MaxDepth
  /\ events < MaxEvents
  /\ events' = events + 1
  /\ Vectored(base + SPURIOUS)
  /\ UNCHANGED <<mainVars, picVars, obf, stranded, screenVars, panicVars, TICKS, vgaVars>>

----------------------------------------------------------------------------
(* The handlers.                                                           *)

Depth == Len(stack)
At(h, at) == cpu = "running" /\ stack # <<>> /\ stack[Depth] = [h |-> h, at |-> at]
GoOn(at) == stack' = [stack EXCEPT ![Depth].at = at]

TimerTicks_Twice ==
  /\ At("timer", "start")
  /\ TICKS' = TICKS + 2
  /\ GoOn("eoi")
  /\ UNCHANGED <<mainVars, eflags_if, picVars, obf, stranded, screenVars, panicVars, cpu, events, vgaVars>>
TimerTicks_NoEoi ==
  /\ At("timer", "start")
  /\ TICKS' = TICKS + 1
  /\ GoOn("iret")
  /\ UNCHANGED <<mainVars, eflags_if, picVars, obf, stranded, screenVars, panicVars, cpu, events, vgaVars>>
TimerTicks ==
  /\ At("timer", "start")
  /\ TICKS' = TICKS + 1
  /\ GoOn("eoi")
  /\ UNCHANGED <<mainVars, eflags_if, picVars, obf, stranded, screenVars, panicVars, cpu, events, vgaVars>>

\* A panic of a handler: the panic handler starts in its place, with the
\* interrupt flag still cleared.
HandlerPanics(why) ==
  /\ culprits' = culprits \cup {why}
  /\ IF room > 0
       THEN GoOn("panic") /\ room' = room - 1 /\ UNCHANGED cpu
       ELSE cpu' = "reset" /\ UNCHANGED <<stack, room>>

\* The arrays of scancode_to_char are indexed with checks.
Indexed(length, i) == IF i < length THEN "glyph" ELSE "panic"

\* A glyph, a newline or backspace, which edit the line, nothing for the
\* release of a key, or the panic of 0x00.  Which glyph makes no difference.
scancode_to_char(code) ==
  CASE code = 0 -> "panic"
    [] code \in 16 .. 25 -> Indexed(10, code - 16)
    [] code \in {14, 28} -> "edit"
    [] code \in 30 .. 38 -> Indexed(9, code - 30)
    [] code \in 44 .. 50 -> Indexed(7, code - 44)
    [] code >= 128 -> "none"
    [] OTHER -> "glyph"

\* inb(0x60), and what follows it: the print, the EOI or the panic handler.
KeyboardReads_EarlyReturn ==
  /\ At("keyboard", "start")
  /\ obf' = FALSE
  /\ GoOn("print") \/ GoOn("edit") \/ GoOn("iret")
  /\ UNCHANGED <<mainVars, eflags_if, picVars, stranded, screenVars, panicVars, TICKS, cpu, events,
                 vgaVars>>
KeyboardReads ==
  /\ At("keyboard", "start")
  /\ obf' = FALSE
  /\ \E code \in Scancodes :
       LET ch == scancode_to_char(code)
       IN  IF ch = "panic"
             THEN HandlerPanics(<<"scancode", code>>)
             ELSE /\ GoOn(CASE ch = "glyph" -> "print" [] ch = "edit" -> "edit" [] ch = "none" -> "eoi")
                  /\ UNCHANGED <<panicVars, cpu>>
  /\ UNCHANGED <<mainVars, eflags_if, picVars, stranded, screenVars, TICKS, events, vgaVars>>

\* The exception handlers only print.
ExceptionEntered ==
  /\ \E h \in {"breakpoint", "double_fault", "segment_not_present", "page_fault"} :
       At(h, "start")
  /\ GoOn("print")
  /\ UNCHANGED <<mainVars, eflags_if, picVars, obf, stranded, screenVars, panicVars, TICKS, cpu, events, vgaVars>>

\* The print of a handler, or the message of the panic handler it ended in.
HandlerCallsPrint ==
  /\ cpu = "running" /\ stack # <<>>
  /\ \/ stack[Depth].at = "print" /\ GoOn("printing")
     \/ stack[Depth].at = "edit" /\ GoOn("editing")
     \/ stack[Depth].at = "panic" /\ GoOn("panicking")
  /\ VGA_BUFFER!Call(Depth)
  /\ UNCHANGED <<mainVars, eflags_if, picVars, obf, stranded, screenVars, panicVars, TICKS, cpu, events>>

\* What follows the print: the EOI of the keyboard handler, the panic of the
\* double fault handler, the return of the others; after the message of the
\* panic handler, its endless loop.
AfterPrint(h, at) ==
  CASE at = "panicking" -> cpu' = "halted" /\ UNCHANGED <<stack, panicVars>>
    [] at # "panicking" /\ h = "double_fault" -> HandlerPanics(<<"fault", 0>>)
    [] OTHER -> GoOn(IF h = "keyboard" THEN "eoi" ELSE "iret") /\ UNCHANGED <<cpu, panicVars>>

\* putc of anything but newline and backspace indexes the row at col_pos.
HandlerPrints ==
  /\ cpu = "running" /\ stack # <<>> /\ stack[Depth].at \in {"printing", "editing", "panicking"}
  /\ VGA_BUFFER!Step(Depth)
  /\ \/ vga_pc'[Depth] # "idle" /\ UNCHANGED <<stack, cpu, screenVars, panicVars>>
     \/ /\ vga_pc'[Depth] = "idle" /\ column # "on" /\ stack[Depth].at # "editing"
        /\ HandlerPanics(<<"index", 0>>)
        /\ UNCHANGED screenVars
     \/ /\ vga_pc'[Depth] = "idle" /\ (column = "on" \/ stack[Depth].at = "editing")
        /\ column' = "on"
        /\ raced' = (vga_pc[0] = "use")
        /\ AfterPrint(stack[Depth].h, stack[Depth].at)
  /\ UNCHANGED <<mainVars, eflags_if, picVars, obf, stranded, TICKS, events>>

\* end_of_interrupt: the non-specific EOI retires the highest line in service.
Highest(ls) == IF ls = {} THEN {} ELSE {Min(ls)}

EndOfInterrupt_Twice ==
  /\ At("timer", "eoi") \/ At("keyboard", "eoi")
  /\ isr' = (isr \ Highest(isr)) \ Highest(isr \ Highest(isr))
  /\ GoOn("iret")
  /\ UNCHANGED <<mainVars, eflags_if, irr, imr, base, obf, stranded, screenVars, panicVars, TICKS, cpu, events, vgaVars>>
EndOfInterrupt ==
  /\ At("timer", "eoi") \/ At("keyboard", "eoi")
  /\ isr' = isr \ Highest(isr)
  /\ GoOn("iret")
  /\ UNCHANGED <<mainVars, eflags_if, irr, imr, base, obf, stranded, screenVars, panicVars, TICKS, cpu, events, vgaVars>>

\* iret restores the flags of the interrupted context, which had it set.
Iret ==
  /\ cpu = "running" /\ stack # <<>> /\ stack[Depth].at = "iret"
  /\ stack' = SubSeq(stack, 1, Depth - 1)
  /\ eflags_if' = TRUE
  /\ UNCHANGED <<mainVars, picVars, obf, stranded, screenVars, panicVars, TICKS, cpu, events, vgaVars>>

MainStep == MainGreetsSerial \/ MainCallsPrint \/ MainFails \/ ColumnLost \/ MainPrints \/ InitPic \/ SetHandlers \/ Update \/ Sti
HandlerStep == TimerTicks \/ KeyboardReads \/ ExceptionEntered
               \/ HandlerCallsPrint \/ HandlerPrints \/ EndOfInterrupt \/ Iret

Next ==
  \/ MainStep
  \/ HandlerStep
  \/ Interrupt
  \/ SpuriousInterrupt
  \/ \E l \in OtherLines \cup {TIMER} : Raise(l)
  \/ KeyArrives

\* The CPU executes instructions, and acknowledges a request before the next
\* one; devices owe nothing.
Spec == Init /\ [][Next]_vars
        /\ WF_vars(MainStep) /\ WF_vars(HandlerStep) /\ WF_vars(Interrupt)

----------------------------------------------------------------------------
(* Properties.                                                             *)

\* Type invariant; in particular TICKS never runs ahead of the edges of the
\* timer line, of which one may be pending at boot.
TypeOK ==
  /\ stage \in {"serial", "hello", "pic", "idt", "lidt", "sti", "run", "idle", "panic", "dead"}
  /\ eflags_if \in BOOLEAN /\ idtr \in BOOLEAN
  /\ lines \in 0 .. Regions + 3 /\ DOMAIN idt \subseteq 0 .. 255
  /\ irr \subseteq 0 .. 7 /\ isr \subseteq 0 .. 7 /\ imr \subseteq 0 .. 7
  /\ base \in 0 .. 248
  /\ obf \in BOOLEAN /\ stranded \in BOOLEAN
  /\ column \in {"on", "lost", "off"} /\ raced \in BOOLEAN
  /\ culprits \subseteq {"scancode", "index", "overflow", "unwrap", "fault"} \X (0 .. 255)
  /\ room \in 0 .. PanicRoom
  /\ stack \in Seq([h : {"timer", "keyboard", "breakpoint", "double_fault",
                         "segment_not_present", "page_fault"},
                    at : {"start", "print", "printing", "edit", "editing", "panic",
                          "panicking", "eoi", "iret"}])
  /\ Len(stack) <= MaxDepth
  /\ TICKS \in 0 .. events + 1 /\ events \in 0 .. MaxEvents
  /\ cpu \in {"running", "halted", "reset"}
  /\ VGA_BUFFER!TypeOK

\* Whatever lines fire and whenever, no line is taken for an exception, for
\* main remaps, fills the table, executes lidt and then sti.  Every panic has
\* one of four causes: scancode 0x00, a memory map whose sizes overflow, no
\* page for the Box, or a column that a key has moved off the screen inside a
\* print of main.  Only the last can start panics over panics, and reset the
\* machine.
PanicsExplained ==
  /\ \A d \in DOMAIN stack : stack[d].h \in {"timer", "keyboard", "segment_not_present"}
  /\ culprits \subseteq {<<"scancode", 0>>, <<"overflow", 0>>, <<"unwrap", 0>>, <<"index", 0>>}
  /\ cpu = "halted" => culprits \cap {<<"scancode", 0>>, <<"index", 0>>} # {}
  /\ cpu = "reset" => <<"index", 0>> \in culprits

\* Handlers run one at a time, on a stack of a few kilobytes: the entries are
\* interrupt gates, and the EOI is sent with interrupts still disabled.
HandlersDoNotNest == Len(stack) <= 1

\* Timer and keyboard are in service exactly from their delivery to the EOI
\* of their handler, so neither ever blocks itself for good.
InServiceIsHandled ==
  eflags_if \/ stack # <<>> =>
    \A h \in {"timer", "keyboard"} :
      (IF h = "timer" THEN TIMER ELSE KEYBOARD) \in isr
      <=> \E d \in DOMAIN stack : stack[d].h = h /\ stack[d].at # "iret"

\* The non-specific EOI retires the line whose handler sends it, although
\* lines nobody acknowledges stay in service for ever.
EoiRetiresOwnLine ==
  [][EndOfInterrupt =>
       isr \ isr' = {IF stack[Depth].h = "timer" THEN TIMER ELSE KEYBOARD}]_vars

\* A timer interrupt that is pending while interrupts are enabled is served,
\* however many unacknowledged lines are in service.
TimerServed ==
  TIMER \in irr /\ eflags_if ~> TIMER \notin irr \/ cpu # "running"

\* A byte of the keyboard is read, unless its edge fell before pic_init, or
\* main ended in a panic before sti.
KeyServed ==
  obf ~> ~obf \/ stranded \/ cpu # "running" \/ (stage = "dead" /\ ~eflags_if /\ stack = <<>>)

\* Every handler returns: none waits for VGA_BUFFER to be initialised by the
\* context it has interrupted.
HandlersReturn == stack # <<>> ~> stack = <<>> \/ cpu # "running"

\* main comes through its whole start-up, with all its prints, to the hlt loop
\* or that of the panic handler, whatever interrupts it between sti and there.
MainComesToRest == <>(stage \in {"idle", "dead"} \/ cpu # "running")
=============================================================================
