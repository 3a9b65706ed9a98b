------------------------------- MODULE Serial -------------------------------
(***************************************************************************)
(* SerialPort of kernel/src/io/serial.rs and the 16550 UART behind it:     *)
(* init programs the registers in a fixed order; send, send_raw and receive*)
(* poll the line status before each byte.  send turns a backspace or del   *)
(* into three bytes.                                                       *)
(*                                                                         *)
(* The UART is modelled from its use: two registers share their ports with *)
(* the divisor latch while DLAB is set, and a byte that meets a full FIFO, *)
(* written or arriving, is lost.                                           *)
(***************************************************************************)
EXTENDS Integers, Sequences

CONSTANTS
  Bytes,     \* the bytes printed
  FifoSize,  \* the depth of the FIFOs: 16
  MaxBytes,  \* bound: bytes printed in a behaviour
  MaxArrivals \* bound: bytes that arrive in a behaviour

ASSUME SerialAssumption ==
  /\ Bytes \subseteq 0 .. 255
  /\ FifoSize \in Nat \ {0} /\ MaxBytes \in Nat /\ MaxArrivals \in Nat

VARIABLES
  pc,       \* the next write of init
  uart,     \* the registers: dlab, bits, dll, dlm, ier, fifo, mcr
  thr,      \* the transmit FIFO
  wire,     \* what has left the UART since init
  pending,  \* the bytes that the running send has still to write
  polled,   \* the running send has seen OUTPUT_EMPTY and not yet written
  printed,  \* ghost: what must appear on the wire, in order
  rbr,      \* the receive FIFO
  receiving, \* a call of receive is "polling", has seen INPUT_FULL ("full"), or "no"
  received, \* what calls of receive have returned
  arrived,  \* ghost: what has arrived since init cleared the FIFO
  overrun   \* ghost: a byte of it found the FIFO full

sendVars == <<thr, wire, pending, polled, printed>>
receiveVars == <<rbr, receiving, received, arrived, overrun>>
vars == <<pc, uart, sendVars, receiveVars>>

\* The port writes of SerialPort::init.
init_writes_DlabLeftSet == <<
  <<"int_en", 0>>, <<"line_ctrl", 128>>, <<"data", 3>>, <<"int_en", 0>>,
  <<"line_ctrl", 131>>, <<"fifo_ctrl", 199>>, <<"modem_ctrl", 11>>, <<"int_en", 1>> >>
init_writes == <<
  <<"int_en", 0>>, <<"line_ctrl", 128>>, <<"data", 3>>, <<"int_en", 0>>,
  <<"line_ctrl", 3>>, <<"fifo_ctrl", 199>>, <<"modem_ctrl", 11>>, <<"int_en", 1>> >>

Ready == pc > Len(init_writes)
BiosByte == 0

\* The state the BIOS leaves: any word length, speed and latch bit, and
\* perhaps a byte under way.
Init ==
  /\ pc = 1
  /\ uart \in [dlab : BOOLEAN, bits : {0, 3}, dll : {1}, dlm : {0, 1}, ier : {0, 1},
               fifo : {0}, mcr : {0}]
  /\ thr \in {<<>>, <<BiosByte>>}
  /\ wire = <<>> /\ pending = <<>> /\ polled = FALSE /\ printed = <<>>
  /\ rbr \in {<<>>, <<BiosByte>>} /\ receiving = "no" /\ received = <<>>
  /\ arrived = <<>> /\ overrun = FALSE

\* outb to a port of the UART: the registers, and the FIFOs, which the value
\* 0xc7 for fifo_ctrl empties.
outb(port, val) ==
  /\ uart' = CASE port = "data" /\ uart.dlab -> [uart EXCEPT !.dll = val]
               [] port = "int_en" /\ uart.dlab -> [uart EXCEPT !.dlm = val]
               [] port = "int_en" /\ ~uart.dlab -> [uart EXCEPT !.ier = val]
               [] port = "line_ctrl" -> [uart EXCEPT !.dlab = val >= 128, !.bits = val % 128]
               [] port = "fifo_ctrl" -> [uart EXCEPT !.fifo = val]
               [] port = "modem_ctrl" -> [uart EXCEPT !.mcr = val]
               [] OTHER -> uart
  /\ thr' = CASE port = "data" /\ ~uart.dlab ->
                   IF Len(thr) < FifoSize THEN Append(thr, val) ELSE thr
              [] port = "fifo_ctrl" -> <<>>
              [] OTHER -> thr
  /\ IF port = "fifo_ctrl"
       THEN rbr' = <<>> /\ arrived' = <<>> /\ overrun' = FALSE
       ELSE UNCHANGED <<rbr, arrived, overrun>>

\* SerialPort::init, inside the first SERIAL_IO.get_mut().
InitWrite ==
  /\ pc \in DOMAIN init_writes
  /\ outb(init_writes[pc][1], init_writes[pc][2])
  /\ pc' = pc + 1
  /\ UNCHANGED <<wire, pending, polled, printed, receiving, received>>

\* Calls come from one context, one after the other.
Idle == Ready /\ pending = <<>> /\ receiving = "no"

\* The bytes that send writes for one byte of the string.
Expansion(b) == IF b \in {8, 127} THEN <<8, 32, 8>> ELSE <<b>>

\* write_str passes the next byte to send.
Send(b) ==
  /\ Idle /\ Len(printed) < MaxBytes
  /\ pending' = Expansion(b)
  /\ printed' = printed \o Expansion(b)
  /\ UNCHANGED <<pc, uart, thr, wire, polled, receiveVars>>

\* send_raw passes the byte on as it is.
SendRaw(b) ==
  /\ Idle /\ Len(printed) < MaxBytes
  /\ pending' = <<b>>
  /\ printed' = Append(printed, b)
  /\ UNCHANGED <<pc, uart, thr, wire, polled, receiveVars>>

\* wait_for! ends: the line status shows OUTPUT_EMPTY.
SeesEmpty_AnyTime ==
  /\ pending # <<>> /\ ~polled
  /\ polled' = TRUE
  /\ UNCHANGED <<pc, uart, thr, wire, pending, printed, receiveVars>>
SeesEmpty_WrongPolarity ==
  /\ pending # <<>> /\ ~polled /\ thr # <<>>
  /\ polled' = TRUE
  /\ UNCHANGED <<pc, uart, thr, wire, pending, printed, receiveVars>>
SeesEmpty ==
  /\ pending # <<>> /\ ~polled
  /\ thr = <<>>
  /\ polled' = TRUE
  /\ UNCHANGED <<pc, uart, thr, wire, pending, printed, receiveVars>>

WriteData ==
  /\ polled
  /\ outb("data", Head(pending))
  /\ pending' = Tail(pending)
  /\ polled' = FALSE
  /\ UNCHANGED <<pc, wire, printed, receiving, received>>

\* The UART shifts a byte out.  What leaves during init is the BIOS's.
Transmit ==
  /\ thr # <<>>
  /\ thr' = Tail(thr)
  /\ wire' = IF Ready THEN Append(wire, Head(thr)) ELSE wire
  /\ UNCHANGED <<pc, uart, pending, polled, printed, receiveVars>>

\* A byte comes in, each one different.
Arrive ==
  /\ Len(arrived) < MaxArrivals
  /\ arrived' = Append(arrived, 100 + Len(arrived))
  /\ IF Len(rbr) < FifoSize
       THEN rbr' = Append(rbr, 100 + Len(arrived)) /\ UNCHANGED overrun
       ELSE overrun' = TRUE /\ UNCHANGED rbr
  /\ UNCHANGED <<pc, uart, sendVars, receiving, received>>

Receive ==
  /\ Idle
  /\ receiving' = "polling"
  /\ UNCHANGED <<pc, uart, sendVars, rbr, received, arrived, overrun>>

\* wait_for! ends: the line status shows INPUT_FULL.
SeesFull_AnyTime ==
  /\ receiving = "polling"
  /\ receiving' = "full"
  /\ UNCHANGED <<pc, uart, sendVars, rbr, received, arrived, overrun>>
SeesFull_WrongFlag ==
  /\ receiving = "polling" /\ rbr = <<>>
  /\ receiving' = "full"
  /\ UNCHANGED <<pc, uart, sendVars, rbr, received, arrived, overrun>>
SeesFull ==
  /\ receiving = "polling"
  /\ rbr # <<>>
  /\ receiving' = "full"
  /\ UNCHANGED <<pc, uart, sendVars, rbr, received, arrived, overrun>>

\* inb(port_data); an empty FIFO would give an old byte.
ReadData ==
  /\ receiving = "full"
  /\ received' = Append(received, IF rbr = <<>> THEN BiosByte ELSE Head(rbr))
  /\ rbr' = IF rbr = <<>> THEN rbr ELSE Tail(rbr)
  /\ receiving' = "no"
  /\ UNCHANGED <<pc, uart, sendVars, arrived, overrun>>

Next ==
  \/ InitWrite
  \/ \E b \in Bytes : Send(b) \/ SendRaw(b)
  \/ SeesEmpty \/ WriteData \/ Transmit
  \/ Arrive \/ Receive \/ SeesFull \/ ReadData

\* The CPU executes the calls, and the UART keeps shifting.
Spec == Init /\ [][Next]_vars
        /\ WF_vars(InitWrite) /\ WF_vars(SeesEmpty) /\ WF_vars(WriteData) /\ WF_vars(Transmit)
        /\ WF_vars(SeesFull) /\ WF_vars(ReadData)

----------------------------------------------------------------------------
(* Properties.                                                             *)

\* Whatever state the BIOS left, the port ends up at 38400 baud (divisor 3),
\* 8 bits, latch closed, FIFO on and receive interrupt enabled, and the
\* transfers never disturb this.
LineConfigured ==
  Ready =>
    uart = [dlab |-> FALSE, bits |-> 3, dll |-> 3, dlm |-> 0, ier |-> 1,
            fifo |-> 199, mcr |-> 11]

\* Nothing that is printed is lost, repeated or overtaken on its way through
\* send and the FIFO, and nothing of the BIOS's comes between.
NothingLost == Ready => wire \o thr \o pending = printed

\* Every send ends: the poll is always answered.
SendsEnd == pending # <<>> ~> pending = <<>>

\* receive returns the bytes that arrived after init in their order, none
\* twice and none of an earlier conversation, up to the first overrun.
ReceivedInOrder ==
  Ready /\ ~overrun => received \o rbr = arrived

\* A call of receive ends once a byte is there.
ReceivesEnd == receiving # "no" /\ rbr # <<>> ~> receiving = "no"
=============================================================================
