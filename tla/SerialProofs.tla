---------------------------- MODULE SerialProofs ----------------------------
(***************************************************************************)
(* Proofs about Serial, for any bytes, FIFO depth and numbers of bytes.    *)
(***************************************************************************)
EXTENDS Serial, SequenceTheorems, TLAPS

Registers == [dlab : BOOLEAN, bits : Nat, dll : Nat, dlm : Nat, ier : Nat,
              fifo : Nat, mcr : Nat]

Types ==
  /\ pc \in 1 .. 9 /\ uart \in Registers
  /\ thr \in Seq(Nat) /\ wire \in Seq(Nat) /\ pending \in Seq(Nat) /\ printed \in Seq(Nat)
  /\ polled \in BOOLEAN
  /\ rbr \in Seq(Nat) /\ received \in Seq(Nat) /\ arrived \in Seq(Nat)
  /\ receiving \in {"no", "polling", "full"} /\ overrun \in BOOLEAN

\* How far init has come with the registers.
Programmed ==
  /\ pc \in 3 .. 5 => uart.dlab
  /\ pc >= 4 => uart.dll = 3
  /\ pc >= 5 => uart.dlm = 0
  /\ pc >= 6 => ~uart.dlab /\ uart.bits = 3
  /\ pc >= 7 => uart.fifo = 199
  /\ pc >= 8 => uart.mcr = 11
  /\ pc >= 9 => uart.ier = 1

\* Nothing is sent before init ends, a send that has seen OUTPUT_EMPTY finds
\* the FIFO still empty when it writes, and then the promise itself.
QuietBefore == pc < 9 => pending = <<>> /\ wire = <<>> /\ printed = <<>>
Cleared == pc \in 7 .. 8 => thr = <<>>
SeenEmpty == polled => pending # <<>> /\ thr = <<>>
OnTheWay == (wire \o thr) \o pending
Sent == pc = 9 => OnTheWay = printed
Sending == QuietBefore /\ Cleared /\ SeenEmpty /\ Sent

\* A receive that has seen INPUT_FULL finds the byte still there.
NoReceive == pc < 9 => receiving = "no" /\ received = <<>>
SeenFull == receiving = "full" => rbr # <<>>
Got == received \o rbr
InOrder == pc >= 7 /\ ~overrun => Got = arrived
Receiving == NoReceive /\ SeenFull /\ InOrder

IInv == Types /\ Programmed /\ Sending /\ Receiving

----------------------------------------------------------------------------
(* Sequences.                                                              *)

LEMMA ShortSeqs == <<>> \in Seq(Nat) /\ \A b \in Nat : <<b>> \in Seq(Nat) /\ <<b>> # <<>>
OBVIOUS

\* Moving the head of t to the end of s leaves s \o t as it is.
LEMMA MoveHead ==
  ASSUME NEW s \in Seq(Nat), NEW t \in Seq(Nat), t # <<>>
  PROVE  /\ Append(s, Head(t)) \in Seq(Nat) /\ Tail(t) \in Seq(Nat)
         /\ Append(s, Head(t)) \o Tail(t) = s \o t
<1>1. /\ Head(t) \in Nat /\ Tail(t) \in Seq(Nat) /\ Head(t) = t[1]
      /\ Len(Tail(t)) = Len(t) - 1 /\ Len(t) \in Nat /\ Len(s) \in Nat
      /\ Len(Tail(t)) \in Nat
      /\ \A i \in 1 .. Len(Tail(t)) : Tail(t)[i] = t[i + 1]
  BY HeadTailProperties, LenProperties
<1>2. /\ Append(s, Head(t)) \in Seq(Nat) /\ Len(Append(s, Head(t))) = Len(s) + 1
      /\ \A i \in 1 .. Len(s) : Append(s, Head(t))[i] = s[i]
      /\ Append(s, Head(t))[Len(s) + 1] = Head(t)
  BY <1>1, AppendProperties
<1> DEFINE l == Append(s, Head(t)) \o Tail(t)
           r == s \o t
<1>3. /\ l \in Seq(Nat) /\ Len(l) = Len(s) + 1 + Len(Tail(t))
      /\ \A i \in 1 .. Len(s) + 1 + Len(Tail(t)) :
           l[i] = IF i <= Len(s) + 1 THEN Append(s, Head(t))[i] ELSE Tail(t)[i - (Len(s) + 1)]
  BY <1>1, <1>2, ConcatProperties
<1>4. /\ r \in Seq(Nat) /\ Len(r) = Len(s) + Len(t)
      /\ \A i \in 1 .. Len(s) + Len(t) : r[i] = IF i <= Len(s) THEN s[i] ELSE t[i - Len(s)]
  BY ConcatProperties
<1> HIDE DEF l, r
<1>5. ASSUME NEW i \in 1 .. Len(l) PROVE l[i] = r[i]
  <2>1. CASE i <= Len(s)
    <3>1. l[i] = Append(s, Head(t))[i] /\ Append(s, Head(t))[i] = s[i]
      BY <1>1, <1>2, <1>3, <2>1
    <3>2. i \in 1 .. Len(s) + Len(t)
      BY <1>1, <1>3, <2>1
    <3>3. r[i] = s[i]
      BY <1>4, <2>1, <3>2
    <3> QED BY <3>1, <3>3
  <2>2. CASE i = Len(s) + 1
    <3>1. l[i] = t[1]
      BY <1>1, <1>2, <1>3, <2>2
    <3>2. i \in 1 .. Len(s) + Len(t) /\ ~(i <= Len(s)) /\ i - Len(s) = 1
      BY <1>1, <1>3, <2>2
    <3>3. r[i] = t[1]
      BY <1>4, <3>2
    <3> QED BY <3>1, <3>3
  <2>3. CASE i > Len(s) + 1
    <3> DEFINE k == i - (Len(s) + 1)
    <3>1. k \in 1 .. Len(Tail(t)) /\ k + 1 = i - Len(s)
      BY <1>1, <1>3, <2>3
    <3>2. l[i] = t[k + 1]
      BY <1>1, <1>3, <2>3, <3>1
    <3>3. r[i] = t[k + 1]
      BY <1>1, <1>3, <1>4, <2>3, <3>1
    <3> QED BY <3>2, <3>3
  <2>4. i \in Int /\ Len(s) \in Int
    BY <1>1, <1>3
  <2>5. i <= Len(s) \/ i = Len(s) + 1 \/ i > Len(s) + 1
    BY <2>4
  <2> QED BY <2>1, <2>2, <2>3, <2>5
<1>6. Len(l) = Len(r)
  BY <1>1, <1>3, <1>4
<1>7. l = r
  BY <1>3, <1>4, <1>5, <1>6, SeqEqual
<1> QED BY <1>1, <1>2, <1>7 DEF l, r

LEMMA Associative ==
  ASSUME NEW s \in Seq(Nat), NEW t \in Seq(Nat), NEW u \in Seq(Nat)
  PROVE  (s \o t) \o u = s \o (t \o u)
BY ConcatAssociative, SMTT(60)

\* A byte appended to t is appended to s \o t.
LEMMA AppendBehind ==
  ASSUME NEW s \in Seq(Nat), NEW t \in Seq(Nat), NEW b \in Nat
  PROVE  s \o Append(t, b) = Append(s \o t, b)
<1> DEFINE st == s \o t
           one == <<b>>
<1>1. one \in Seq(Nat)
  BY ShortSeqs
<1>2. st \in Seq(Nat)
  BY ConcatProperties
<1>3. Append(t, b) = t \o one
  BY AppendIsConcat
<1> HIDE DEF one
<1>4. st \o one = s \o (t \o one)
  BY <1>1, Associative
<1> HIDE DEF st
<1>5. Append(st, b) = st \o one
  BY <1>2, AppendIsConcat DEF one
<1> QED BY <1>3, <1>4, <1>5 DEF st

\* The bytes of one send.
LEMMA ExpansionType ==
  ASSUME NEW b \in Bytes
  PROVE  Expansion(b) \in Seq(Nat) /\ Expansion(b) # <<>>
BY SerialAssumption DEF Expansion

----------------------------------------------------------------------------
(* The invariant.                                                          *)

\* The two directions do not touch each other.
LEMMA SendingStays == Sending /\ UNCHANGED <<pc, sendVars>> => Sending'
<1> SUFFICES ASSUME Sending, UNCHANGED <<pc, sendVars>> PROVE Sending'
  OBVIOUS
<1>1. UNCHANGED <<pc, thr, wire, pending, polled, printed>>
  BY DEF sendVars
<1>2. QuietBefore' /\ Cleared' /\ SeenEmpty'
  BY <1>1 DEF Sending, QuietBefore, Cleared, SeenEmpty
<1>3. Sent'
  BY <1>1 DEF Sending, Sent, OnTheWay
<1> QED BY <1>2, <1>3 DEF Sending

LEMMA ReceivingStays == Receiving /\ UNCHANGED <<pc, receiveVars>> => Receiving'
<1> SUFFICES ASSUME Receiving, UNCHANGED <<pc, receiveVars>> PROVE Receiving'
  OBVIOUS
<1>1. UNCHANGED <<pc, rbr, receiving, received, arrived, overrun>>
  BY DEF receiveVars
<1>2. NoReceive' /\ SeenFull'
  BY <1>1 DEF Receiving, NoReceive, SeenFull
<1>3. InOrder'
  BY <1>1 DEF Receiving, InOrder, Got
<1> QED BY <1>2, <1>3 DEF Receiving

LEMMA InitIInv == Init => IInv
<1> SUFFICES ASSUME Init PROVE IInv
  OBVIOUS
<1>1. /\ pc = 1 /\ wire = <<>> /\ pending = <<>> /\ printed = <<>> /\ received = <<>>
      /\ arrived = <<>> /\ polled = FALSE /\ receiving = "no" /\ overrun = FALSE
  BY DEF Init
<1>2. uart \in Registers
  BY DEF Init, Registers
<1>3. thr \in Seq(Nat) /\ rbr \in Seq(Nat)
  BY ShortSeqs DEF Init, BiosByte
<1>4. Types
  <2>1. /\ wire \in Seq(Nat) /\ pending \in Seq(Nat) /\ printed \in Seq(Nat)
        /\ received \in Seq(Nat) /\ arrived \in Seq(Nat)
    BY <1>1, ShortSeqs
  <2>2. pc \in 1 .. 9
    BY <1>1
  <2>3. /\ polled \in BOOLEAN /\ overrun \in BOOLEAN
        /\ receiving \in {"no", "polling", "full"}
    BY <1>1, Zenon
  <2> QED BY <1>2, <1>3, <2>1, <2>2, <2>3 DEF Types
<1>5. Programmed
  BY <1>1 DEF Programmed
<1>6. QuietBefore /\ Cleared /\ SeenEmpty /\ Sent
  BY <1>1 DEF QuietBefore, Cleared, SeenEmpty, Sent
<1>7. NoReceive /\ SeenFull /\ InOrder
  BY <1>1 DEF NoReceive, SeenFull, InOrder
<1> QED BY <1>4, <1>5, <1>6, <1>7 DEF IInv, Sending, Receiving

\* One write of init: the registers, and the FIFOs that the write to
\* fifo_ctrl (the sixth) empties.
LEMMA InitWriteIInv == IInv /\ InitWrite => IInv'
<1> SUFFICES ASSUME IInv, InitWrite PROVE IInv'
  OBVIOUS
<1>1. /\ pc \in 1 .. 8 /\ pc' = pc + 1
      /\ outb(init_writes[pc][1], init_writes[pc][2])
      /\ UNCHANGED <<wire, pending, polled, printed, receiving, received>>
  BY DEF InitWrite, init_writes
<1>0. pc \in 1 .. 8
  BY <1>1
<1>2. pc < 9 /\ pc \in Int /\ pc' \in 2 .. 9
  BY <1>1
<1>3. pending = <<>> /\ wire = <<>> /\ printed = <<>>
  BY <1>2 DEF IInv, Sending, QuietBefore
<1>4. ~polled
  BY <1>3 DEF IInv, Sending, SeenEmpty
<1>5. receiving = "no" /\ received = <<>>
  BY <1>2 DEF IInv, Receiving, NoReceive
<1>6. uart \in Registers /\ Programmed
  BY DEF IInv, Types
<1>7. uart' \in Registers /\ Programmed'
  <2>1. 128 % 128 = 0 /\ 3 % 128 = 3 /\ (128 >= 128) = TRUE /\ (3 >= 128) = FALSE
    OBVIOUS
  <2>2. CASE pc = 1
    BY <1>1, <1>6, <2>2 DEF Registers, Programmed, outb, init_writes
  <2>3. CASE pc = 2
    <3>1. init_writes[pc] = <<"line_ctrl", 128>>
      BY <2>3 DEF init_writes
    <3>2. outb("line_ctrl", 128)
      BY <1>1, <3>1
    <3>3. uart' = [uart EXCEPT !.dlab = 128 >= 128, !.bits = 128 % 128]
      BY <3>2 DEF outb
    <3>4. uart' = [uart EXCEPT !.dlab = TRUE, !.bits = 0]
      BY <2>1, <3>3
    <3>5. uart' \in Registers
      BY <1>6, <3>4 DEF Registers
    <3> QED BY <1>1, <1>6, <2>3, <3>4, <3>5 DEF Registers, Programmed
  <2>4. CASE pc = 3
    BY <1>1, <1>6, <2>4 DEF Registers, Programmed, outb, init_writes
  <2>5. CASE pc = 4
    BY <1>1, <1>6, <2>5 DEF Registers, Programmed, outb, init_writes
  <2>6. CASE pc = 5
    <3>1. init_writes[pc] = <<"line_ctrl", 3>>
      BY <2>6 DEF init_writes
    <3>2. outb("line_ctrl", 3)
      BY <1>1, <3>1
    <3>3. uart' = [uart EXCEPT !.dlab = 3 >= 128, !.bits = 3 % 128]
      BY <3>2 DEF outb
    <3>4. uart' = [uart EXCEPT !.dlab = FALSE, !.bits = 3]
      BY <2>1, <3>3
    <3>5. uart' \in Registers
      BY <1>6, <3>4 DEF Registers
    <3> QED BY <1>1, <1>6, <2>6, <3>4, <3>5 DEF Registers, Programmed
  <2>7. CASE pc = 6
    BY <1>1, <1>6, <2>7 DEF Registers, Programmed, outb, init_writes
  <2>8. CASE pc = 7
    BY <1>1, <1>6, <2>8 DEF Registers, Programmed, outb, init_writes
  <2>9. CASE pc = 8
    BY <1>1, <1>6, <2>9 DEF Registers, Programmed, outb, init_writes
  <2> QED BY <1>0, <2>2, <2>3, <2>4, <2>5, <2>6, <2>7, <2>8, <2>9
<1>8. /\ pc = 6 => thr' = <<>> /\ rbr' = <<>> /\ arrived' = <<>> /\ overrun' = FALSE
      /\ pc # 6 => UNCHANGED <<thr, rbr, arrived, overrun>>
  <2>1. pc = 3 => uart.dlab
    BY <1>6 DEF Programmed
  <2>2. CASE pc = 3
    BY <1>1, <2>1, <2>2 DEF outb, init_writes
  <2>3. CASE pc = 6
    BY <1>1, <2>3 DEF outb, init_writes
  <2>4. CASE pc \in {1, 4, 8}
    BY <1>1, <2>4 DEF outb, init_writes
  <2>5. CASE pc \in {2, 5, 7}
    BY <1>1, <2>5 DEF outb, init_writes
  <2>6. pc = 3 \/ pc = 6 \/ pc \in {1, 4, 8} \/ pc \in {2, 5, 7}
    BY <1>0
  <2> QED BY <2>2, <2>3, <2>4, <2>5, <2>6
<1>9. Types'
  <2>1. /\ thr' \in Seq(Nat) /\ rbr' \in Seq(Nat) /\ arrived' \in Seq(Nat)
        /\ overrun' \in BOOLEAN
    <3>1. CASE pc = 6
      BY <1>8, <3>1, ShortSeqs
    <3>2. CASE pc # 6
      BY <1>8, <3>2 DEF IInv, Types
    <3> QED BY <3>1, <3>2
  <2> QED BY <1>1, <1>2, <1>7, <2>1 DEF IInv, Types
<1>10. Cleared'
  BY <1>1, <1>8 DEF IInv, Sending, Cleared
<1>11. QuietBefore' /\ SeenEmpty'
  BY <1>1, <1>3, <1>4 DEF QuietBefore, SeenEmpty
<1>12. Sent'
  <2>1. SUFFICES ASSUME pc' = 9 PROVE OnTheWay' = printed'
    BY DEF Sent
  <2>2. thr' = <<>>
    BY <1>1, <1>8, <2>1 DEF IInv, Sending, Cleared
  <2>3. (<<>> \o <<>>) \o <<>> = <<>>
    BY ShortSeqs, ConcatEmptySeq
  <2> QED BY <1>1, <1>3, <2>2, <2>3 DEF OnTheWay
<1>13. NoReceive' /\ SeenFull'
  BY <1>1, <1>5 DEF NoReceive, SeenFull
<1>14. InOrder'
  <2>1. <<>> \o <<>> = <<>>
    BY ShortSeqs, ConcatEmptySeq
  <2>2. CASE pc = 6
    BY <1>1, <1>5, <1>8, <2>1, <2>2 DEF InOrder, Got
  <2>3. CASE pc # 6
    <3>1. pc' >= 7 => pc >= 7
      BY <1>1, <2>3
    <3> QED BY <1>1, <1>8, <2>3, <3>1 DEF IInv, Receiving, InOrder, Got
  <2> QED BY <2>2, <2>3
<1> QED BY <1>7, <1>9, <1>10, <1>11, <1>12, <1>13, <1>14 DEF IInv, Sending, Receiving

LEMMA SendIInv ==
  ASSUME NEW b \in Bytes, IInv, Send(b) \/ SendRaw(b)
  PROVE  IInv'
<1>1. PICK x \in Seq(Nat) :
        /\ x # <<>> /\ pending = <<>> /\ pc = 9 /\ pending' = x
        /\ printed' = printed \o x
        /\ UNCHANGED <<pc, uart, thr, wire, polled, receiveVars>>
  <2>1. CASE Send(b)
    BY <2>1, ExpansionType DEF Send, Idle, Ready, init_writes, IInv, Types
  <2>2. CASE SendRaw(b)
    <3>1. b \in Nat
      BY SerialAssumption
    <3>2. Append(printed, b) = printed \o <<b>>
      BY <3>1, AppendIsConcat DEF IInv, Types
    <3>3. pc = 9 /\ pending = <<>>
      BY <2>2 DEF SendRaw, Idle, Ready, init_writes, IInv, Types
    <3>4. <<b>> \in Seq(Nat) /\ <<b>> # <<>>
      BY <3>1, ShortSeqs
    <3> QED BY <2>2, <3>2, <3>3, <3>4 DEF SendRaw
  <2> QED BY <2>1, <2>2
<1>2. (wire \o thr) \o <<>> = wire \o thr /\ wire \o thr \in Seq(Nat)
  BY ConcatEmptySeq, ConcatProperties DEF IInv, Types
<1>3. printed = wire \o thr
  BY <1>1, <1>2 DEF IInv, Sending, Sent, OnTheWay
<1>4. printed' \in Seq(Nat)
  BY <1>1, ConcatProperties DEF IInv, Types
<1>5. Types'
  BY <1>1, <1>4 DEF IInv, Types, receiveVars
<1>6. Sent'
  BY <1>1, <1>3 DEF Sent, OnTheWay
<1>7. QuietBefore' /\ Cleared'
  BY <1>1 DEF QuietBefore, Cleared
<1>8. SeenEmpty'
  BY <1>1 DEF IInv, Sending, SeenEmpty
<1>9. Programmed'
  BY <1>1 DEF IInv, Programmed
<1>10. Receiving'
  BY <1>1, ReceivingStays DEF IInv
<1> QED BY <1>5, <1>6, <1>7, <1>8, <1>9, <1>10 DEF IInv, Sending

LEMMA WriteDataIInv == IInv /\ WriteData => IInv'
<1> SUFFICES ASSUME IInv, WriteData PROVE IInv'
  OBVIOUS
<1>1. /\ polled /\ pending' = Tail(pending) /\ polled' = FALSE
      /\ outb("data", Head(pending))
      /\ UNCHANGED <<pc, wire, printed, receiving, received>>
  BY DEF WriteData
<1>2. pending # <<>> /\ thr = <<>>
  BY <1>1 DEF IInv, Sending, SeenEmpty
<1>3. pc = 9
  BY <1>2 DEF IInv, Types, Sending, QuietBefore
<1>4. uart.dlab = FALSE
  BY <1>3 DEF IInv, Types, Registers, Programmed
<1>5. /\ uart' = uart /\ thr' = Append(<<>>, Head(pending))
      /\ UNCHANGED <<rbr, arrived, overrun>>
  BY <1>1, <1>2, <1>4, SerialAssumption DEF outb
<1>6. /\ Append(wire, Head(pending)) \o Tail(pending) = wire \o pending
      /\ Tail(pending) \in Seq(Nat) /\ Head(pending) \in Nat
  BY <1>2, MoveHead, HeadTailProperties DEF IInv, Types
<1>7. wire \o thr = wire /\ thr' = <<Head(pending)>>
  BY <1>2, <1>5, ConcatEmptySeq DEF IInv, Types
<1>8. wire \o thr' = Append(wire, Head(pending))
  BY <1>6, <1>7, AppendIsConcat DEF IInv, Types
<1>9. Types'
  BY <1>1, <1>5, <1>6, <1>7, ShortSeqs DEF IInv, Types
<1>10. OnTheWay' = OnTheWay
  BY <1>1, <1>6, <1>7, <1>8 DEF OnTheWay
<1>11. Sent'
  BY <1>1, <1>3, <1>10 DEF IInv, Sending, Sent
<1>12. QuietBefore' /\ Cleared' /\ SeenEmpty'
  BY <1>1, <1>3 DEF QuietBefore, Cleared, SeenEmpty
<1>13. Programmed'
  BY <1>1, <1>5 DEF IInv, Programmed
<1>14. Receiving'
  BY <1>1, <1>5, ReceivingStays DEF IInv, receiveVars
<1> QED BY <1>9, <1>11, <1>12, <1>13, <1>14 DEF IInv, Sending

LEMMA TransmitIInv == IInv /\ Transmit => IInv'
<1> SUFFICES ASSUME IInv, Transmit PROVE IInv'
  OBVIOUS
<1>1. /\ thr # <<>> /\ thr' = Tail(thr)
      /\ wire' = IF pc = 9 THEN Append(wire, Head(thr)) ELSE wire
      /\ UNCHANGED <<pc, uart, pending, polled, printed, receiveVars>>
  BY DEF Transmit, Ready, init_writes, IInv, Types
<1>2. ~polled
  BY <1>1 DEF IInv, Sending, SeenEmpty
<1>3. /\ Append(wire, Head(thr)) \in Seq(Nat) /\ Tail(thr) \in Seq(Nat)
      /\ Append(wire, Head(thr)) \o Tail(thr) = wire \o thr
  BY <1>1, MoveHead DEF IInv, Types
<1>4. Types'
  BY <1>1, <1>3 DEF IInv, Types, receiveVars
<1>5. pc = 9 => OnTheWay' = OnTheWay
  BY <1>1, <1>3 DEF OnTheWay
<1>6. Sent'
  BY <1>1, <1>5 DEF IInv, Sending, Sent
<1>7. SeenEmpty'
  BY <1>1, <1>2 DEF SeenEmpty
<1>8. Cleared'
  BY <1>1 DEF IInv, Sending, Cleared
<1>9. QuietBefore'
  BY <1>1 DEF IInv, Sending, QuietBefore
<1>10. Programmed'
  BY <1>1 DEF IInv, Programmed
<1>11. Receiving'
  BY <1>1, ReceivingStays DEF IInv
<1> QED BY <1>4, <1>6, <1>7, <1>8, <1>9, <1>10, <1>11 DEF IInv, Sending

LEMMA ArriveIInv == IInv /\ Arrive => IInv'
<1> SUFFICES ASSUME IInv, Arrive PROVE IInv'
  OBVIOUS
<1> DEFINE x == 100 + Len(arrived)
<1>1. x \in Nat
  BY LenProperties DEF IInv, Types
<1>2. /\ arrived' = Append(arrived, x)
      /\ \/ rbr' = Append(rbr, x) /\ overrun' = overrun
         \/ rbr' = rbr /\ overrun' = TRUE
      /\ UNCHANGED <<pc, uart, sendVars, receiving, received>>
  BY DEF Arrive
<1> HIDE DEF x
<1>3. Append(arrived, x) \in Seq(Nat) /\ Append(rbr, x) \in Seq(Nat)
  BY <1>1, AppendProperties DEF IInv, Types
<1>4. Append(rbr, x) # <<>>
  <2>1. Len(Append(rbr, x)) = Len(rbr) + 1 /\ Len(rbr) \in Nat
    BY <1>1, AppendProperties, LenProperties DEF IInv, Types
  <2>2. Len(<<>>) = 0
    OBVIOUS
  <2> QED BY <2>1, <2>2
<1>5. received \o Append(rbr, x) = Append(received \o rbr, x)
  BY <1>1, AppendBehind DEF IInv, Types
<1>6. Types'
  BY <1>2, <1>3 DEF IInv, Types, sendVars
<1>7. NoReceive' /\ SeenFull'
  BY <1>2, <1>4 DEF IInv, Receiving, NoReceive, SeenFull
<1>8. InOrder'
  <2>1. CASE rbr' = Append(rbr, x) /\ overrun' = overrun
    BY <1>2, <1>5, <2>1 DEF IInv, Receiving, InOrder, Got
  <2>2. CASE overrun' = TRUE
    BY <2>2 DEF InOrder
  <2> QED BY <1>2, <2>1, <2>2
<1>9. Sending'
  BY <1>2, SendingStays DEF IInv
<1>10. Programmed'
  BY <1>2 DEF IInv, Programmed
<1> QED BY <1>6, <1>7, <1>8, <1>9, <1>10 DEF IInv, Receiving

LEMMA ReadDataIInv == IInv /\ ReadData => IInv'
<1> SUFFICES ASSUME IInv, ReadData PROVE IInv'
  OBVIOUS
<1>1. rbr # <<>> /\ receiving = "full"
  BY DEF ReadData, IInv, Receiving, SeenFull
<1>2. pc = 9
  BY <1>1 DEF IInv, Types, Receiving, NoReceive
<1>3. /\ received' = Append(received, Head(rbr)) /\ rbr' = Tail(rbr)
      /\ receiving' = "no" /\ UNCHANGED <<pc, uart, sendVars, arrived, overrun>>
  BY <1>1 DEF ReadData
<1>4. /\ Append(received, Head(rbr)) \in Seq(Nat) /\ Tail(rbr) \in Seq(Nat)
      /\ Append(received, Head(rbr)) \o Tail(rbr) = received \o rbr
  BY <1>1, MoveHead DEF IInv, Types
<1>5. Types'
  BY <1>3, <1>4 DEF IInv, Types, sendVars
<1>6. Got' = Got
  BY <1>3, <1>4 DEF Got
<1>7. InOrder'
  BY <1>3, <1>6 DEF IInv, Receiving, InOrder
<1>8. NoReceive' /\ SeenFull'
  BY <1>2, <1>3 DEF NoReceive, SeenFull
<1>9. Sending'
  BY <1>3, SendingStays DEF IInv
<1>10. Programmed'
  BY <1>3 DEF IInv, Programmed
<1> QED BY <1>5, <1>7, <1>8, <1>9, <1>10 DEF IInv, Receiving

LEMMA SeesEmptyIInv == IInv /\ SeesEmpty => IInv'
<1> SUFFICES ASSUME IInv, SeesEmpty PROVE IInv'
  OBVIOUS
<1>1. /\ pending # <<>> /\ thr = <<>> /\ polled' = TRUE
      /\ UNCHANGED <<pc, uart, thr, wire, pending, printed, receiveVars>>
  BY DEF SeesEmpty
<1>2. Types'
  BY <1>1 DEF IInv, Types, receiveVars
<1>3. QuietBefore' /\ Cleared'
  BY <1>1 DEF IInv, Sending, QuietBefore, Cleared
<1>4. SeenEmpty'
  BY <1>1 DEF SeenEmpty
<1>5. Sent'
  BY <1>1 DEF IInv, Sending, Sent, OnTheWay
<1>6. Programmed'
  BY <1>1 DEF IInv, Programmed
<1>7. Receiving'
  BY <1>1, ReceivingStays DEF IInv
<1> QED BY <1>2, <1>3, <1>4, <1>5, <1>6, <1>7 DEF IInv, Sending

LEMMA ReceiveIInv == IInv /\ (Receive \/ SeesFull) => IInv'
<1> SUFFICES ASSUME IInv, Receive \/ SeesFull PROVE IInv'
  OBVIOUS
<1>1. /\ receiving' \in {"polling", "full"} /\ (receiving' = "full" => rbr # <<>>)
      /\ UNCHANGED <<pc, uart, sendVars, rbr, received, arrived, overrun>>
  BY DEF Receive, SeesFull
<1>2. pc = 9
  <2>1. CASE Receive
    BY <2>1 DEF Receive, Idle, Ready, init_writes, IInv, Types
  <2>2. CASE SeesFull
    <3>1. receiving # "no"
      BY <2>2 DEF SeesFull
    <3> QED BY <3>1 DEF IInv, Types, Receiving, NoReceive
  <2> QED BY <2>1, <2>2
<1>3. Types'
  BY <1>1 DEF IInv, Types, sendVars
<1>4. NoReceive' /\ SeenFull'
  BY <1>1, <1>2 DEF NoReceive, SeenFull
<1>5. InOrder'
  BY <1>1 DEF IInv, Receiving, InOrder, Got
<1>6. Sending'
  BY <1>1, SendingStays DEF IInv
<1>7. Programmed'
  BY <1>1 DEF IInv, Programmed
<1> QED BY <1>3, <1>4, <1>5, <1>6, <1>7 DEF IInv, Receiving

LEMMA NextIInv == IInv /\ [Next]_vars => IInv'
<1> SUFFICES ASSUME IInv, [Next]_vars PROVE IInv'
  OBVIOUS
<1>1. CASE InitWrite
  BY <1>1, InitWriteIInv
<1>2. CASE \E b \in Bytes : Send(b) \/ SendRaw(b)
  BY <1>2, SendIInv
<1>3. CASE SeesEmpty
  BY <1>3, SeesEmptyIInv
<1>4. CASE WriteData
  BY <1>4, WriteDataIInv
<1>5. CASE Transmit
  BY <1>5, TransmitIInv
<1>6. CASE Arrive
  BY <1>6, ArriveIInv
<1>7. CASE Receive \/ SeesFull
  BY <1>7, ReceiveIInv
<1>8. CASE ReadData
  BY <1>8, ReadDataIInv
<1>9. CASE UNCHANGED vars
  <2>1. Types' /\ Programmed'
    BY <1>9 DEF vars, sendVars, receiveVars, IInv, Types, Programmed
  <2> QED BY <1>9, <2>1, SendingStays, ReceivingStays DEF vars, IInv
<1> QED BY <1>1, <1>2, <1>3, <1>4, <1>5, <1>6, <1>7, <1>8, <1>9 DEF Next

LEMMA Invariance == Spec => []IInv
BY InitIInv, NextIInv, PTL DEF Spec

----------------------------------------------------------------------------
(* The theorems.                                                           *)

\* Nothing that send or send_raw is given is lost, repeated or overtaken, for
\* FIFOs of any depth: OUTPUT_EMPTY, once seen, holds until the write.
THEOREM TransmissionExact == Spec => []NothingLost
<1>1. IInv => NothingLost
  <2>1. IInv => pc \in 1 .. 9
    BY DEF IInv, Types
  <2>2. Ready /\ pc \in 1 .. 9 => pc = 9
    BY DEF Ready, init_writes
  <2> QED BY <2>1, <2>2 DEF IInv, Sending, Sent, OnTheWay, NothingLost
<1> QED BY <1>1, Invariance, PTL

\* receive returns what has arrived since init, in order, up to an overrun.
THEOREM ReceptionExact == Spec => []ReceivedInOrder
<1>1. IInv => ReceivedInOrder
  <2>1. IInv => pc \in 1 .. 9
    BY DEF IInv, Types
  <2>2. Ready /\ pc \in 1 .. 9 => pc >= 7
    BY DEF Ready, init_writes
  <2> QED BY <2>1, <2>2 DEF IInv, Receiving, InOrder, Got, ReceivedInOrder
<1> QED BY <1>1, Invariance, PTL

\* init programs the port completely from whatever state the BIOS left.
THEOREM Configuration == Spec => []LineConfigured
<1>1. IInv => LineConfigured
  BY DEF IInv, Types, Registers, Programmed, LineConfigured, Ready, init_writes
<1> QED BY <1>1, Invariance, PTL
=============================================================================
