-------------------------------- MODULE Pit --------------------------------
(***************************************************************************)
(* pit_configure_channel of kernel/src/arch/x86/pic.rs: the conversion of a*)
(* frequency to a 16-bit count, and the three port writes that give a      *)
(* channel of the 8254 its mode and, low byte first, its count.            *)
(***************************************************************************)
EXTENDS Integers

CONSTANTS
  Channels, Modes, Frequencies  \* the arguments of the calls

PIT_HZ == 1193180

ASSUME ArgumentsAssumption ==
  /\ Channels \subseteq Nat /\ Modes \subseteq Nat /\ Frequencies \subseteq Nat

VARIABLES
  pc,                        \* the next port write, "idle" or "panic"
  channel, mode, frequency,  \* the arguments
  control,                   \* the last control word, by channel
  low, high                  \* the two bytes of the count, by channel

pit_vars == <<pc, channel, mode, frequency, control, low, high>>

\* The count: 0, which the 8254 takes for 65536, for a frequency that is too
\* low, 2 for one that is too high, and otherwise the rounded quotient as u16.
count_Truncated(freq) ==
  IF freq < 19 THEN 0 ELSE IF freq > PIT_HZ THEN 2
  ELSE (PIT_HZ \div freq) % 65536
count(freq) ==
  IF freq < 19 THEN 0 ELSE IF freq > PIT_HZ THEN 2
  ELSE ((PIT_HZ + freq \div 2) \div freq) % 65536

Unset == -1
PitInit ==
  /\ pc = "idle"
  /\ channel = 0 /\ mode = 2 /\ frequency = 0
  /\ control = [c \in {0, 2} |-> Unset]
  /\ low = [c \in {0, 2} |-> Unset] /\ high = [c \in {0, 2} |-> Unset]

\* The call and its two assertions.
Call(c, m, f) ==
  /\ pc = "idle"
  /\ pc' = IF c \in {0, 2} /\ m \in {2, 3} THEN "control" ELSE "panic"
  /\ channel' = c /\ mode' = m /\ frequency' = f
  /\ UNCHANGED <<control, low, high>>

\* (channel << 6) | 0x30 | (mode << 1): both bytes of the count will follow.
PitControl ==
  /\ pc = "control" /\ pc' = "low"
  /\ control' = [control EXCEPT ![channel] = 64 * channel + 48 + 2 * mode]
  /\ UNCHANGED <<channel, mode, frequency, low, high>>

PitLow ==
  /\ pc = "low" /\ pc' = "high"
  /\ low' = [low EXCEPT ![channel] = count(frequency) % 256]
  /\ UNCHANGED <<channel, mode, frequency, control, high>>

PitHigh_Same ==
  /\ pc = "high" /\ pc' = "idle"
  /\ high' = [high EXCEPT ![channel] = count(frequency) % 256]
  /\ UNCHANGED <<channel, mode, frequency, control, low>>
PitHigh ==
  /\ pc = "high" /\ pc' = "idle"
  /\ high' = [high EXCEPT ![channel] = count(frequency) \div 256]
  /\ UNCHANGED <<channel, mode, frequency, control, low>>

PitNext ==
  \/ \E c \in Channels, m \in Modes, f \in Frequencies : Call(c, m, f)
  \/ PitControl \/ PitLow \/ PitHigh

PitSpec == PitInit /\ [][PitNext]_pit_vars

----------------------------------------------------------------------------
(* Properties.                                                             *)

\* The channel has been given a count for the frequency of the last call.
Programmed == pc = "idle" /\ frequency > 0

Divisor(c) ==
  LET reload == low[c] + 256 * high[c]
  IN  IF reload = 0 THEN 65536 ELSE reload

\* Between the two clamps the divisor that the channel ends up with is as
\* near to PIT_HZ / frequency as an integer can be: the conversion rounds,
\* fits 16 bits, and its bytes arrive in their places.
RateIsNearest ==
  Programmed /\ frequency \in 19 .. PIT_HZ =>
    /\ 2 * (Divisor(channel) * frequency - PIT_HZ) <= frequency
    /\ 2 * (PIT_HZ - Divisor(channel) * frequency) <= frequency

\* Up to PIT_HZ, a higher frequency never gives a slower timer.  (Above it
\* the forced count of 2 is slower than the count of 1 just below.)
FasterIsFaster ==
  Programmed =>
    \A f \in Frequencies :
      f > frequency /\ f <= PIT_HZ =>
        LET divisor == IF count(f) = 0 THEN 65536 ELSE count(f)
        IN  divisor <= Divisor(channel)

\* What the comment on the upper clamp says: a count of 1 is illegal in mode 2
\* and so is never programmed in that mode.
NoCountOfOneInMode2 == Programmed /\ mode = 2 => Divisor(channel) # 1
============================================================================
