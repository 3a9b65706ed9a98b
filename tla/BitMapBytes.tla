----------------------------- MODULE BitMapBytes -----------------------------
(***************************************************************************)
(* BitMap of kernel/src/mm/page.rs as it lies in memory: d is a function   *)
(* from byte offsets to bytes, words of 8 bits as in BitAccess.  Bit idx   *)
(* is bit idx % 8 of byte idx / 8.                                         *)
(***************************************************************************)
LOCAL INSTANCE Integers

CONSTANT size  \* the bits of the map

None == -1    \* what find returns when it does not return Some(i)
Panics == -2

\* BitMap::new: write_bytes(0, len).
new(d) ==
  LET len == (size + 7) \div 8
  IN  [k \in DOMAIN d |-> IF k < len THEN {} ELSE d[k]]

test(d, idx) == d[idx \div 8] \cap {idx % 8} # {}

mark(d, idx) == [d EXCEPT ![idx \div 8] = @ \cup {idx % 8}]
clear(d, idx) == [d EXCEPT ![idx \div 8] = @ \ {idx % 8}]
flip_WrongByte(d, idx) ==
  [d EXCEPT ![(idx + 7) \div 8] = (@ \ {idx % 8}) \cup ({idx % 8} \ @)]
flip(d, idx) == [d EXCEPT ![idx \div 8] = (@ \ {idx % 8}) \cup ({idx % 8} \ @)]
set(d, idx, val) == IF val THEN mark(d, idx) ELSE clear(d, idx)

\* The assertion of flip and set fails for one of the indices of a loop; the
\* loop has then changed the bits before it.
loopPanics(idx, len) == \E i \in 0 .. len - 1 : ~(idx + i < size)

flips(d, idx, len) ==
  LET after[i \in 0 .. len] ==
        IF i = 0 THEN d
        ELSE IF idx + i > size THEN after[i - 1] ELSE flip(after[i - 1], idx + i - 1)
  IN  after[len]

sets(d, idx, len, val) ==
  LET after[i \in 0 .. len] ==
        IF i = 0 THEN d
        ELSE IF idx + i > size THEN after[i - 1] ELSE set(after[i - 1], idx + i - 1, val)
  IN  after[len]

contains(d, start, len, val) ==
  LET scan[i \in 0 .. len] ==
        IF i = len THEN "false"
        ELSE IF start + i >= size THEN "panic"
        ELSE IF test(d, start + i) = val THEN "true"
        ELSE scan[i + 1]
  IN  scan[0]

find(d, start, len, val) ==
  LET scan[i \in start .. size + start] ==
        IF i >= size THEN None
        ELSE CASE contains(d, i, len, ~val) = "true" -> scan[i + 1]
               [] contains(d, i, len, ~val) = "false" -> i
               [] contains(d, i, len, ~val) = "panic" -> Panics
  IN  scan[start]

all(d, start, len) == contains(d, start, len, FALSE) = "false"
any(d, start, len) == contains(d, start, len, TRUE) = "true"
=============================================================================
