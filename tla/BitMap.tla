------------------------------- MODULE BitMap -------------------------------
(***************************************************************************)
(* BitMap of kernel/src/mm/page.rs, by bits: b is a function from indices  *)
(* below size to BOOLEAN.  BitMapBytes has the bytes behind it, and Bits   *)
(* checks that they agree.                                                 *)
(***************************************************************************)
LOCAL INSTANCE Integers

\* contains returns true: the scan meets a bit equal to val before the end.
contains(b, start, len, val) ==
  \E i \in start .. start + len - 1 : i \in DOMAIN b /\ b[i] = val

\* contains panics: test's assert!(idx < self.size) fails, because the scan
\* runs past the last bit without having met val.
containsPanics(b, start, len, val) ==
  /\ ~contains(b, start, len, val)
  /\ \E i \in start .. start + len - 1 : i \notin DOMAIN b

all(b, start, len) ==
  ~contains(b, start, len, FALSE) /\ ~containsPanics(b, start, len, FALSE)

flips(b, idx, len) ==
  [i \in DOMAIN b |-> IF i \in idx .. idx + len - 1 THEN ~b[i] ELSE b[i]]

\* i is the first start at which find's call of contains does not return
\* true: there find either returns Some(i) or panics inside contains.
findStopsAt(b, start, len, val, i) ==
  /\ i \in DOMAIN b /\ i >= start
  /\ ~contains(b, i, len, ~val)
  /\ \A j \in DOMAIN b : start <= j /\ j < i => contains(b, j, len, ~val)

\* find returns Some(i).
finds_NoBound(b, start, len, val, i) == findStopsAt(b, start, len, val, i)
finds_LastFree(b, start, len, val, i) ==
  /\ i \in DOMAIN b /\ i >= start
  /\ ~b[i]
  /\ ~containsPanics(b, i, len, ~val)
finds(b, start, len, val, i) ==
  /\ findStopsAt(b, start, len, val, i)
  /\ ~containsPanics(b, i, len, ~val)

\* find returns None, or panics in test: alloc's unwrap turns the first into
\* a panic as well.
findFails(b, start, len, val) ==
  ~ \E i \in DOMAIN b : finds(b, start, len, val, i)
=============================================================================
