------------------------------ MODULE PagePool ------------------------------
(***************************************************************************)
(* What the kernel's page allocator promises, whatever its strategy: blocks*)
(* of whole pages, inside the managed memory, that do not overlap; a       *)
(* request is refused (the kernel panics) only when no run of unused pages *)
(* is long enough; giving a block back always succeeds.  The promise is    *)
(* made to callers that free only what they own.                           *)
(***************************************************************************)
EXTENDS Integers

CONSTANTS
  PageSize,  \* bytes per page
  Base,      \* address of the first page
  Count,     \* number of pages
  ReqSizes   \* sizes of the requests, in bytes

VARIABLES
  live,      \* the blocks in use
  halted,    \* a request was refused
  misused    \* a caller has freed what it does not own

poolVars == <<live, halted, misused>>

Needed(size) == (size + PageSize - 1) \div PageSize

\* The block that starts at page i, of the given size, lies in the pool and
\* touches no page of a block in use.
Fits(i, size) ==
  /\ i + Needed(size) <= Count
  /\ \A a \in live :
       \/ Base + (i + Needed(size)) * PageSize <= a.ptr
       \/ a.ptr + Needed(a.size) * PageSize <= Base + i * PageSize

PoolInit == live = {} /\ halted = FALSE /\ misused = FALSE

Take(size) ==
  /\ ~halted
  /\ \E i \in 0 .. Count - 1 :
       /\ Fits(i, size)
       /\ live' = live \cup {[ptr |-> Base + i * PageSize, size |-> size]}
  /\ UNCHANGED halted

Refuse(size) ==
  /\ ~halted
  /\ ~ \E i \in 0 .. Count - 1 : Fits(i, size)
  /\ halted' = TRUE
  /\ UNCHANGED live

GiveBack(a) ==
  /\ ~halted
  /\ live' = live \ {a}
  /\ UNCHANGED halted

\* After a caller has broken the contract nothing is promised any more.
PoolNext ==
  \/ misused' = TRUE
  \/ /\ \/ \E s \in ReqSizes : Take(s) \/ Refuse(s)
        \/ \E a \in live : GiveBack(a)
     /\ UNCHANGED misused

PoolSpec == PoolInit /\ [][PoolNext]_poolVars
=============================================================================
