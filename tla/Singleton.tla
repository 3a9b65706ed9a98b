----------------------------- MODULE Singleton -----------------------------
(***************************************************************************)
(* Singleton<T>, the lazily initialised static cell of                     *)
(* kernel/src/utils/singleton.rs behind PAGE_ALLOC, INTR_TABLE, VGA_BUFFER *)
(* and SERIAL_IO.                                                          *)
(*                                                                         *)
(* Any number of contexts call get or get_mut, which run init and then hand*)
(* out a reference to data.  One action is one access to the shared state: *)
(* the compare_exchange, the load of the spin loop, the write of           *)
(* T::default(), the store of SINGLE_INITED and the load of the assert.    *)
(* The interleaving is sequentially consistent: the Release store and the  *)
(* Acquire accesses order the write of data before every later use.  No    *)
(* fairness is assumed: who may spin on whom depends on who gets the CPU,  *)
(* and Kernel composes the cell with the contexts of this system.          *)
(*                                                                         *)
(* The program counter of a context:                                       *)
(*   idle    outside get and get_mut                                       *)
(*   cas     at the compare_exchange                                       *)
(*   spin    in the loop waiting while inited = SINGLE_INITING             *)
(*   write   about to evaluate T::default() and write data                 *)
(*   store   about to store SINGLE_INITED                                  *)
(*   check   at the assert_eq                                              *)
(*   use     holding the reference that get or get_mut returned            *)
(*   panic   in the panic handler's loop                                   *)
(***************************************************************************)
EXTENDS Integers, FiniteSets

CONSTANTS
  Contexts,   \* the threads and handlers that use the cell
  BootBytes   \* the values the byte inited may hold when the kernel starts

SINGLE_UNINIT == 0
SINGLE_INITING == 1
SINGLE_INITED == 2

\* Singleton::UNINIT starts the byte at SINGLE_UNINIT.  A byte that nobody
\* has cleared may hold anything.
ASSUME BootBytesAssumption == BootBytes \subseteq 0 .. 255

VARIABLES
  inited,  \* the atomic byte
  data,    \* "uninit", "default" as T::default() made it, or "used" since
  pc,
  boot     \* ghost: the value inited had when the kernel started

vars == <<inited, data, pc, boot>>

Init ==
  /\ boot \in BootBytes
  /\ inited = boot
  /\ data = "uninit"
  /\ pc = [c \in Contexts |-> "idle"]

Goto(c, from, to) ==
  /\ pc[c] = from
  /\ pc' = [pc EXCEPT ![c] = to]
  /\ UNCHANGED boot

\* get or get_mut is called.
Call(c) ==
  /\ Goto(c, "idle", "cas")
  /\ UNCHANGED <<inited, data>>

\* The compare_exchange of UNINIT by INITING, and the match on its outcome.
\* It is the strong one, so the arm Err(SINGLE_UNINIT) is never taken.
CompareExchange_NoClaim(c) ==
  /\ \/ inited = SINGLE_UNINIT /\ Goto(c, "cas", "write")
     \/ inited = SINGLE_INITED /\ Goto(c, "cas", "check")
     \/ inited = SINGLE_INITING /\ Goto(c, "cas", "spin")
  /\ UNCHANGED <<inited, data>>
CompareExchange_NoWait(c) ==
  /\ \/ inited = SINGLE_INITED /\ Goto(c, "cas", "check") /\ UNCHANGED inited
     \/ inited = SINGLE_INITING /\ Goto(c, "cas", "check") /\ UNCHANGED inited
     \/ /\ inited \notin {SINGLE_INITED, SINGLE_INITING}
        /\ inited' = IF inited = SINGLE_UNINIT THEN SINGLE_INITING ELSE inited
        /\ Goto(c, "cas", "write")
  /\ UNCHANGED data
CompareExchange(c) ==
  /\ \/ /\ inited = SINGLE_UNINIT             \* Ok(_)
        /\ inited' = SINGLE_INITING
        /\ Goto(c, "cas", "write")
     \/ /\ inited = SINGLE_INITED             \* break
        /\ Goto(c, "cas", "check")
        /\ UNCHANGED inited
     \/ /\ inited = SINGLE_INITING            \* wait for the initialiser
        /\ Goto(c, "cas", "spin")
        /\ UNCHANGED inited
     \/ /\ inited \notin {SINGLE_UNINIT, SINGLE_INITING, SINGLE_INITED}
        /\ Goto(c, "cas", "write")            \* Err(_) => {}
        /\ UNCHANGED inited
  /\ UNCHANGED data

\* The wait ends with a load that is no longer INITING, and the loop starts
\* over; a load that still is changes nothing.
SpinEnds(c) ==
  /\ inited # SINGLE_INITING
  /\ Goto(c, "spin", "cas")
  /\ UNCHANGED <<inited, data>>

WriteDefault(c) ==
  /\ Goto(c, "write", "store")
  /\ data' = "default"
  /\ UNCHANGED inited

\* After the store the loop starts over, and leaves at Err(SINGLE_INITED).
StoreInited_Lost(c) ==
  /\ Goto(c, "store", "cas")
  /\ UNCHANGED <<inited, data>>
StoreInited(c) ==
  /\ Goto(c, "store", "cas")
  /\ inited' = SINGLE_INITED
  /\ UNCHANGED data

AssertInited(c) ==
  /\ IF inited = SINGLE_INITED
       THEN Goto(c, "check", "use")
       ELSE Goto(c, "check", "panic")
  /\ UNCHANGED <<inited, data>>

\* The caller works on the data through the reference, and drops it.
Use(c) ==
  /\ Goto(c, "use", "idle")
  /\ data' = "used"
  /\ UNCHANGED inited

Step(c) ==
  \/ CompareExchange(c)
  \/ SpinEnds(c)
  \/ WriteDefault(c)
  \/ StoreInited(c)
  \/ AssertInited(c)
  \/ Use(c)

Next == \E c \in Contexts : Call(c) \/ Step(c)

Spec == Init /\ [][Next]_vars

----------------------------------------------------------------------------
(* Properties.                                                             *)

\* Type invariant: the byte stays a byte.
TypeOK ==
  /\ inited \in 0 .. 255 /\ boot \in 0 .. 255
  /\ data \in {"uninit", "default", "used"}
  /\ pc \in [Contexts -> {"idle", "cas", "spin", "write", "store", "check",
                          "use", "panic"}]

\* From a cleared byte, one context at a time is between winning the
\* compare_exchange and storing SINGLE_INITED, so T::default() - which
\* programs the UART or clears the page bitmap - runs once.
OneInitialiser ==
  boot = SINGLE_UNINIT =>
    Cardinality({c \in Contexts : pc[c] \in {"write", "store"}}) <= 1

\* Nobody gets a reference to data that T::default() has not filled, unless
\* the byte was never cleared and looked like SINGLE_INITED; one that looked
\* like SINGLE_INITING keeps every caller waiting for an initialiser that does
\* not exist.  The assert_eq after the loop holds whenever it is reached.
ReferenceIsInitialised ==
  \A c \in Contexts :
    /\ pc[c] \in {"check", "use"} => inited = SINGLE_INITED
    /\ pc[c] = "use" /\ boot # SINGLE_INITED => data # "uninit"
    /\ boot = SINGLE_INITING => pc[c] \in {"idle", "cas", "spin"}

\* While the byte says SINGLE_INITING, and did not say so at boot, somebody is
\* between the compare_exchange and the store: whoever waits in the inner loop
\* waits for a context that is still going to end the wait.
WaitHasInitialiser ==
  boot # SINGLE_INITING /\ inited = SINGLE_INITING =>
    \E c \in Contexts : pc[c] \in {"write", "store"}

\* From a cleared byte, what a caller has done to the data is never undone by
\* a second initialisation: no late T::default() overwrites a used cell.
UsedIsKept ==
  [][boot = SINGLE_UNINIT /\ data = "used" => data' = "used"]_vars
============================================================================
