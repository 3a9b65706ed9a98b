-------------------------- MODULE SingletonProofs --------------------------
(***************************************************************************)
(* Proofs about Singleton, for any number of contexts.                     *)
(***************************************************************************)
EXTENDS Singleton, TLAPS, FiniteSetTheorems

----------------------------------------------------------------------------
(* From any boot byte.                                                     *)

\* SINGLE_INITED is never left, and it is stored only after the write.
IInv ==
  /\ TypeOK
  /\ boot # SINGLE_INITED /\ inited = SINGLE_INITED => data # "uninit"
  /\ boot = SINGLE_INITING => inited = SINGLE_INITING
  /\ WaitHasInitialiser
  /\ \A c \in Contexts :
       /\ pc[c] = "store" => data # "uninit"
       /\ pc[c] \in {"check", "use"} => inited = SINGLE_INITED
       /\ boot = SINGLE_INITING => pc[c] \in {"idle", "cas", "spin"}
       /\ pc[c] # "panic"

LEMMA InitIInv == Init => IInv
BY BootBytesAssumption DEF Init, IInv, TypeOK, WaitHasInitialiser, SINGLE_INITING, SINGLE_INITED

LEMMA NextIInv == IInv /\ [Next]_vars => IInv'
<1> SUFFICES ASSUME IInv, [Next]_vars PROVE IInv'
  OBVIOUS
<1> USE DEF IInv, TypeOK, WaitHasInitialiser, Goto, SINGLE_UNINIT, SINGLE_INITING, SINGLE_INITED
<1>1. ASSUME NEW c \in Contexts, Call(c) PROVE IInv'
  BY <1>1 DEF Call
<1>2. ASSUME NEW c \in Contexts, CompareExchange(c) PROVE IInv'
  BY <1>2 DEF CompareExchange
<1>3. ASSUME NEW c \in Contexts, SpinEnds(c) PROVE IInv'
  BY <1>3 DEF SpinEnds
<1>4. ASSUME NEW c \in Contexts, WriteDefault(c) PROVE IInv'
  BY <1>4 DEF WriteDefault
<1>5. ASSUME NEW c \in Contexts, StoreInited(c) PROVE IInv'
  BY <1>5 DEF StoreInited
<1>6. ASSUME NEW c \in Contexts, AssertInited(c) PROVE IInv'
  BY <1>6 DEF AssertInited
<1>7. ASSUME NEW c \in Contexts, Use(c) PROVE IInv'
  BY <1>7 DEF Use
<1>8. CASE UNCHANGED vars
  BY <1>8 DEF vars
<1> QED BY <1>1, <1>2, <1>3, <1>4, <1>5, <1>6, <1>7, <1>8 DEF Next, Step

LEMMA Invariance == Spec => []IInv
BY InitIInv, NextIInv, PTL DEF Spec

\* The state of the cell and of its callers is always well formed.
THEOREM TypeCorrect == Spec => []TypeOK
<1>1. IInv => TypeOK
  BY DEF IInv
<1> QED BY <1>1, Invariance, PTL

\* get and get_mut never return a reference to data that was not written,
\* whatever the byte held at boot but SINGLE_INITED, and return none when it
\* held SINGLE_INITING; the assertion at the end of init never fails.
THEOREM ReferencesInitialised == Spec => []ReferenceIsInitialised
<1>1. IInv => ReferenceIsInitialised
  BY DEF IInv, ReferenceIsInitialised
<1> QED BY <1>1, Invariance, PTL

\* Nobody waits at singleton.rs for an initialiser that is not there, unless
\* the byte already said SINGLE_INITING at boot.
THEOREM WaitsHaveInitialiser == Spec => []WaitHasInitialiser
<1>1. IInv => WaitHasInitialiser
  BY DEF IInv
<1> QED BY <1>1, Invariance, PTL

----------------------------------------------------------------------------
(* From a cleared byte.                                                    *)

Initialising(c) == pc[c] \in {"write", "store"}

\* The byte is SINGLE_INITING exactly as long as its one initialiser works,
\* and the data is used only after that.
Clear ==
  /\ inited \in {SINGLE_UNINIT, SINGLE_INITING, SINGLE_INITED}
  /\ \A c \in Contexts : Initialising(c) => inited = SINGLE_INITING
  /\ \A c, d \in Contexts : Initialising(c) /\ Initialising(d) => c = d
  /\ data = "used" => inited = SINGLE_INITED

ClearInv == IInv /\ (boot = SINGLE_UNINIT => Clear)

LEMMA InitClearInv == Init => ClearInv
<1> SUFFICES ASSUME Init PROVE ClearInv
  OBVIOUS
<1>1. IInv
  BY InitIInv
<1> QED BY <1>1 DEF Init, ClearInv, Clear, Initialising

LEMMA NextClearInv == ClearInv /\ [Next]_vars => ClearInv'
<1> SUFFICES ASSUME ClearInv, [Next]_vars PROVE ClearInv'
  OBVIOUS
<1>b. boot' = boot
  BY DEF Next, Step, Call, CompareExchange, SpinEnds, WriteDefault, StoreInited,
         AssertInited, Use, Goto, vars
<1> SUFFICES ASSUME boot = SINGLE_UNINIT, Clear PROVE Clear'
  BY <1>b, NextIInv DEF ClearInv
<1>0. IInv /\ IInv' /\ pc \in [Contexts -> {"idle", "cas", "spin", "write",
                               "store", "check", "use", "panic"}]
  BY NextIInv DEF ClearInv, IInv, TypeOK
<1>u. \A c \in Contexts : pc[c] = "use" => inited = SINGLE_INITED
  BY <1>0 DEF IInv
<1> USE <1>0 DEF Clear, Initialising, Goto,
                 SINGLE_UNINIT, SINGLE_INITING, SINGLE_INITED
<1>1. ASSUME NEW c \in Contexts, Call(c) PROVE Clear'
  BY <1>1 DEF Call
<1>2. ASSUME NEW c \in Contexts, CompareExchange(c) PROVE Clear'
  BY <1>2 DEF CompareExchange
<1>3. ASSUME NEW c \in Contexts, SpinEnds(c) PROVE Clear'
  BY <1>3 DEF SpinEnds
<1>4. ASSUME NEW c \in Contexts, WriteDefault(c) PROVE Clear'
  BY <1>4 DEF WriteDefault
<1>5. ASSUME NEW c \in Contexts, StoreInited(c) PROVE Clear'
  BY <1>5 DEF StoreInited
<1>6. ASSUME NEW c \in Contexts, AssertInited(c) PROVE Clear'
  BY <1>6 DEF AssertInited
<1>7. ASSUME NEW c \in Contexts, Use(c) PROVE Clear'
  BY <1>7, <1>u DEF Use
<1>8. CASE UNCHANGED vars
  BY <1>8 DEF vars
<1> QED BY <1>1, <1>2, <1>3, <1>4, <1>5, <1>6, <1>7, <1>8 DEF Next, Step

\* A cell that starts cleared is initialised by one context at a time,
\* however many race for it.
THEOREM SingleInitialiser == Spec => []OneInitialiser
<1>1. ClearInv => OneInitialiser
  <2> SUFFICES ASSUME ClearInv, boot = SINGLE_UNINIT
               PROVE  Cardinality({c \in Contexts : pc[c] \in {"write", "store"}}) <= 1
    BY DEF OneInitialiser
  <2> DEFINE S == {c \in Contexts : pc[c] \in {"write", "store"}}
  <2>1. S = {} \/ \E c \in Contexts : S = {c}
    BY DEF ClearInv, Clear, Initialising
  <2>2. Cardinality(S) \in {0, 1}
    BY <2>1, FS_EmptySet, FS_Singleton
  <2> QED BY <2>2
<1> QED BY <1>1, InitClearInv, NextClearInv, PTL DEF Spec

\* What callers have done to a cell that started cleared is never overwritten
\* by a second T::default().
THEOREM UsedIsNeverReset == Spec => UsedIsKept
<1>1. ClearInv /\ [Next]_vars => (boot = SINGLE_UNINIT /\ data = "used" => data' = "used")
  <2> SUFFICES ASSUME ClearInv, [Next]_vars, boot = SINGLE_UNINIT, data = "used"
               PROVE  data' = "used"
    OBVIOUS
  <2>1. ASSUME NEW c \in Contexts PROVE ~WriteDefault(c)
    BY DEF ClearInv, Clear, Initialising, WriteDefault, Goto, SINGLE_INITING,
           SINGLE_INITED
  <2> QED BY <2>1 DEF Next, Step, Call, CompareExchange, SpinEnds, StoreInited,
                      AssertInited, Use, vars
<1>2. ClearInv /\ [Next]_vars => 
        [boot = SINGLE_UNINIT /\ data = "used" => data' = "used"]_vars
  BY <1>1
<1> QED BY <1>2, InitClearInv, NextClearInv, PTL DEF Spec, UsedIsKept
============================================================================
