--------------------------- MODULE SyncLockProofs ---------------------------
(***************************************************************************)
(* What SyncLock guarantees for any set of processes and any stale window, *)
(* provided no pass outlives the window.  Without that proviso a lock may  *)
(* be taken over from a live pass (instance gmail_faults of MCGmailSync).  *)
(***************************************************************************)
EXTENDS SyncLock, TLAPS

\* The invariant that is inductive: the flag is up while a pass runs and its
\* timestamp is as old as that pass, so a lock old enough to be taken over
\* belongs to a pass that is over.
LockInv ==
    /\ TypeOK
    /\ OneRunner
    /\ RunnerHoldsFlag
    /\ \A p \in running : lock_age = run_age[p]

-----------------------------------------------------------------------------
\* The type invariant is inductive by itself.
LEMMA TypeCorrectInit ==
  ASSUME LockConstants
  PROVE  Init => TypeOK
<1> SUFFICES ASSUME Init
             PROVE  TypeOK
  OBVIOUS
<1>1. sync_in_progress \in BOOLEAN
  BY DEF Init
<1>2. /\ lock_age \in 0..(StaleAfter + 1)
      /\ running \subseteq Proc
      /\ run_age \in [Proc -> 0..MaxRun]
  BY DEF LockConstants, Init
<1> QED
  BY <1>1, <1>2 DEF TypeOK

LEMMA TypeCorrectNext ==
  ASSUME LockConstants
  PROVE  TypeOK /\ [Next]_vars => TypeOK'
<1> SUFFICES ASSUME TypeOK, [Next]_vars
             PROVE  TypeOK'
  OBVIOUS
<1>1. (sync_in_progress \in BOOLEAN)'
  BY DEF TypeOK, Next, Acquire, Release, Abandon, Tick, vars
<1>2. (/\ lock_age \in 0..(StaleAfter + 1)
       /\ running \subseteq Proc
       /\ run_age \in [Proc -> 0..MaxRun])'
  <2> USE DEF LockConstants, TypeOK
  <2>1. ASSUME NEW p \in Proc, Acquire(p) \/ Release(p) \/ Abandon(p)
        PROVE  /\ lock_age' \in 0..(StaleAfter + 1)
               /\ running' \subseteq Proc
               /\ run_age' \in [Proc -> 0..MaxRun]
    BY <2>1 DEF Acquire, Release, Abandon
  <2>2. CASE Tick
    BY <2>2 DEF Tick
  <2>3. CASE UNCHANGED vars
    BY <2>3 DEF vars
  <2> QED
    BY <2>1, <2>2, <2>3 DEF Next
<1> QED
  BY <1>1, <1>2 DEF TypeOK

\* Type correctness (columns and ages keep their ranges), which needs no
\* assumption on how long a pass takes.
THEOREM TypeCorrect ==
  ASSUME LockConstants
  PROVE  Spec => []TypeOK
BY TypeCorrectInit, TypeCorrectNext, PTL DEF Spec

-----------------------------------------------------------------------------
\* The lock invariant holds when every pass ends within the stale window.
LEMMA LockInvInit ==
  ASSUME LockConstants
  PROVE  Init => LockInv
<1> SUFFICES ASSUME Init
             PROVE  LockInv
  OBVIOUS
<1>1. TypeOK
  BY TypeCorrectInit
<1>2. running = {}
  BY DEF Init
<1> QED
  BY <1>1, <1>2 DEF LockInv, OneRunner, RunnerHoldsFlag

LEMMA LockInvNext ==
  ASSUME LockConstants, MaxRun <= StaleAfter, LockInv, [Next]_vars
  PROVE  LockInv'
<1> USE DEF LockConstants, LockInv, OneRunner, RunnerHoldsFlag
<1>1. TypeOK'
  BY TypeCorrectNext
<1>2. ASSUME NEW p \in Proc, Acquire(p)
      PROVE  LockInv'
  \* An available lock is one nobody runs under: the flag is down, or the
  \* lock is older than any running pass can be.
  <2>1. ASSUME NEW q \in running
        PROVE  FALSE
    <3>1. lock_age > StaleAfter
      BY <1>2, <2>1 DEF Acquire, Available
    <3>2. lock_age <= MaxRun
      BY <2>1 DEF TypeOK
    <3> QED
      BY <3>1, <3>2 DEF TypeOK
  <2>2. running' = {p}
    BY <1>2, <2>1 DEF Acquire
  <2>3. sync_in_progress'
    BY <1>2 DEF Acquire
  <2>4. lock_age' = run_age'[p]
    BY <1>2 DEF Acquire, TypeOK
  <2> QED
    BY <1>1, <2>2, <2>3, <2>4
<1>3. ASSUME NEW p \in running, running' = running \ {p}
      PROVE  LockInv'
  <2>1. running' = {}
    BY <1>3
  <2> QED
    BY <1>1, <2>1
<1>4. CASE Tick
  <2>1. RunnerHoldsFlag' /\ OneRunner'
    BY <1>4 DEF Tick
  <2>2. ASSUME NEW p \in running
        PROVE  lock_age' = run_age'[p]
    BY <1>4, <2>2 DEF Tick, TypeOK
  <2> QED
    BY <1>1, <1>4, <2>1, <2>2 DEF Tick
<1>5. CASE UNCHANGED vars
  BY <1>1, <1>5 DEF vars
<1> QED
  BY <1>2, <1>3, <1>4, <1>5 DEF Next, Release, Abandon

LEMMA LockInvariant ==
  ASSUME LockConstants, MaxRun <= StaleAfter
  PROVE  Spec => []LockInv
<1>1. LockInv /\ [Next]_vars => LockInv'
  BY LockInvNext
<1> QED
  BY LockInvInit, <1>1, PTL DEF Spec

\* No two passes ever work on the mailbox at once, crashes and takeovers
\* included, if no pass outlives the stale window.
THEOREM MutualExclusion ==
  ASSUME LockConstants, MaxRun <= StaleAfter
  PROVE  Spec => []OneRunner
<1>1. LockInv => OneRunner
  BY DEF LockInv
<1> QED
  BY LockInvariant, <1>1, PTL

\* The release, which does not check who owns the lock, never clears it
\* under a pass that still runs.
THEOREM FlagUpWhileRunning ==
  ASSUME LockConstants, MaxRun <= StaleAfter
  PROVE  Spec => []RunnerHoldsFlag
<1>1. LockInv => RunnerHoldsFlag
  BY DEF LockInv
<1> QED
  BY LockInvariant, <1>1, PTL

-----------------------------------------------------------------------------
\* Every step of the lock is a step of the one-holder specification or
\* leaves the holder alone.
LEMMA HolderStep ==
  ASSUME LockConstants, MaxRun <= StaleAfter, LockInv, [Next]_vars
  PROVE  [Abstract!Next]_Holder
<1> USE DEF LockConstants, LockInv, TypeOK, OneRunner, RunnerHoldsFlag
<1>1. ASSUME NEW p \in Proc, Acquire(p)
      PROVE  Abstract!Next
  <2>1. running = {}
    BY <1>1 DEF Acquire, Available
  <2>2. running' = {p}
    BY <1>1, <2>1 DEF Acquire
  <2>3. Holder = NoOne /\ Holder' = p
    BY <2>1, <2>2 DEF Holder
  <2> QED
    BY <2>3 DEF Abstract!Next, Abstract!Start
<1>2. ASSUME NEW p \in Proc, p \in running, running' = running \ {p}
      PROVE  Abstract!Next
  <2>1. running = {p} /\ running' = {}
    BY <1>2
  <2>2. Holder = p /\ Holder' = NoOne
    BY <2>1 DEF Holder
  <2> QED
    BY <2>2 DEF Abstract!Next, Abstract!Leave
<1>3. ASSUME running' = running
      PROVE  Holder' = Holder
  BY <1>3 DEF Holder
<1> QED
  BY <1>1, <1>2, <1>3 DEF Next, Release, Abandon, Tick, vars

\* The lock implements OneSync: seen from outside there is one holder or
\* none, and it changes only by a start or an end.
THEOREM LockRefinesOneSync ==
  ASSUME LockConstants, MaxRun <= StaleAfter
  PROVE  Spec => ImplementsOneSync
<1>1. Init => Abstract!Init
  BY DEF Init, Abstract!Init, Holder
<1>2. LockInv /\ [Next]_vars => [Abstract!Next]_Holder
  BY HolderStep
<1> QED
  BY LockInvariant, <1>1, <1>2, PTL DEF Spec, ImplementsOneSync, Abstract!Spec
=============================================================================
