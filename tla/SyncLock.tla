------------------------------ MODULE SyncLock ------------------------------
(***************************************************************************)
(* The database lock that keeps two sync passes off the same mailbox: the  *)
(* pair (sync_in_progress, sync_lock_acquired_at) of a GmailConnection row *)
(* (the MailboxStatus row of the IMAP fallback has the same pair and the   *)
(* same three statements).  Every statement is one UPDATE with a WHERE     *)
(* clause, so every action below is atomic in the database.                *)
(*                                                                         *)
(* Time is kept as ages, counted in Ticks: lock_age is now minus           *)
(* sync_lock_acquired_at, run_age[p] is how long the pass of p has run.    *)
(* lock_age saturates one tick past StaleAfter, beyond which the code      *)
(* cannot tell two ages apart; run_age is bounded by MaxRun, the longest   *)
(* pass there is ("Real syncs take seconds, not minutes").                 *)
(***************************************************************************)
EXTENDS Naturals

CONSTANTS
    Proc,        \* whoever may start a pass: poller, push task, web worker
    NoOne,       \* the absence of a holder, for the abstract specification
    StaleAfter,  \* SYNC_LOCK_STALE_AFTER, in ticks
    MaxRun       \* the longest a pass may take, in ticks

\* What is assumed of them; a module that instantiates this one assumes it.
LockConstants ==
    /\ StaleAfter \in Nat
    /\ MaxRun \in Nat
    /\ NoOne \notin Proc

VARIABLES
    sync_in_progress,  \* column
    lock_age,          \* now - sync_lock_acquired_at
    running,           \* the processes between acquire and release
    run_age            \* [running process -> ticks since it acquired]

vars == <<sync_in_progress, lock_age, running, run_age>>

TypeOK ==
    /\ sync_in_progress \in BOOLEAN
    /\ lock_age \in 0..(StaleAfter + 1)
    /\ running \subseteq Proc
    /\ run_age \in [Proc -> 0..MaxRun]

Init ==
    /\ sync_in_progress = FALSE
    /\ lock_age = 0
    /\ running = {}
    /\ run_age = [p \in Proc |-> 0]

\* Mutants of Available: the comparison off by one, no takeover at all.
AvailableWhenAlmostStale == ~sync_in_progress \/ lock_age >= StaleAfter
AvailableWhenClear == ~sync_in_progress

\* WHERE sync_in_progress IS FALSE OR sync_lock_acquired_at < now - stale
Available == ~sync_in_progress \/ lock_age > StaleAfter

\* Mutant of Acquire: the WHERE is lost.
AcquireUnconditionally(p) ==
    /\ p \notin running
    /\ sync_in_progress' = TRUE
    /\ lock_age' = 0
    /\ running' = running \cup {p}
    /\ run_age' = [run_age EXCEPT ![p] = 0]

\* The UPDATE matched: rowcount is 1 and the pass begins.  An UPDATE that
\* matches no row changes nothing and the caller returns.
Acquire(p) ==
    /\ p \notin running
    /\ Available
    /\ sync_in_progress' = TRUE
    /\ lock_age' = 0
    /\ running' = running \cup {p}
    /\ run_age' = [run_age EXCEPT ![p] = 0]

\* The finally block: the flag is cleared by row id, whoever raised it.
Release(p) ==
    /\ p \in running
    /\ sync_in_progress' = FALSE
    /\ running' = running \ {p}
    /\ run_age' = [run_age EXCEPT ![p] = 0]
    /\ UNCHANGED lock_age

\* The process dies, or its session can no longer reach the row.
Abandon(p) ==
    /\ p \in running
    /\ running' = running \ {p}
    /\ run_age' = [run_age EXCEPT ![p] = 0]
    /\ UNCHANGED <<sync_in_progress, lock_age>>

Tick ==
    /\ \A p \in running : run_age[p] < MaxRun
    /\ lock_age' = IF lock_age > StaleAfter THEN lock_age ELSE lock_age + 1
    /\ run_age' = [p \in Proc |-> IF p \in running THEN run_age[p] + 1
                                                   ELSE run_age[p]]
    /\ UNCHANGED <<sync_in_progress, running>>

Next ==
    \/ \E p \in Proc : Acquire(p) \/ Release(p) \/ Abandon(p)
    \/ Tick

Spec == Init /\ [][Next]_vars

(***************************************************************************)
(* Beat starts a pass every minute and for ever, so some process takes a   *)
(* lock that stays available; time passes; a pass that is not killed ends. *)
(***************************************************************************)
Fairness ==
    /\ WF_vars(\E p \in Proc : Acquire(p))
    /\ WF_vars(Tick)
    /\ \A p \in Proc : WF_vars(Release(p))

FairSpec == Spec /\ Fairness

-----------------------------------------------------------------------------
\* At most one pass works on the mailbox (sync.py: "stops overlapping
\* syncs"), through crashes and takeovers of a stale lock.
OneRunner == \A p, q \in running : p = q

\* While a pass runs the flag is up: no release of an earlier holder has
\* cleared the lock of a later one (the release has no owner check).
RunnerHoldsFlag == running # {} => sync_in_progress

\* A crash that leaves the flag up never stops syncing for good: "a stale
\* lock is taken over after a timeout instead of deadlocking forever".
SyncingNeverStops == []<>(running # {})

\* The abstract holder of a lock state.
Holder == IF running = {} THEN NoOne ELSE CHOOSE p \in running : TRUE

Abstract == INSTANCE OneSync WITH holder <- Holder

\* The lock implements the one-holder promise of OneSync.
ImplementsOneSync == Abstract!Spec
=============================================================================
