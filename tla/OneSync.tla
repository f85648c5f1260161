------------------------------ MODULE OneSync ------------------------------
(***************************************************************************)
(* What the per-mailbox sync lock promises, in the words of the README     *)
(* ("stops the two from ever running concurrently against the same         *)
(* mailbox") and of the comments on sync_in_progress: one holder at a      *)
(* time, and a holder that gives the mailbox back by finishing or by       *)
(* dying.  How the lock is stored, how old it may grow and how it is taken *)
(* over are the business of SyncLock.                                      *)
(***************************************************************************)
CONSTANTS Proc, NoOne

VARIABLE holder

Init == holder = NoOne

Start(p) == holder = NoOne /\ holder' = p

Leave == holder # NoOne /\ holder' = NoOne

Next == Leave \/ \E p \in Proc : Start(p)

Spec == Init /\ [][Next]_holder
=============================================================================
