----------------------------- MODULE MCImapSync -----------------------------
(***************************************************************************)
(* Instances of ImapSync for TLC.  A tick is longer than the stale window: *)
(* a pass that may see none keeps its lock, a pass that may see one can    *)
(* lose it to another.                                                     *)
(***************************************************************************)
EXTENDS ImapSync, TLC

CONSTANTS poller, web, admin, mail1, mail2, mail3

TwoSyncers == {poller, web}
OneAdmin   == {admin}
TwoMails   == {mail1, mail2}
ThreeMails == {mail1, mail2, mail3}
Unreadable == {mail3}
Distinct   == [m \in Msg |-> m]
Shared     == [m \in Msg |-> "one id"]

Interchangeable == Permutations(TwoSyncers) \cup Permutations(TwoMails)

\* What may go wrong with a pass.
PassFaults == {"fetch", "classify", "action", "id_clash", "database", "crash"}
=============================================================================
