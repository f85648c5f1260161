---------------------------- MODULE MCGmailSync ----------------------------
(***************************************************************************)
(* Instances of GmailSync for TLC.  A tick is the whole stale window, so   *)
(* that a pass of at most one tick never loses its lock and a pass of two  *)
(* may.  Every bound is a constant of the configuration.                   *)
(***************************************************************************)
EXTENDS GmailSync, TLC

CONSTANTS poller, web, mail1, mail2, mail3

TwoSyncers == {poller, web}
OneSyncer  == {poller}
TwoMails   == {mail1, mail2}
RefusedMail == {mail1}
ThreeMails == {mail1, mail2, mail3}

TwoInterchangeable == Permutations(TwoSyncers)
Interchangeable == Permutations(TwoSyncers) \cup Permutations(ThreeMails)

\* Every failure after which the pass itself ends what it began: nothing is
\* killed, no row refused.
SurvivableFaults ==
    {"connect", "refused", "discover", "expired", "retrieve", "classify",
     "raise", "action"}

\* Failures after which the message is not given up.
PassEndingFaults ==
    {"connect", "refused", "discover", "raise", "action", "crash"}
=============================================================================
