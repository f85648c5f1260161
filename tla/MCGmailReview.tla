--------------------------- MODULE MCGmailReview ---------------------------
(***************************************************************************)
(* Instances of GmailReview for TLC; time as in MCGmailSync.               *)
(***************************************************************************)
EXTENDS GmailReview

CONSTANTS poller, alice, bob, mail1

OneSyncer == {poller}
TwoAdmins == {alice, bob}
OneMail   == {mail1}
=============================================================================
