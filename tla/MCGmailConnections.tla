------------------------- MODULE MCGmailConnections -------------------------
(***************************************************************************)
(* An instance of GmailConnections for TLC.                                *)
(***************************************************************************)
EXTENDS GmailConnections, TLC

CONSTANTS inbox1, inbox2, req1, req2

TwoMailboxes   == {inbox1, inbox2}
TwoRequests    == {req1, req2}
FirstConnected == <<inbox1>>

Interchangeable == Permutations(Req)
=============================================================================
