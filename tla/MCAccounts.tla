----------------------------- MODULE MCAccounts -----------------------------
(***************************************************************************)
(* An instance of Accounts for TLC: ann and bob are seeded.                *)
(***************************************************************************)
EXTENDS Accounts, TLC

CONSTANTS ann, bob, eve, dan, mail1, browser1, browser2

People      == {ann, bob, eve, dan}
OneEmail    == {mail1}
TwoBrowsers == {browser1, browser2}
Interchangeable == Permutations({eve, dan}) \cup Permutations(TwoBrowsers)
SeededPair  == << <<ann, "admin">>, <<bob, "admin">> >>
=============================================================================
