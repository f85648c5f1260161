------------------------- MODULE MCModelGovernance -------------------------
(***************************************************************************)
(* An instance of ModelGovernance for TLC: two web processes promote while *)
(* two workers retrain, and one of the web processes classifies.           *)
(***************************************************************************)
EXTENDS ModelGovernance, TLC

CONSTANTS web1, web2, trainer1, trainer2, fix1

OneWeb        == {web1}
TwoWebs       == {web1, web2}
TwoTrainers   == {trainer1, trainer2}
OneCorrection == {fix1}

Interchangeable == Permutations(TwoTrainers)
=============================================================================
