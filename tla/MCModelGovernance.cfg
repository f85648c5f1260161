SPECIFICATION Spec
CONSTANTS
    web1 = web1  web2 = web2  trainer1 = trainer1  trainer2 = trainer2
    fix1 = fix1
    Web <- TwoWebs
    Trainer <- TwoTrainers
    Classifier <- OneWeb
    Correction <- OneCorrection
    MaxTrainings = 3
    MaxPromotions = 2
    Faults <- FaultNames
    MaxFaults = 1
    MaxEvents = 4
SYMMETRY Interchangeable
INVARIANTS
    RowDescribesModel
    CorrectionsFoldedOnce
    OnlyReviewedIsLive
    CurrentIsServed
    AnswersAreFresh
CHECK_DEADLOCK FALSE
