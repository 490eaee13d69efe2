SPECIFICATION FairSpec
CONSTANT Emissions = {e1}
INVARIANTS
    EffectIsTraced
    SuccessIsReal
    AnswerIsTraced
    ObservationAgrees
PROPERTIES
    OutcomeIsFinal
    EmissionSettles
    SuccessIsMeasured
CHECK_DEADLOCK FALSE
