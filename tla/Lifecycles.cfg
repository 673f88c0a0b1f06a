SPECIFICATION Spec
INVARIANTS
    NoStageSkipped
    ReviewedInOrder
    NeverStranded
PROPERTY
    FinishedStaysFinished
