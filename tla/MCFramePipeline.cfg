CONSTANTS
    StackCap = 2
    StoreCap = 1
    RenderCap = 1
    DrainCap = 2
    MaxEvents = 1
SPECIFICATION FairSpec
INVARIANTS
    TypeOK
    TheGateTellsTheTruth
    WhatIsAcceptedIsKept
PROPERTIES
    TheViewFollows
    ThePipelineEnds
