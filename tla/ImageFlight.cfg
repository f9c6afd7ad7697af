CONSTANTS
    Requests = {r1, r2, r3}
    Texts <- MCTexts
    Sources = {s1}
    Images <- MCImages
    Samples <- MCSamples
    Permits = 2
    MaxDim = 8
    DefaultMaxDim = 5
    One = 2
    NaN = NaN
    None = None
SPECIFICATION FairSpec
INVARIANTS
    TypeOK
    FlightsLed
    PermitsExact
    OwnRendition
    RenditionSized
    BlurExact
PROPERTIES
    EveryoneAnswered
    FailuresEnd
