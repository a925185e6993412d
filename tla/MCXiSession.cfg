CONSTANTS
    MaxCalls = 2
    MaxFds = 1
    Ops <- AllOps
    Polls = "on NULL"
SPECIFICATION FairSpec
INVARIANTS
    TypeOK
    Quiescent
    NullMeansError
    OwnReply
    OutcomeIsTrue
    ResidueOnlyFromOpen
    ErrorNamesFault
    NullMeansFault
PROPERTIES
    RemoteSpec
    CallReturns
