CONSTANTS
    MaxCalls = 2
    MaxFds = 1
    Ops <- OneOfEach
    Polls = "on NULL"
SPECIFICATION Spec
INVARIANTS
    NullMeansFailedStep
