CONSTANTS
    MaxCalls = 1
    MaxFds = 1
    Ops <- OneOfEach
    Polls = "always"
SPECIFICATION Spec
INVARIANTS
    SuccessIsDecoded
