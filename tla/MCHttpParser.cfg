CONSTANTS
    MaxHeaders = 3
    Replies <- SmallReplies
SPECIFICATION Spec
INVARIANTS TypeOK OnlyThisReply ChecklistLeads AcceptsExactly NullMeansError
CHECK_DEADLOCK FALSE
