CONSTANT MaxRetries = 2
CONSTANT Replies <- AllReplies
CONSTANT NoReply = NoReply
SPECIFICATION Spec
INVARIANT TypeOK
INVARIANT RequestsAreBounded
INVARIANT CurableIsCured
PROPERTY QuietAfterVerdict
PROPERTY EveryCallEnds
CHECK_DEADLOCK FALSE
