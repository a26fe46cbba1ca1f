CONSTANT MaxCandidates = 3
CONSTANT NoAttempt = NoAttempt
SPECIFICATION Spec
INVARIANT TypeOK
INVARIANT GatesInOrder
INVARIANT AssessmentsAgree
PROPERTY ImplementsContract
PROPERTY EveryVerificationEnds
CHECK_DEADLOCK FALSE
