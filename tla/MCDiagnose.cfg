CONSTANT NoAttempt = NoAttempt
CONSTANT NoDecision = NoDecision
CONSTANT Configs <- AllConfigs
SPECIFICATION Spec
INVARIANT TypeOK
INVARIANT SecondCallHasACause
INVARIANT SchemaOnlyForEvidence
INVARIANT RememberedOnlyFullyVerified
INVARIANT AttemptsAreAccountedFor
INVARIANT ResultMatchesEvidence
PROPERTY EvidenceIsKept
PROPERTY EveryRunEnds
CHECK_DEADLOCK FALSE
