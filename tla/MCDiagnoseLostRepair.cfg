CONSTANT NoAttempt = NoAttempt
CONSTANT NoDecision = NoDecision
CONSTANT Configs <- PolicyConfigs
SPECIFICATION Spec
INVARIANT ReceivedAnswerHasCandidate
CHECK_DEADLOCK FALSE
