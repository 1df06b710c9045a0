CONSTANT MaxInfos = 4
SPECIFICATION FairSpec
INVARIANTS TypeOK NoMessageWaits SubscribedInLoop PatientUserIsSafe PolitePromptedInTurn SignalsConsumed
PROPERTIES LongPollReturns TurnReachesUser
