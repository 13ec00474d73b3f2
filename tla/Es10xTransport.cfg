CONSTANTS
    Mss <- MCMss
    P2Mod <- MCP2Mod
    BodyCap <- MCBodyCap
    Byte <- MCByte
    Requests <- MCRequests
    Answers <- MCAnswers
SPECIFICATION FairSpec
INVARIANTS TypeOK OkMeansExecuted AtMostOnce BlocksAreSound
PROPERTIES Implements CallReturns
