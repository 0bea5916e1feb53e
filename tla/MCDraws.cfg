SPECIFICATION DrawSpec
CONSTANTS
    CharMax = 9
    WordSize = 12000
    RandSize = 16
    SeedFactor = 5
    HighFactor = 3
    LowFactor = 13
    None = None
    ChallengeLimit = 10
    Seeds <- MCSeeds
    Ranges <- MCRanges
    Starts <- MCStarts
    Challenges <- MCChallenges
CHECK_DEADLOCK FALSE
INVARIANTS
    WithinRange
    LuckDecidesNothing
    PeerRecoversStart
    AnswerFitsThree
PROPERTIES
    StepsAreDoubleWords
