SPECIFICATION TextSpec
CONSTANTS
    None = None
    MaxCharacters = 3
    Texts <- MCTexts
    Characters <- MCCharacters
INVARIANTS
    StaysInside
    CharactersArrive
    FindsEverySequence
    ResendingSettles
PROPERTIES
    ConversionsEnd
CHECK_DEADLOCK FALSE
