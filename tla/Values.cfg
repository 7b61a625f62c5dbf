SPECIFICATION ValuesSpec
CONSTANTS
    NONE = NONE
    Root = root
    Children = {c1, c2}
    c1 = c1
    c2 = c2
    Scenarios <- MCScenarios
    Texts <- LexerTexts
    Settings <- TagSettings
    Tags <- TagTags
    EndNames <- TagEndNames
    MaxDepth = 2
    MaxAttributes = 4
    MaxEntityDepth = 2
    SmallList = 2
    MaxTokens = 4
SYMMETRY MCSlots
INVARIANTS ValuesExpected NoNameTwice ValuesApart ScanExpected ScopesRestored
PROPERTIES TagsExpected WorkCharged
