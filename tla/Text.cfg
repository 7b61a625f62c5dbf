SPECIFICATION TextSpec
CONSTANTS
    NONE = NONE
    LineCutoff = 4
    Inputs <- MCInputs
    Expected <- MCExpected
    MaxToken = 7
    History = 1
    CompactAt = 2
    DrainAt = 2
    Documents <- BytesDocuments
INVARIANTS DecodedExpected ContextKept PositionsExpected TokensExpected DeliveredPromptly ProgressKept PlacesExpected
