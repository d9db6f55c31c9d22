\* Latin-1 texts in the chunks documented to hold Latin-1.
SPECIFICATION Spec
CONSTANTS
    Letters = {65, 233}
    MaxText = 2
    KeywordSizes = {1}
INVARIANT Latin1Survives
CHECK_DEADLOCK FALSE
