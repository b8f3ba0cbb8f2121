\* Documents and sources, one of the two at a time.
SPECIFICATION MCSpec
CONSTANTS
    Docs <- MCDocs
    Separators <- MCSeparators
    MaxTokens = 3
    Texts <- MCTexts
    Literals <- MCLiterals
    Idents <- MCIdents
    Values <- MCValues
    RunStatuses = {"", "running"}
INVARIANTS
    CycleVerdict
    RunsInOrder
    Grouping
\* A document is layered, or refused; a string is rendered once.
CHECK_DEADLOCK FALSE
