\* Limits 1, 2 and 3, with one line of context and without.
SPECIFICATION Spec
CONSTANTS
    Vaults <- MCVaults
    PathText <- MCPathText
    NoText = ""
    Requested = {0, 1, 2, 9}
    Contexts = {0, 1}
    DefaultMaxResults = 2
    MaxResultsCeiling = 3
INVARIANTS
    TypeOK
    ResultInOrder
    SuccessIsComplete
    TruncatedIfMore
    MatchlessOnlyAtTheCut
CHECK_DEADLOCK FALSE
