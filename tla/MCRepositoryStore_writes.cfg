CONSTANTS
    Request = {1, 2, 3}
    Name <- Spelled
    NoName = NoName
    MaxLength = 5
    Parse <- MCParse
    Fold <- MCFold
    PoolSize = 2
    MaxLimit = 1
    Offered = {"create", "delete"}
    Asked <- FirstPage
    MaxClock = 2
    Hazards = {"error", "kill"}
SPECIFICATION Spec
INVARIANTS
    NamesUnique
    CreateAnswersTruthfully
    DeleteAnswersTruthfully
    ConnectionsReturned
    NamesFollowTheGrammar
PROPERTY
    RowsOnlyAge
