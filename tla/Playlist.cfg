SPECIFICATION Spec
CONSTANTS
    MaxAmount = 3
    MaxSeek = 4
    Seeds = {1, 2}
    Perm <- MCPerm
    Steps <- MCSteps
    Lapses = {}
INVARIANTS  CurrentStays AsDisplayed
