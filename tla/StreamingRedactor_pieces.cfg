\* Every answer of up to three pieces, cut into chunks in every way.
SPECIFICATION Spec
CONSTANTS
    MaxPieces = 3
    Texts <- MCTexts
    MaxChunk = 3
    Window = 12
    Letters = {"a"}
    SsnParts <- MCParts
    CardMin = 5
    CardMax = 6
    TldMin = 2
INVARIANTS
    TypeOK
    NothingLost
    SecretsHidden
