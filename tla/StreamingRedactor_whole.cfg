\* The same answers; what is sent compared with the redaction of the whole.
SPECIFICATION Spec
CONSTANTS
    MaxPieces = 3
    Texts <- MCTexts
    MaxChunk = 3
    Window = 9
    Letters = {"a"}
    SsnParts <- MCParts
    CardMin = 4
    CardMax = 5
    TldMin = 2
INVARIANT
    SameAsWhole
