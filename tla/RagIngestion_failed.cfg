\* An ingestion fails between two of its transactions and is repeated.
SPECIFICATION IngestSpec
CONSTANTS
    w1 = w1
    w2 = w2
    t1 = t1
    t2 = t2
    d1 = d1
    d2 = d2
    Tenants = {t1, t2}
    Documents = {d1, d2}
    Contents <- Texts
    Pieces <- MCPieces
    MaxPieces = 2
    Settings = {"a"}
    Nobody = Nobody
    Workers = {w1}
    Uploads <- Edited
    MaxFailures = 1
INVARIANT RemovedIsGone
