\* Two workers that may fail anywhere; an edited document and a shared one.
SPECIFICATION IngestSpec
CONSTANTS
    w1 = w1
    w2 = w2
    t1 = t1
    t2 = t2
    d1 = d1
    d2 = d2
    Tenants = {t1, t2}
    Documents = {d1, d2}
    Contents <- Texts
    Pieces <- MCPieces
    MaxPieces = 2
    Settings = {"a", "b"}
    Nobody = Nobody
    Workers = {w1, w2}
    Uploads <- SharedCorpus
    MaxFailures = 2
INVARIANTS
    OneVersion
    RestIsServed
