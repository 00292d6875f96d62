\* Chunks of any document; questions to corpora of three documents and one more.
SPECIFICATION Spec
CONSTANTS
    d1 = d1
    d2 = d2
    d3 = d3
    d4 = d4
    t1 = t1
    t2 = t2
    Documents = {d1, d2, d3, d4}
    TenantOf <- MCTenantOf
    TypeOf <- MCTypeOf
    Growth <- MCGrowth
    NamedIn <- MCNamedIn
    Cases <- MCCases
    ChunkSize = 6
    Overlap = 2
    MaxTopK = 4
    MaxContext = 16
    MinScore = 1
INVARIANTS
    ChunksKeepText
    Breadth
    SourcesAreShown
