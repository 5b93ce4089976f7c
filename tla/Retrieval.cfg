\* Two clients of one FAISS store, two ids, two calls, one process killed; two writes to
\* every backend; searches of collections of up to two records, one of them returned.
SPECIFICATION RetrievalSpec
CONSTANTS
    Client = {c1, c2}
    Id = {i1, i2}
    Contract = {"a", "b"}
    Nobody = nobody
    MaxCalls = 2
    MaxCrashes = 1
    MaxWrites = 2
    Field = {0, 1, 2}
    MaxRecords = 2
    TopK = 1
    Overfetch = 2
SYMMETRY Symmetry
INVARIANTS TypesOK StoreSurvives BackendsHold
PROPERTY WritesAreExact
