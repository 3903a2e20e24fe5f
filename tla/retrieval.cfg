\* Three versions, of which two can be returned by each of the ranked queries.
SPECIFICATION RetrievalSpec
CONSTANTS
    v1 = v1
    v2 = v2
    v3 = v3
    Versions = {v1, v2, v3}
    Corpora <- MCCorpora
    Queries <- MCQueries
    TopK = 2
    RrfK = 60
CHECK_DEADLOCK FALSE
INVARIANTS FilterComesFirst FusionKeepsAgreement PairsAreMutual SpansResolve
