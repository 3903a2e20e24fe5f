\* Up to two items, which may name the same notice, of up to two claims.
SPECIFICATION ReviewSpec
CONSTANTS
    n1 = n1
    n2 = n2
    own = own
    shared = shared
    madeup = madeup
    Notices = {n1, n2}
    Hashes = {own, shared, madeup}
    Binding <- MCBinding
    Stored <- MCStored
    MaxItems = 2
    MaxClaims = 2
CHECK_DEADLOCK FALSE
INVARIANTS ClaimsStandOnEvidence 
