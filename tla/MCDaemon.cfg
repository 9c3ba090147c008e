CONSTANTS
    all = all
    other = other
    partial = partial
    stranger = stranger
    base = base
    verbose = verbose
    retuned = retuned
    Request = {all, partial, stranger}
    Query <- MCQuery
    Trusted = {all, partial}
    NoRequest = {all, partial, stranger}
    Places = 1
    Config = {base, verbose, retuned}
    Notable <- MCNotable
    Malformed = Malformed
SPECIFICATION LoopFairSpec
INVARIANTS AcceptedInOrder
PROPERTIES AcceptedIsHandled ScansForever ReloadCatchesUp
