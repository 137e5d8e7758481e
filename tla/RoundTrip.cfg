\* A TTL of one tick; two samples per reply.
CONSTANTS
    CallId = {"c1", "c2"}
    Utility = {"u"}
    Client = {"c1", "c2", "u"}
    Entry <- MCEntry
    Made <- MCMade
    Junk <- MCJunk
    Scopes <- MCScopes
    MaxSamples = 2
SPECIFICATION RTSpec
INVARIANTS ForwardedIsStored RawForCause RestoredByOwnEntry
PROPERTIES ImplementsVault
CHECK_DEADLOCK FALSE
