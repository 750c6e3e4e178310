\* Two concurrent backwards invocations of one session, every kind, access
\* from a tool or a model plugin, three permission matrices.
CONSTANTS
    Requests = {r1, r2}
    PermSets <- MCPermSets
    MaxChunks <- MCMaxChunks
    StreamCap <- MCStreamCap
SPECIFICATION Spec
INVARIANT EndIsLastAndUnique
INVARIANT NoUnpermittedHostCall
INVARIANT GateMatchesReference
PROPERTY AcceptedEventuallyEnded
PROPERTY RelayEventuallyReturns
