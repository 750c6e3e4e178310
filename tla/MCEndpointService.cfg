\* One caller making two management calls on one endpoint id with two
\* settings values, while one webhook request is served; response stream
\* of capacity 1 and up to three chunks.
CONSTANTS
    Admins = {a1}
    Eids = {e1}
    Values = {v1, v2}
    SecretSettings = TRUE
    NoRow = NoRow
    Empty = Empty
    MaxCalls <- MCMaxCalls
    StreamCap <- MCStreamCap
    MaxChunks <- MCMaxChunks
SPECIFICATION Spec
INVARIANT SuccessMeansApplied
PROPERTY SessionEventuallyClosed
PROPERTY StreamerEventuallyExits
