\* A malformed envelope that still carries its backwards_request_id: the
\* spec says the error is written under that id and the request is ended.
CONSTANTS
    Requests = {r1, r2}
    PermSets <- MCPermSets
    MaxChunks <- MCMaxChunks
    StreamCap <- MCStreamCap
SPECIFICATION Spec
INVARIANT RequestWithIdAnswered
