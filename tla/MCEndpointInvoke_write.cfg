\* The copying goroutine against the handler's return: does it write to
\* the gin context after the handler has returned?
CONSTANTS
    StreamCap <- MCStreamCap
    MaxChunks <- MCMaxChunks
SPECIFICATION Spec
INVARIANT NoWriteAfterReturn
