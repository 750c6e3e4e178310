\* A failed management call must leave the endpoint rows as it found them.
CONSTANTS
    Admins = {a1}
    Eids = {e1, e2}
    Values = {v1, v2}
    SecretSettings = TRUE
    NoRow = NoRow
    Empty = Empty
    MaxCalls <- MCMaxCalls
SPECIFICATION Spec
INVARIANT FailedCallLeftRowsUnchanged
