\* One caller, two endpoint ids, two settings values, secret settings (so
\* the host is called), three management calls.
CONSTANTS
    Admins = {a1}
    Eids = {e1, e2}
    Values = {v1, v2}
    SecretSettings = TRUE
    NoRow = NoRow
    Empty = Empty
    MaxCalls <- MCMaxCalls
SPECIFICATION Spec
INVARIANT TypeOK
INVARIANT SuccessMeansApplied
