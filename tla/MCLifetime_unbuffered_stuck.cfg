\* errChan unbuffered: a timeout racing the error send leaves the
\* supervisor blocked, so Cleanup never runs.
CONSTANTS
    ErrChanCaps = {0}
    MaxInitFailures <- MCMaxInitFailures
    MaxRestarts <- MCMaxRestarts
    MaxTicks <- MCMaxTicks
SPECIFICATION Spec
PROPERTY InitStopLeadsToCleanup
CHECK_DEADLOCK FALSE
