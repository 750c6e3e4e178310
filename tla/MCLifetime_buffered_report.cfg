\* errChan with capacity 1: the installer may take launchedChan first.
CONSTANTS
    ErrChanCaps = {1}
    MaxInitFailures <- MCMaxInitFailures
    MaxRestarts <- MCMaxRestarts
    MaxTicks <- MCMaxTicks
SPECIFICATION Spec
INVARIANT InstallReportMatchesInit
