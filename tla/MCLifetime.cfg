\* errChan unbuffered or with capacity 1, chosen once per behaviour: the
\* report is right when unbuffered, and a stop during init is cleaned up
\* when buffered.
CONSTANTS
    ErrChanCaps = {0, 1}
    MaxInitFailures <- MCMaxInitFailures
    MaxRestarts <- MCMaxRestarts
    MaxTicks <- MCMaxTicks
SPECIFICATION Spec
INVARIANT TypeOK
INVARIANT UnbufferedReportMatchesInit
PROPERTY BufferedInitStopLeadsToCleanup

\* With an unbuffered errChan the supervisor can block forever in its send
\* (see MCLifetime_unbuffered_stuck.cfg); that stuck state is real.
CHECK_DEADLOCK FALSE
