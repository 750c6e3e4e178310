----------------------------- MODULE MCLifetime -----------------------------
(* Model-checking instance of Lifetime.  Five init failures let the        *)
(* "failedTimes > 3" branch publish the error and still leave one more     *)
(* failed retry; two restarts exercise the restart loop twice.             *)
EXTENDS Lifetime

MCMaxInitFailures == 5
MCMaxRestarts == 2
MCMaxTicks == 1
=============================================================================
