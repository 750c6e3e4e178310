----------------------- MODULE MCBackwardsInvocation -----------------------
(* Model values for BackwardsInvocation.                                  *)
EXTENDS BackwardsInvocation

\* Permission matrices of the unit tests and one in between: everything
\* allowed, nothing allowed (an empty Resource), and llm alone.
MCPermSets == {Flags, {}, {"model", "llm"}}

MCMaxChunks == 3

\* One slot is enough for the relay to block on a full stream.
MCStreamCap == 1
====
