--------------------------- MODULE SessionListener ---------------------------
(***************************************************************************)
(* What a plugin runtime's Listen/Write pair promises the session that    *)
(* listens (spec 4.5 and 4.11): Listen(s) registers a broadcast for s; a  *)
(* Write that finds it is answered by zero or more session messages, then *)
(* exactly one END message, after which the broadcast is closed and       *)
(* removed from the runtime's registry.  Nothing follows END.             *)
(*                                                                         *)
(* It is the abstract specification that ServerlessIO implements: the     *)
(* refinement is checked as a PROPERTY of ServerlessIO's run.             *)
(***************************************************************************)
EXTENDS Sequences

CONSTANTS
    Sessions,    \* session ids
    Payloads,    \* kinds of session message other than END
    END          \* the SESSION_MESSAGE_TYPE_END message

VARIABLES
    phase,       \* phase[s]: where the listener of session s is
    out,         \* out[s]: the messages the listener of s has delivered
    registered   \* sessions whose listener the runtime still holds

vars == <<phase, out, registered>>

Phases == {"none", "listening", "answering", "ended", "closed"}

TypeOK ==
    /\ phase \in [Sessions -> Phases]
    /\ out \in [Sessions -> Seq(Payloads \cup {END})]
    /\ registered \subseteq Sessions

Init ==
    /\ phase = [s \in Sessions |-> "none"]
    /\ out = [s \in Sessions |-> <<>>]
    /\ registered = {}

Listen(s) ==
    /\ phase[s] = "none"
    /\ phase' = [phase EXCEPT ![s] = "listening"]
    /\ registered' = registered \cup {s}
    /\ UNCHANGED out

\* A Write for s has been accepted by the runtime.
Accept(s) ==
    /\ phase[s] = "listening"
    /\ phase' = [phase EXCEPT ![s] = "answering"]
    /\ UNCHANGED <<out, registered>>

Emit(s, m) ==
    /\ phase[s] = "answering"
    /\ out' = [out EXCEPT ![s] = Append(@, m)]
    /\ UNCHANGED <<phase, registered>>

End(s) ==
    /\ phase[s] = "answering"
    /\ out' = [out EXCEPT ![s] = Append(@, END)]
    /\ phase' = [phase EXCEPT ![s] = "ended"]
    /\ UNCHANGED registered

Close(s) ==
    /\ phase[s] = "ended"
    /\ phase' = [phase EXCEPT ![s] = "closed"]
    /\ UNCHANGED <<out, registered>>

Release(s) ==
    /\ phase[s] = "closed"
    /\ s \in registered
    /\ registered' = registered \ {s}
    /\ UNCHANGED <<phase, out>>

Next ==
    \E s \in Sessions :
        \/ Listen(s) \/ Accept(s) \/ End(s) \/ Close(s) \/ Release(s)
        \/ \E m \in Payloads : Emit(s, m)

\* An accepted Write is answered: END, close and release each happen.
Spec ==
    /\ Init /\ [][Next]_vars
    /\ \A s \in Sessions : WF_vars(End(s)) /\ WF_vars(Close(s))
                           /\ WF_vars(Release(s))

=============================================================================
