---------------------------- MODULE EndpointService ----------------------------
(***************************************************************************)
(* The endpoint service as a whole: management calls change the endpoint   *)
(* rows (EndpointSetup) while a webhook request is looked up against them  *)
(* and, when its checks pass, served by service.Endpoint (EndpointInvoke). *)
(* The request's outcome in EndpointSetup (rejected or invoked) is the     *)
(* branch service.Endpoint takes before its select.                        *)
(***************************************************************************)
CONSTANTS Admins, Eids, Values, SecretSettings, MaxCalls, NoRow, Empty,
          StreamCap, MaxChunks

VARIABLES rows, installed, call, calls, hook, hookRow,
          handler, streamer, sessionOpen, buf, produced, pluginClosed,
          respClosed, closedFlag, doneCloses, clientGone, writesAfterReturn

svars == <<rows, installed, call, calls, hook, hookRow>>
ivars == <<handler, streamer, sessionOpen, buf, produced, pluginClosed,
           respClosed, closedFlag, doneCloses, clientGone, writesAfterReturn>>
vars == <<svars, ivars>>

S == INSTANCE EndpointSetup
I == INSTANCE EndpointInvoke

Init == S!Init /\ I!Init

\* The gin handler of the webhook request: lookup, checks, then the
\* handler's part of service.Endpoint.
RequestHandler ==
    \/ (\E e \in Eids : S!HookLookup(e)) /\ UNCHANGED ivars
    \/ S!HookServeRejected /\ I!PrepareReturns
    \/ S!HookServeInvoked /\ I!PrepareInvokes
    \/ (I!SelectDone \/ I!SelectClientGone \/ I!SelectTimeout) /\ UNCHANGED svars

Streamer == I!Streamer /\ UNCHANGED svars

Environment ==
    \/ (\E a \in Admins : S!Admin(a)) /\ UNCHANGED ivars
    \/ S!ToggleInstalled /\ UNCHANGED ivars
    \/ (I!PluginChunk \/ I!PluginClose \/ I!ClientClose) /\ UNCHANGED svars

Next == RequestHandler \/ Streamer \/ Environment

\* The request's goroutine and the copying goroutine are scheduled (and the
\* 240 s timer bounds the select); callers and the plugin are not.
Spec == Init /\ [][Next]_vars /\ WF_vars(RequestHandler) /\ WF_vars(Streamer)

-----------------------------------------------------------------------------
(* Properties: those of the two components, under the composition          *)

\* Every session the request opens is closed (see EndpointInvoke).
SessionEventuallyClosed == I!SessionEventuallyClosed

\* The copying goroutine ends after the handler returns (see EndpointInvoke).
StreamerEventuallyExits == I!StreamerEventuallyExits

\* A management call that returned success has taken effect (see
\* EndpointSetup).
SuccessMeansApplied == S!SuccessMeansApplied

=============================================================================
