------------------------- MODULE BackwardsInvocation -------------------------
(***************************************************************************)
(* Backwards invocations of one plugin session: InvokeMlchain and the      *)
(* tasks it dispatches, src/internal/core/plugin_daemon/backwards_invocation/task.go. *)
(*                                                                         *)
(* Each request is parsed and gated synchronously by InvokeMlchain; an     *)
(* accepted request runs on its own pool worker, which enriches it,        *)
(* dispatches on its type, calls the host and writes response envelopes.  *)
(* All envelopes of the session go to one writer, `wire`, tagged with the  *)
(* request they answer; the host API and the session accessors are        *)
(* environment and may fail at each call.  A streamed host response comes *)
(* through the relay goroutine of StreamResponse                           *)
(* (src/internal/core/mlchain_invocation/real/http_request.go), which      *)
(* copies the HTTP stream into a bounded stream that the task reads.       *)
(***************************************************************************)
EXTENDS Naturals, Sequences, SequencesExt

CONSTANTS
    Requests,       \* backwards_request_ids the plugin sends
    PermSets,       \* permission matrices the session's declaration may have
    MaxChunks,      \* bound on the chunks of one streamed host response
    StreamCap       \* capacity of StreamResponse's stream (1024 in the code)

ASSUME MaxChunks \in Nat \ {0} /\ StreamCap \in Nat \ {0}

VARIABLES
    perms,          \* the declaration's permission flags (fixed per session)
    req,            \* req[r]: the envelope received for r
    phase,          \* phase[r]: where the handling of r is
    chunks,         \* chunks[r]: items the relay has read from the host for r
    relay,          \* relay[r]: the StreamResponse goroutine of r
    buf,            \* buf[r]: items buffered in r's response stream
    wire            \* envelopes written to the session, in order

vars == <<perms, req, phase, chunks, relay, buf, wire>>

-----------------------------------------------------------------------------
(* Invocation kinds and permission flags                                   *)

StreamingKinds == {"tool", "llm", "tts", "app"}
UnaryKinds == {"text_embedding", "rerank", "speech2text", "moderation",
               "node_parameter_extractor", "node_question_classifier",
               "system_summary", "upload_file"}
\* The kinds a plugin may send (the envelope's "type").
Kinds == StreamingKinds \cup UnaryKinds \cup {"storage", "encrypt"}

\* Flags of the permission matrix; model kinds also need "model" (enabled).
Flags == {"tool", "model", "llm", "text_embedding", "rerank", "tts",
          "speech2text", "moderation", "node", "app", "storage"}

\* How the envelope bytes parse: "ok", or which check of InvokeMlchain and
\* prepareMlchainInvocationArguments fails.
Envelopes == {"ok", "bad_json", "no_type", "no_id", "no_request"}
AccessTypes == {"tool", "model"}
StorageOpts == {"get", "set", "del", "other"}

Phases == {"idle", "returned", "dispatched", "calling", "streaming", "done"}

\* The response types written under a request id; "error" carries why.
EnvTypes == {"stream", "struct", "end", "err_model", "err_denied",
             "err_unsupported", "err_session", "err_parse", "err_host"}

Request == [env: Envelopes, kind: Kinds, access: AccessTypes, opt: StorageOpts]

\* The envelopes the plugin may send: the opt only matters for storage, and
\* the kind and access type only for an envelope that parses.
Inputs == {e \in Request : /\ e.kind /= "storage" => e.opt = "get"
                           /\ e.env /= "ok" => e.kind = "tool" /\ e.access = "tool"}

\* Where the relay goroutine is: not started, at the loop top, holding a
\* chunk or an error it is writing to the stream, or returned.
RelayPC == {"none", "running", "chunk", "error", "closed"}

TypeOK ==
    /\ perms \subseteq Flags
    /\ req \in [Requests -> Request \cup {<<>>}]
    /\ phase \in [Requests -> Phases]
    /\ chunks \in [Requests -> 0..MaxChunks]
    /\ relay \in [Requests -> RelayPC]
    /\ buf \in [Requests -> Seq({"chunk", "error"})]
    /\ wire \in Seq([id: Requests, type: EnvTypes])

Init ==
    /\ perms \in PermSets
    /\ req = [r \in Requests |-> <<>>]
    /\ phase = [r \in Requests |-> "idle"]
    /\ chunks = [r \in Requests |-> 0]
    /\ relay = [r \in Requests |-> "none"]
    /\ buf = [r \in Requests |-> <<>>]
    /\ wire = <<>>

-----------------------------------------------------------------------------
(* The permission gate                                                     *)

\* PluginPermissionRequirement.AllowInvoke*: a model kind needs the model
\* section enabled and its own flag; "always" is upload_file's constant TRUE.
Allow(flag, P) ==
    CASE flag = "always" -> TRUE
      [] flag \in {"llm", "text_embedding", "rerank", "tts", "speech2text",
                   "moderation"} -> {"model", flag} \subseteq P
      [] OTHER -> flag \in P

\* Mutant: system_summary checked against the tool flag.
PermissionMappingSummaryTool ==
    [k \in Kinds \ {"encrypt"} |->
        CASE k \in {"node_parameter_extractor", "node_question_classifier"} -> "node"
          [] k = "system_summary" -> "tool"
          [] k = "upload_file"    -> "always"
          [] OTHER                -> k]

\* permissionMapping: the flag each kind's predicate checks.  encrypt has no
\* entry.
PermissionMapping ==
    [k \in Kinds \ {"encrypt"} |->
        CASE k \in {"node_parameter_extractor", "node_question_classifier"} -> "node"
          [] k = "system_summary" -> "llm"
          [] k = "upload_file"    -> "always"
          [] OTHER                -> k]

\* checkPermission: "unsupported" for a kind without an entry.
CheckPermission(k, P) ==
    IF k \notin DOMAIN PermissionMapping THEN "unsupported"
    ELSE IF Allow(PermissionMapping[k], P) THEN "ok" ELSE "denied"

\* dispatchMapping: the kinds that have a task.  encrypt has none.
DispatchMapping == Kinds \ {"encrypt"}

-----------------------------------------------------------------------------
(* Helpers                                                                 *)

\* Envelopes of types ts written under request r.
Envs(r, ts) == [i \in 1..Len(ts) |-> [id |-> r, type |-> ts[i]]]

\* A handler that writes ts and returns, after which EndResponse runs.
Finish(r, ts) ==
    /\ wire' = wire \o Envs(r, ts \o <<"end">>)
    /\ phase' = [phase EXCEPT ![r] = "done"]

-----------------------------------------------------------------------------
(* InvokeMlchain                                                           *)

\* Mutant: a denied request is answered and then dispatched as well.
InvokeMlchainNoReturnOnDenied(r, e) ==
    LET verdict == CheckPermission(e.kind, perms) IN
    /\ phase[r] = "idle"
    /\ req' = [req EXCEPT ![r] = e]
    /\ UNCHANGED <<perms, chunks, relay, buf>>
    /\ CASE e.env /= "ok" ->
              phase' = [phase EXCEPT ![r] = "returned"] /\ UNCHANGED wire
         [] e.access = "model" -> Finish(r, <<"err_model">>)
         [] verdict /= "ok" ->
              /\ wire' = wire \o Envs(r, <<IF verdict = "denied" THEN "err_denied"
                                         ELSE "err_unsupported", "end">>)
              /\ phase' = [phase EXCEPT ![r] = "dispatched"]
         [] OTHER -> phase' = [phase EXCEPT ![r] = "dispatched"] /\ UNCHANGED wire

\* Parse the envelope; a malformed one makes InvokeMlchain return an error
\* with nothing written.  Then reject calls from model plugins, consult the
\* gate, and submit the task to the pool.
InvokeMlchain(r, e) ==
    LET verdict == CheckPermission(e.kind, perms) IN
    /\ phase[r] = "idle"
    /\ req' = [req EXCEPT ![r] = e]
    /\ UNCHANGED <<perms, chunks, relay, buf>>
    /\ CASE e.env /= "ok" ->
              phase' = [phase EXCEPT ![r] = "returned"] /\ UNCHANGED wire
         [] e.access = "model" -> Finish(r, <<"err_model">>)
         [] verdict = "denied" -> Finish(r, <<"err_denied">>)
         [] verdict = "unsupported" -> Finish(r, <<"err_unsupported">>)
         [] OTHER -> phase' = [phase EXCEPT ![r] = "dispatched"] /\ UNCHANGED wire

-----------------------------------------------------------------------------
(* The pool worker: dispatchMlchainInvocationTask and the task it runs     *)

\* Mutant: a failing session accessor returns before EndResponse is set up.
DispatchSessionErrorNoEnd(r) ==
    /\ phase[r] = "dispatched"
    /\ \/ /\ wire' = Append(wire, [id |-> r, type |-> "err_session"])
          /\ phase' = [phase EXCEPT ![r] = "done"]
       \/ req[r].kind \notin DispatchMapping /\ Finish(r, <<"err_unsupported">>)
       \/ /\ req[r].kind \in DispatchMapping
          /\ \/ Finish(r, <<"err_parse">>)
             \/ phase' = [phase EXCEPT ![r] = "calling"] /\ UNCHANGED wire
    /\ UNCHANGED <<perms, req, chunks, relay, buf>>

\* TenantID and UserID of the session may fail; a type without a task is
\* unsupported; genericDispatchTask decodes the request into the task's
\* struct, which may fail.  Each failure writes one error and returns.
Dispatch(r) ==
    /\ phase[r] = "dispatched"
    /\ \/ Finish(r, <<"err_session">>)
       \/ req[r].kind \notin DispatchMapping /\ Finish(r, <<"err_unsupported">>)
       \/ /\ req[r].kind \in DispatchMapping
          /\ \/ Finish(r, <<"err_parse">>)
             \/ phase' = [phase EXCEPT ![r] = "calling"] /\ UNCHANGED wire
    /\ UNCHANGED <<perms, req, chunks, relay, buf>>

\* StreamResponse: RequestAndParseStream succeeded, the stream is made and
\* the relay goroutine submitted.
StartRelay(r) ==
    /\ phase' = [phase EXCEPT ![r] = "streaming"]
    /\ relay' = [relay EXCEPT ![r] = "running"]
    /\ UNCHANGED wire

\* Mutant: a unary task that ends its response itself, before the deferred
\* EndResponse.
CallHostEndsTwice(r) ==
    /\ phase[r] = "calling"
    /\ \/ /\ req[r].kind \in StreamingKinds
          /\ \/ Finish(r, <<"err_host">>) /\ UNCHANGED relay
             \/ StartRelay(r)
       \/ /\ req[r].kind \in UnaryKinds
          /\ UNCHANGED relay
          /\ \/ Finish(r, <<"err_host">>)
             \/ Finish(r, <<"struct", "end">>)
       \/ /\ req[r].kind = "storage"
          /\ UNCHANGED relay
          /\ IF req[r].opt = "other" THEN Finish(r, <<>>)
             ELSE \/ Finish(r, <<"err_host">>)
                  \/ Finish(r, <<"struct">>)
    /\ UNCHANGED <<perms, req, chunks, buf>>

\* Request, the unary call to the inner API: a transport or decoding
\* error, an error field, nil data or a failed validation is returned as an
\* error, which the task writes; otherwise the data, written as one struct.
HostRequest(r) == Finish(r, <<"err_host">>) \/ Finish(r, <<"struct">>)

\* The host call of the task.  A streaming kind gets a response stream or
\* an error; a unary kind one struct or an error; storage get/set/del one
\* struct or an error, and any other opt writes nothing.
CallHost(r) ==
    /\ phase[r] = "calling"
    /\ \/ /\ req[r].kind \in StreamingKinds
          /\ \/ Finish(r, <<"err_host">>) /\ UNCHANGED relay
             \/ StartRelay(r)
       \/ /\ req[r].kind \in UnaryKinds
          /\ UNCHANGED relay
          /\ HostRequest(r)
       \/ /\ req[r].kind = "storage"
          /\ UNCHANGED relay
          /\ IF req[r].opt = "other" THEN Finish(r, <<>>)
             ELSE \/ Finish(r, <<"err_host">>)
                  \/ Finish(r, <<"struct">>)
    /\ UNCHANGED <<perms, req, chunks, buf>>

\* The goroutine of StreamResponse, at the loop top: response.Next() is
\* false and the deferred newResponse.Close() runs, or one item is read.  A
\* Read error, an error field, nil data or a failed validation is to be
\* written as an error; anything else as a chunk.
Relay(r) ==
    /\ relay[r] = "running"
    /\ \/ /\ relay' = [relay EXCEPT ![r] = "closed"]
          /\ UNCHANGED chunks
       \/ /\ chunks[r] < MaxChunks
          /\ chunks' = [chunks EXCEPT ![r] = @ + 1]
          /\ \E item \in {"chunk", "error"} : relay' = [relay EXCEPT ![r] = item]
    /\ UNCHANGED <<perms, req, phase, buf, wire>>

\* Mutant: no break after WriteError; the loop goes on reading.
RelayWriteNoBreak(r) ==
    /\ relay[r] \in {"chunk", "error"}
    /\ Len(buf[r]) < StreamCap
    /\ buf' = [buf EXCEPT ![r] = Append(@, relay[r])]
    /\ relay' = [relay EXCEPT ![r] = "running"]
    /\ UNCHANGED <<perms, req, phase, chunks, wire>>

\* newResponse.Write or WriteError, blocking while the stream is full.
\* After an error the loop breaks and the deferred Close runs.
RelayWrite(r) ==
    /\ relay[r] \in {"chunk", "error"}
    /\ Len(buf[r]) < StreamCap
    /\ buf' = [buf EXCEPT ![r] = Append(@, relay[r])]
    /\ relay' = [relay EXCEPT ![r] = IF relay[r] = "error" THEN "closed"
                                                           ELSE "running"]
    /\ UNCHANGED <<perms, req, phase, chunks, wire>>

RelayStep(r) == Relay(r) \/ RelayWrite(r)

\* The task's `for response.Next() { value, err := response.Read() ... }`:
\* a chunk is written as a "stream" envelope.
StreamChunk(r) ==
    /\ phase[r] = "streaming"
    /\ buf[r] /= <<>> /\ Head(buf[r]) = "chunk"
    /\ buf' = [buf EXCEPT ![r] = Tail(@)]
    /\ wire' = Append(wire, [id |-> r, type |-> "stream"])
    /\ UNCHANGED <<perms, req, phase, chunks, relay>>

\* The loop ends: Read returns the relay's error, which is written before
\* the task returns, or Next is false once the stream is closed and drained.
StreamEnd(r) ==
    /\ phase[r] = "streaming"
    /\ \/ /\ buf[r] /= <<>> /\ Head(buf[r]) = "error"
          /\ buf' = [buf EXCEPT ![r] = Tail(@)]
          /\ Finish(r, <<"err_host">>)
       \/ /\ buf[r] = <<>> /\ relay[r] = "closed"
          /\ Finish(r, <<>>)
          /\ UNCHANGED buf
    /\ UNCHANGED <<perms, req, chunks, relay>>

-----------------------------------------------------------------------------

\* Every request answered or returned.
Quiescent ==
    /\ \A r \in Requests : phase[r] \in {"returned", "done"}
    /\ UNCHANGED vars

Worker(r) == Dispatch(r) \/ CallHost(r) \/ StreamChunk(r) \/ StreamEnd(r)

Next ==
    \/ \E r \in Requests, e \in Inputs : InvokeMlchain(r, e)
    \/ \E r \in Requests : Worker(r) \/ RelayStep(r)
    \/ Quiescent

\* Each dispatched task and each relay runs on its own pool worker, which
\* the scheduler runs; the plugin sends requests at will.
Spec == Init /\ [][Next]_vars
            /\ \A r \in Requests : WF_vars(Worker(r)) /\ WF_vars(RelayStep(r))

-----------------------------------------------------------------------------
(* Properties                                                              *)

Sent(r) == SelectSeq(wire, LAMBDA m : m.id = r)
TypesOf(r) == [i \in 1..Len(Sent(r)) |-> Sent(r)[i].type]

\* Each request is ended at most once and nothing is written for it after
\* its "end", although the envelopes of both requests share one writer.
EndIsLastAndUnique ==
    \A r \in Requests :
        \A i \in 1..Len(TypesOf(r)) : TypesOf(r)[i] = "end" => i = Len(TypesOf(r))

\* No host result ("stream" or "struct") is written for a request from a
\* model plugin or of a kind the declaration does not allow.
RefAllowed(k, P) ==
    CASE k \in {"llm", "text_embedding", "rerank", "tts", "speech2text",
                "moderation"}                 -> {"model", k} \subseteq P
      [] k = "system_summary"                 -> {"model", "llm"} \subseteq P
      [] k \in {"node_parameter_extractor",
                "node_question_classifier"}   -> "node" \in P
      [] k = "upload_file"                    -> TRUE
      [] OTHER                                -> k \in P
NoUnpermittedHostCall ==
    \A r \in Requests :
        (\E i \in 1..Len(TypesOf(r)) : TypesOf(r)[i] \in {"stream", "struct"})
            => req[r].access /= "model" /\ RefAllowed(req[r].kind, perms)

\* Permission matrices that tell every flag apart: all and none, each flag
\* alone, each flag with the model section, and all but one flag.
GateMatrices ==
    {Flags, {}} \cup {{f} : f \in Flags} \cup {{"model", f} : f \in Flags}
        \cup {Flags \ {f} : f \in Flags}

\* checkPermission answers for matrix P as the permission table says: "ok"
\* when the kind's flags are granted (upload_file always), "denied" when
\* not, and "unsupported" for encrypt, which has no entry.
GateAgrees(P) ==
    \A k \in Kinds :
        CheckPermission(k, P) =
            IF k = "encrypt" THEN "unsupported"
            ELSE IF RefAllowed(k, P) THEN "ok" ELSE "denied"

\* GateAgrees for all of GateMatrices (a constant, evaluated once).
GateTableAgrees == \A P \in GateMatrices : GateAgrees(P)

\* The gate answers as the permission table for every kind a plugin may
\* send, under the session's matrix and under every matrix of
\* GateMatrices, so that a kind checked against another kind's flag, or
\* encrypt given an entry, is told apart.
GateMatchesReference == GateTableAgrees /\ GateAgrees(perms)

\* A request that passed the parse (it has a handle) is eventually ended.
AcceptedEventuallyEnded ==
    \A r \in Requests :
        (phase[r] = "dispatched") ~> Contains(TypesOf(r), "end")

\* Every StreamResponse goroutine eventually returns: it never stays
\* blocked on a full stream that the task has stopped reading.
RelayEventuallyReturns ==
    \A r \in Requests : (relay[r] = "running") ~> (relay[r] = "closed")

\* Every request that carries a backwards_request_id is answered under it.
RequestWithIdAnswered ==
    \A r \in Requests :
        phase[r] \in {"returned", "done"}
        /\ req[r].env \in {"ok", "no_type", "no_request"}
            => Contains(TypesOf(r), "end")

=============================================================================
