---------------------------- MODULE EndpointSetup ----------------------------
(***************************************************************************)
(* Endpoint rows of one tenant's plugin, as changed by SetupEndpoint,      *)
(* UpdateEndpoint and RemoveEndpoint (src/internal/service/                *)
(* setup_endpoint.go) and EnableEndpoint / DisableEndpoint (service/       *)
(* endpoint.go), and one webhook request looked up by                      *)
(* App.EndpointHandler (server/endpoint.go) and checked by the first part  *)
(* of service.Endpoint.                                                    *)
(*                                                                         *)
(* Every database write and every call to the host's encrypt API is its   *)
(* own step and may fail; a service call returns at its first failure.    *)
(* Settings are abstracted to a value in Values, or Empty for the          *)
(* map[string]any{} that SetupEndpoint stores before encrypting.          *)
(***************************************************************************)
EXTENDS Naturals

CONSTANTS
    Admins,         \* concurrent callers of the management API
    Eids,           \* endpoint ids (fresh uuids) SetupEndpoint may create
    Values,         \* validated settings a caller submits
    SecretSettings, \* the declaration's endpoint settings have a secret-input
    MaxCalls,       \* bound on management calls
    NoRow, Empty    \* model values: no endpoint row; the empty settings map

ASSUME SecretSettings \in BOOLEAN /\ MaxCalls \in Nat

VARIABLES
    rows,           \* rows[e]: the endpoint row with id e, or NoRow
    installed,      \* the tenant has a plugin_installation of the plugin
    call,           \* call[a]: the management call of caller a
    calls,          \* management calls made so far
    hook,           \* the webhook request: "idle", "found", "rejected", "invoked"
    hookRow         \* the endpoint row the webhook request read

vars == <<rows, installed, call, calls, hook, hookRow>>

Row == [enabled: BOOLEAN, settings: Values \cup {Empty}]
Ops == {"none", "setup", "update", "remove", "enable"}
Steps == {"returned", "insert", "encrypt", "write", "prepare", "clear", "delete"}
Call == [op: Ops, step: Steps, e: Eids \cup {NoRow}, v: Values \cup BOOLEAN \cup {Empty},
         result: {"none", "ok", "err"}, before: [Eids -> {NoRow} \cup Row]]

TypeOK ==
    /\ rows \in [Eids -> {NoRow} \cup Row]
    /\ installed \in BOOLEAN
    /\ call \in [Admins -> Call]
    /\ calls \in 0..MaxCalls
    /\ hook \in {"idle", "found", "rejected", "invoked"}
    /\ hookRow \in {NoRow} \cup Row

Init ==
    /\ rows = [e \in Eids |-> NoRow]
    /\ installed = TRUE
    /\ call = [a \in Admins |-> [op |-> "none", step |-> "returned", e |-> NoRow,
                                 v |-> Empty, result |-> "none", before |-> rows]]
    /\ calls = 0
    /\ hook = "idle" /\ hookRow = NoRow

-----------------------------------------------------------------------------
(* Helpers                                                                 *)

\* InvokeEncrypt returns the payload without calling the host when no field
\* of the request's config is a secret-input present in the data, so only
\* such a call can fail.
EncryptRequired(data) == SecretSettings /\ data /= Empty

\* Caller a starts a call at `step` (or, with `result`, returns at once);
\* `before` is a ghost copy of the rows as the call found them.
Start(a, op, e, v, step, result) ==
    /\ call[a].step = "returned" /\ calls < MaxCalls
    /\ calls' = calls + 1
    /\ call' = [call EXCEPT ![a] = [op |-> op, step |-> step, e |-> e, v |-> v,
                                    result |-> result, before |-> rows]]

Goto(a, s) == call' = [call EXCEPT ![a].step = s]
Fail(a) == call' = [call EXCEPT ![a].step = "returned", ![a].result = "err"]
Succeed(a) == call' = [call EXCEPT ![a].step = "returned", ![a].result = "ok"]

\* A gorm update by primary key: a row deleted meanwhile stays deleted.
SetSettings(e, v) ==
    rows' = IF rows[e] = NoRow THEN rows ELSE [rows EXCEPT ![e].settings = v]

-----------------------------------------------------------------------------
(* SetupEndpoint (the plugin manager is never nil in a running daemon)    *)

\* Lines 26-57: the installation must exist; the declaration, the endpoint
\* permission, the endpoint declaration and the settings' validation are
\* checked (any may fail).  The call starts and possibly returns here.
SetupCheck(a, v) ==
    /\ \/ Start(a, "setup", NoRow, v, "returned", "err")
       \/ installed /\ Start(a, "setup", NoRow, v, "insert", "none")
    /\ UNCHANGED <<rows, installed, hook, hookRow>>

\* Lines 59-69: InstallEndpoint stores a new enabled row with settings {}.
SetupInsert(a) ==
    /\ call[a].op = "setup" /\ call[a].step = "insert"
    /\ \/ Fail(a) /\ UNCHANGED rows
       \/ \E e \in Eids :
            /\ rows[e] = NoRow
            /\ rows' = [rows EXCEPT ![e] = [enabled |-> TRUE, settings |-> Empty]]
            /\ call' = [call EXCEPT ![a].step = "encrypt", ![a].e = e]
    /\ UNCHANGED <<installed, calls, hook, hookRow>>

\* Lines 71-96: the host encrypts the submitted settings under the new id.
SetupEncrypt(a) ==
    /\ call[a].op = "setup" /\ call[a].step = "encrypt"
    /\ \/ EncryptRequired(call[a].v) /\ Fail(a)
       \/ Goto(a, "write")
    /\ UNCHANGED <<rows, installed, calls, hook, hookRow>>

\* Mutant: an UpdateEndpoint error is not checked.
SetupWriteIgnoresError(a) ==
    /\ SetSettings(call[a].e, call[a].v) \/ UNCHANGED rows
    /\ Succeed(a)

\* Lines 98-102: install_service.UpdateEndpoint stores the encrypted
\* settings; the call then returns success.
SetupWrite(a) ==
    \/ Fail(a) /\ UNCHANGED rows
    \/ SetSettings(call[a].e, call[a].v) /\ Succeed(a)

SetupUpdate(a) ==
    /\ call[a].op = "setup" /\ call[a].step = "write"
    /\ SetupWrite(a)
    /\ UNCHANGED <<installed, calls, hook, hookRow>>

-----------------------------------------------------------------------------
(* UpdateEndpoint                                                          *)

\* Lines 144-181: the endpoint row and the installation (by plugin_id) must
\* exist; the identifier, the declaration and its endpoint section are
\* checked.
UpdateGet(a, e, v) ==
    /\ \/ Start(a, "update", e, v, "returned", "err")
       \/ rows[e] /= NoRow /\ installed /\ Start(a, "update", e, v, "prepare", "none")
    /\ UNCHANGED <<rows, installed, hook, hookRow>>

\* Lines 183-255: decrypt the stored settings, put the original secret back
\* where the caller sent its mask, validate, encrypt; each may fail.
UpdatePrepare(a) ==
    /\ call[a].op = "update" /\ call[a].step = "prepare"
    /\ \/ Fail(a)
       \/ Goto(a, "write")
    /\ UNCHANGED <<rows, installed, calls, hook, hookRow>>

\* Lines 257-260: install_service.UpdateEndpoint writes the settings.
UpdateWrite(a) ==
    /\ call[a].op = "update" /\ call[a].step = "write"
    /\ \/ Fail(a) /\ UNCHANGED rows
       \/ SetSettings(call[a].e, call[a].v) /\ Goto(a, "clear")
    /\ UNCHANGED <<installed, calls, hook, hookRow>>

\* Lines 262-280: clear the host's credential cache (its config carries the
\* declaration's settings, so the host is called when one is secret).
UpdateClear(a) ==
    /\ call[a].op = "update" /\ call[a].step = "clear"
    /\ \/ EncryptRequired(call[a].v) /\ Fail(a)
       \/ Succeed(a)
    /\ UNCHANGED <<rows, installed, calls, hook, hookRow>>

-----------------------------------------------------------------------------
(* RemoveEndpoint                                                          *)

\* Lines 105-112: the endpoint row must exist.
RemoveGet(a, e) ==
    /\ \/ Start(a, "remove", e, Empty, "returned", "err")
       \/ rows[e] /= NoRow /\ Start(a, "remove", e, Empty, "delete", "none")
    /\ UNCHANGED <<rows, installed, hook, hookRow>>

\* Lines 114-140: UninstallEndpoint deletes the row; the cache-clearing
\* call has neither data nor config, so InvokeEncrypt returns at once and
\* the call succeeds (EncryptRequired(Empty) is FALSE).
RemoveDelete(a) ==
    /\ call[a].op = "remove" /\ call[a].step = "delete"
    /\ \/ Fail(a) /\ UNCHANGED rows
       \/ rows' = [rows EXCEPT ![call[a].e] = NoRow] /\ Succeed(a)
    /\ UNCHANGED <<installed, calls, hook, hookRow>>

-----------------------------------------------------------------------------
(* EnableEndpoint / DisableEndpoint (endpoint.go 190-224)                  *)

\* Read the row, set Enabled, write it back; one call in one step.
SetEnabled(a, e, b) ==
    /\ \/ Start(a, "enable", e, b, "returned", "err") /\ UNCHANGED rows
       \/ /\ rows[e] /= NoRow
          /\ rows' = [rows EXCEPT ![e].enabled = b]
          /\ Start(a, "enable", e, b, "returned", "ok")
    /\ UNCHANGED <<installed, hook, hookRow>>

-----------------------------------------------------------------------------
(* The webhook request                                                     *)

\* server/endpoint.go 35-48: the endpoint row is looked up by hook id (a
\* missing row answers 404, a database error 500).
HookLookup(e) ==
    /\ hook = "idle"
    /\ \/ hook' = "rejected" /\ UNCHANGED hookRow
       \/ rows[e] /= NoRow /\ hook' = "found" /\ hookRow' = rows[e]
    /\ UNCHANGED <<rows, installed, call, calls>>

\* server/endpoint.go 50-75 and endpoint.go 36-114: the installation must
\* exist, the row read must be enabled, and the identifier, runtime,
\* declaration and decryption (a host call only when EncryptRequired) are
\* checked; any may answer an error.  Otherwise the plugin is invoked with
\* the decrypted settings of the row read.
HookServeRejected ==
    /\ hook = "found"
    /\ hook' = "rejected"
    /\ UNCHANGED <<rows, installed, call, calls, hookRow>>

HookServeInvoked ==
    /\ hook = "found"
    /\ installed /\ hookRow.enabled
    /\ hook' = "invoked"
    /\ UNCHANGED <<rows, installed, call, calls, hookRow>>

\* The tenant installs or uninstalls the plugin (Installation.tla).
ToggleInstalled ==
    /\ installed' = ~installed
    /\ UNCHANGED <<rows, call, calls, hook, hookRow>>

-----------------------------------------------------------------------------

Admin(a) ==
    \/ \E v \in Values : SetupCheck(a, v)
    \/ SetupInsert(a) \/ SetupEncrypt(a) \/ SetupUpdate(a)
    \/ \E e \in Eids, v \in Values : UpdateGet(a, e, v)
    \/ UpdatePrepare(a) \/ UpdateWrite(a) \/ UpdateClear(a)
    \/ \E e \in Eids : RemoveGet(a, e)
    \/ RemoveDelete(a)
    \/ \E e \in Eids, b \in BOOLEAN : SetEnabled(a, e, b)

Hook == (\E e \in Eids : HookLookup(e)) \/ HookServeRejected \/ HookServeInvoked

Next == (\E a \in Admins : Admin(a)) \/ Hook \/ ToggleInstalled

Spec == Init /\ [][Next]_vars

-----------------------------------------------------------------------------
(* Properties                                                              *)

\* A management call that returned an error left the endpoint rows as it
\* found them: SetupEndpoint and UpdateEndpoint are not half-applied.
FailedCallLeftRowsUnchanged ==
    \A a \in Admins :
        call[a].step = "returned" /\ call[a].result = "err" => rows = call[a].before

\* A management call that returned success has taken effect: the row of a
\* setup or update holds the submitted settings, a removed row is gone, an
\* enabled or disabled row has that flag.
SuccessMeansApplied ==
    \A a \in Admins :
        LET c == call[a] IN
        c.step = "returned" /\ c.result = "ok" =>
            CASE c.op \in {"setup", "update"} -> rows[c.e] /= NoRow
                                                   /\ rows[c.e].settings = c.v
              [] c.op = "remove" -> rows[c.e] = NoRow
              [] c.op = "enable" -> rows[c.e] /= NoRow /\ rows[c.e].enabled = c.v
              [] OTHER -> TRUE

=============================================================================
