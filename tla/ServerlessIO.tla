----------------------------- MODULE ServerlessIO -----------------------------
(***************************************************************************)
(* Listen and Write of the serverless (AWS Lambda) plugin runtime.         *)
(*                                                                         *)
(*   src/internal/core/plugin_manager/aws_manager/io.go   Listen, Write    *)
(*   src/internal/core/plugin_manager/aws_manager/type.go  listeners map   *)
(*                                                                         *)
(* Listen(s) stores a new broadcast for session s in the runtime's         *)
(* listeners map.  Write(s) looks it up, builds the POST to the Lambda URL *)
(* and submits a goroutine that sends the request, scans the line-         *)
(* delimited response and forwards it to the broadcast; its defers send    *)
(* END, close the broadcast and delete it from the map, in that order      *)
(* (Go runs defers last-in first-out).  The session layer that calls      *)
(* Listen and Write is not under src/: it listens once per session, and    *)
(* the caller's Write may come before or after its Listen.                 *)
(*                                                                         *)
(* The response body is abstracted to a sequence of line kinds chosen as   *)
(* the goroutine scans them; message payloads are abstracted to kinds.     *)
(***************************************************************************)
EXTENDS Naturals, Sequences

CONSTANTS
    Sessions,        \* session ids
    MaxLines,        \* bound on the lines of one response body
    JoinPathFails    \* url.JoinPath(r.LambdaURL, "invoke") returns an error

ASSUME MaxLines \in Nat /\ JoinPathFails \in BOOLEAN

\* Kinds of line in the response body, as the scan loop tells them apart:
\*  "session"   a session event whose data parses as a SessionMessage;
\*  "badData"   a session event whose data does not parse;
\*  "error"     a line the codec reports through its error callback;
\*  "ignored"   an empty line, a heartbeat or a log event;
\*  "long"      a line over the scanner's 5 MiB buffer.
Lines == {"session", "badData", "error", "ignored", "long"}

\* Kinds of SessionMessage sent on a listener: the forwarded message, an
\* ERROR message, the zero SessionMessage, and END.
Payloads == {"data", "error", "zero"}
END == "end"

VARIABLES
    listeners,   \* keys of r.listeners
    lstate,      \* lstate[s]: the broadcast of s is not made, open or closed
    out,         \* out[s]: messages the broadcast of s has delivered
    wpc,         \* wpc[s]: where the Write of s (and its goroutine) is
    alive,       \* sessionAlive of the scan loop
    nread        \* lines of the response body scanned so far

vars == <<listeners, lstate, out, wpc, alive, nread>>

WPC == {"idle", "dropped", "failed", "do", "scan", "sendZero",
        "deferSend", "deferClose", "deferDelete", "done"}

TypeOK ==
    /\ listeners \subseteq Sessions
    /\ lstate \in [Sessions -> {"none", "open", "closed"}]
    /\ out \in [Sessions -> Seq(Payloads \cup {END})]
    /\ wpc \in [Sessions -> WPC]
    /\ alive \in [Sessions -> BOOLEAN]
    /\ nread \in [Sessions -> 0..MaxLines]

Init ==
    /\ listeners = {}
    /\ lstate = [s \in Sessions |-> "none"]
    /\ out = [s \in Sessions |-> <<>>]
    /\ wpc = [s \in Sessions |-> "idle"]
    /\ alive = [s \in Sessions |-> TRUE]
    /\ nread = [s \in Sessions |-> 0]

-----------------------------------------------------------------------------
(* The broadcast (spec 4.11): a Send after Close delivers nothing.         *)

Send(s, ms) ==
    out' = [out EXCEPT ![s] = IF lstate[s] = "open" THEN @ \o ms ELSE @]

Goto(s, pc) == wpc' = [wpc EXCEPT ![s] = pc]

-----------------------------------------------------------------------------
(* Caller side: Listen and Write.                                          *)

\* Listen: a new broadcast stored under the session id.
Listen(s) ==
    /\ lstate[s] = "none"
    /\ lstate' = [lstate EXCEPT ![s] = "open"]
    /\ listeners' = listeners \cup {s}
    /\ UNCHANGED <<out, wpc, alive, nread>>

\* Write: no listener means the data is dropped after a log line; a URL
\* that does not join sends an ERROR and closes the broadcast but returns
\* without deleting it from the map; otherwise the goroutine is submitted.
\* http.NewRequestWithContext cannot fail here: the method is "POST" and
\* the URL is the one url.JoinPath has just parsed and printed.
Write(s) ==
    /\ wpc[s] = "idle"
    /\ \/ /\ s \notin listeners
          /\ Goto(s, "dropped")
          /\ UNCHANGED <<lstate, out>>
       \/ /\ s \in listeners /\ JoinPathFails
          /\ Send(s, <<"error">>)
          /\ lstate' = [lstate EXCEPT ![s] = "closed"]
          /\ Goto(s, "failed")
       \/ /\ s \in listeners /\ ~JoinPathFails
          /\ Goto(s, "do")
          /\ UNCHANGED <<lstate, out>>
    /\ UNCHANGED <<listeners, alive, nread>>

-----------------------------------------------------------------------------
(* The goroutine submitted by Write.                                       *)

\* r.client.Do(req): an error (including the 240 s deadline) is sent as an
\* ERROR message and the function returns into its defers.
Do(s) ==
    /\ wpc[s] = "do"
    /\ \/ /\ Send(s, <<"error">>)
          /\ Goto(s, "deferSend")
       \/ /\ Goto(s, "scan")
          /\ UNCHANGED out
    /\ UNCHANGED <<listeners, lstate, alive, nread>>

\* One line through `for scanner.Scan() && sessionAlive`, with the
\* ParsePluginUniversalEvent callbacks.  scanner.Scan() is evaluated first,
\* so after sessionAlive is cleared one more line is consumed and dropped.
ReadLine(s, line) ==
    \/ /\ line = "long"
       /\ Send(s, <<"error">>)
       /\ Goto(s, "deferSend")
       /\ UNCHANGED alive
    \/ /\ line /= "long" /\ ~alive[s]
       /\ Goto(s, "deferSend")
       /\ UNCHANGED <<out, alive>>
    \/ /\ line /= "long" /\ alive[s]
       /\ Goto(s, IF line = "badData" THEN "sendZero" ELSE "scan")
       /\ \/ line = "session" /\ Send(s, <<"data">>) /\ UNCHANGED alive
          \/ /\ line = "badData"
             /\ Send(s, <<"error">>)
             /\ alive' = [alive EXCEPT ![s] = FALSE]
          \/ line = "error" /\ Send(s, <<"error">>) /\ UNCHANGED alive
          \/ line = "ignored" /\ UNCHANGED <<out, alive>>

\* The scan loop: the body ends (Scan is false and Err is nil), the next
\* line is read, or the 240 s context deadline fails the body read, which
\* scanner.Err() reports as an ERROR message.
Scan(s) ==
    /\ wpc[s] = "scan"
    /\ \/ /\ Goto(s, "deferSend")
          /\ UNCHANGED <<out, alive, nread>>
       \/ /\ nread[s] < MaxLines
          /\ nread' = [nread EXCEPT ![s] = @ + 1]
          /\ \E line \in Lines : ReadLine(s, line)
       \/ /\ Send(s, <<"error">>)
          /\ Goto(s, "deferSend")
          /\ UNCHANGED <<alive, nread>>
    /\ UNCHANGED <<listeners, lstate>>

\* After the ERROR for data that does not parse, the session callback goes
\* on to l.Send(sessionMessage) with the zero SessionMessage: the `if`
\* that sends the ERROR does not return.
SendZero(s) ==
    /\ wpc[s] = "sendZero"
    /\ Send(s, <<"zero">>)
    /\ Goto(s, "scan")
    /\ UNCHANGED <<listeners, lstate, alive, nread>>

\* Mutant: the defer that sends END is missing; only Close and Delete run.
DeferSendMissing(s) ==
    /\ wpc[s] = "deferSend"
    /\ Goto(s, "deferClose")
    /\ UNCHANGED <<listeners, lstate, out, alive, nread>>

\* defer l.Send(END): registered last, so it runs first.
DeferSend(s) ==
    /\ wpc[s] = "deferSend"
    /\ Send(s, <<END>>)
    /\ Goto(s, "deferClose")
    /\ UNCHANGED <<listeners, lstate, alive, nread>>

\* defer l.Close().
DeferClose(s) ==
    /\ wpc[s] = "deferClose"
    /\ lstate' = [lstate EXCEPT ![s] = "closed"]
    /\ Goto(s, "deferDelete")
    /\ UNCHANGED <<listeners, out, alive, nread>>

\* defer r.listeners.Delete(session_id): registered first, so it runs last.
DeferDelete(s) ==
    /\ wpc[s] = "deferDelete"
    /\ listeners' = listeners \ {s}
    /\ Goto(s, "done")
    /\ UNCHANGED <<lstate, out, alive, nread>>

Goroutine(s) == Do(s) \/ Scan(s) \/ SendZero(s) \/ DeferSend(s) \/ DeferClose(s)
                \/ DeferDelete(s)

\* Every session has listened and written and every goroutine has returned.
Quiescent ==
    /\ \A s \in Sessions : lstate[s] /= "none"
                           /\ wpc[s] \in {"dropped", "failed", "done"}
    /\ UNCHANGED vars

Next ==
    \/ \E s \in Sessions : Listen(s) \/ Write(s) \/ Goroutine(s)
    \/ Quiescent

\* Goroutines of the routine pool are scheduled; callers get no fairness.
Spec == Init /\ [][Next]_vars /\ \A s \in Sessions : WF_vars(Goroutine(s))

-----------------------------------------------------------------------------
(* Refinement of SessionListener                                           *)

\* The abstract phase of a session: a Write is being answered from its
\* acceptance until END is sent; END sent and not yet closed is "ended".
AbsPhase(s) ==
    CASE lstate[s] = "none"                          -> "none"
      [] lstate[s] = "closed"                        -> "closed"
      [] wpc[s] \in {"do", "scan", "sendZero", "deferSend"} -> "answering"
      [] wpc[s] = "deferClose"                       -> "ended"
      [] OTHER                                       -> "listening"

Listener == INSTANCE SessionListener
                WITH phase <- [s \in Sessions |-> AbsPhase(s)],
                     registered <- listeners

\* A Write that found its listener is answered as SessionListener
\* promises: messages, then one END, then the broadcast is closed and
\* removed from r.listeners; and each of those eventually happens.
ImplementsSessionListener == Listener!Spec

=============================================================================
