---------------------------- MODULE EndpointInvoke ----------------------------
(***************************************************************************)
(* One request to a plugin endpoint: service.Endpoint in                  *)
(* src/internal/service/endpoint.go.                                       *)
(*                                                                         *)
(* The gin handler prepares the request, opens a session, invokes the      *)
(* plugin, and submits a goroutine that copies the plugin's response       *)
(* stream to ctx.Writer; the handler then waits for the first of the       *)
(* goroutine's done channel, the client closing the connection, and a      *)
(* 240 s timer, and returns through its defers: close(), response.Close() *)
(* and session.Close().  The plugin fills the response stream (capacity    *)
(* StreamCap) and may close it; a closed stream still yields its buffered  *)
(* chunks before Next is false.                                            *)
(***************************************************************************)
EXTENDS Naturals

CONSTANTS
    StreamCap,      \* capacity of the response stream
    MaxChunks       \* chunks the plugin produces at most

ASSUME StreamCap \in Nat \ {0} /\ MaxChunks \in Nat

VARIABLES
    handler,        \* "begin", "select", "returned"
    streamer,       \* "none", "next", "write", "exited"
    sessionOpen,    \* the session is open
    buf,            \* chunks in the response stream
    produced,       \* chunks the plugin has written so far
    pluginClosed,   \* the plugin ended the stream
    respClosed,     \* response.Close() ran
    closedFlag,     \* the int32 `closed` of the CAS
    doneCloses,     \* times close(done) ran
    clientGone,     \* ctx.Writer.CloseNotify() fired
    writesAfterReturn \* chunks written to ctx.Writer after the handler returned

vars == <<handler, streamer, sessionOpen, buf, produced, pluginClosed,
          respClosed, closedFlag, doneCloses, clientGone, writesAfterReturn>>

TypeOK ==
    /\ handler \in {"begin", "select", "returned"}
    /\ streamer \in {"none", "next", "write", "exited"}
    /\ buf \in 0..StreamCap /\ produced \in 0..MaxChunks
    /\ doneCloses \in 0..2
    /\ writesAfterReturn \in 0..MaxChunks
    /\ {sessionOpen, pluginClosed, respClosed, closedFlag, clientGone}
           \subseteq BOOLEAN

Init ==
    /\ handler = "begin" /\ streamer = "none"
    /\ sessionOpen = FALSE
    /\ buf = 0 /\ produced = 0
    /\ pluginClosed = FALSE /\ respClosed = FALSE
    /\ closedFlag = FALSE /\ doneCloses = 0
    /\ clientGone = FALSE
    /\ writesAfterReturn = 0

-----------------------------------------------------------------------------
(* close := func() { if CAS(closed, 0, 1) { close(done) } }                *)

CloseDone ==
    /\ closedFlag' = TRUE
    /\ doneCloses' = IF closedFlag THEN doneCloses ELSE doneCloses + 1

-----------------------------------------------------------------------------
(* The handler                                                             *)

\* Lines 36-114: a check before the session is made (endpoint disabled,
\* body, identifier, runtime, declaration, decrypt) answers and returns;
\* so does an InvokeEndpoint error (lines 136-145), through the session's
\* deferred Close.
PrepareReturns ==
    /\ handler = "begin"
    /\ handler' = "returned"
    /\ UNCHANGED <<streamer, sessionOpen, buf, produced, pluginClosed,
                   respClosed, closedFlag, doneCloses, clientGone,
                   writesAfterReturn>>

\* Lines 116-180: the session is opened, the plugin invoked and the
\* copying goroutine submitted; the handler goes to its select.
PrepareInvokes ==
    /\ handler = "begin"
    /\ handler' = "select"
    /\ sessionOpen' = TRUE
    /\ streamer' = "next"
    /\ UNCHANGED <<buf, produced, pluginClosed, respClosed, closedFlag,
                   doneCloses, clientGone, writesAfterReturn>>

Prepare == PrepareReturns \/ PrepareInvokes

\* Mutant: the handler returns without session.Close().
ReturnKeepsSession ==
    /\ handler' = "returned"
    /\ CloseDone
    /\ respClosed' = TRUE
    /\ UNCHANGED sessionOpen

\* Mutant: the handler returns without response.Close().
ReturnKeepsResponse ==
    /\ handler' = "returned"
    /\ CloseDone
    /\ sessionOpen' = FALSE
    /\ UNCHANGED respClosed

\* The deferred close(), response.Close() and session.Close().
Return ==
    /\ handler' = "returned"
    /\ CloseDone
    /\ respClosed' = TRUE
    /\ sessionOpen' = FALSE

\* select: case <-done, case <-CloseNotify(), case <-time.After(240 s)
\* (which writes a 500 answer first); the timer can fire at any time.
SelectDone ==
    /\ handler = "select"
    /\ closedFlag
    /\ Return
    /\ UNCHANGED <<streamer, buf, produced, pluginClosed, clientGone,
                   writesAfterReturn>>

SelectClientGone ==
    /\ handler = "select"
    /\ clientGone
    /\ Return
    /\ UNCHANGED <<streamer, buf, produced, pluginClosed, clientGone,
                   writesAfterReturn>>

SelectTimeout ==
    /\ handler = "select"
    /\ Return
    /\ UNCHANGED <<streamer, buf, produced, pluginClosed, clientGone,
                   writesAfterReturn>>

-----------------------------------------------------------------------------
(* The copying goroutine                                                   *)

\* response.Next(): true with a buffered chunk (also after Close); false
\* once the stream is closed and drained, and the goroutine runs its
\* deferred close().  With nothing buffered on an open stream it blocks.
StreamerNext ==
    /\ streamer = "next"
    /\ \/ /\ buf > 0
          /\ buf' = buf - 1
          /\ streamer' = "write"
          /\ UNCHANGED <<closedFlag, doneCloses>>
       \/ /\ buf = 0 /\ (pluginClosed \/ respClosed)
          /\ streamer' = "exited"
          /\ CloseDone
          /\ UNCHANGED buf
    /\ UNCHANGED <<handler, sessionOpen, produced, pluginClosed, respClosed,
                   clientGone, writesAfterReturn>>

\* ctx.Writer.Write(chunk); ctx.Writer.Flush().
StreamerWrite ==
    /\ streamer = "write"
    /\ streamer' = "next"
    /\ writesAfterReturn' = IF handler = "returned" THEN writesAfterReturn + 1
                            ELSE writesAfterReturn
    /\ UNCHANGED <<handler, sessionOpen, buf, produced, pluginClosed,
                   respClosed, closedFlag, doneCloses, clientGone>>

-----------------------------------------------------------------------------
(* Environment: the plugin and the client                                  *)

\* The plugin writes a chunk into the stream (blocking when it is full);
\* a write to a closed stream is dropped.
PluginChunk ==
    /\ sessionOpen \/ handler = "returned"
    /\ streamer /= "none"
    /\ ~pluginClosed /\ ~respClosed
    /\ produced < MaxChunks /\ buf < StreamCap
    /\ buf' = buf + 1 /\ produced' = produced + 1
    /\ UNCHANGED <<handler, streamer, sessionOpen, pluginClosed, respClosed,
                   closedFlag, doneCloses, clientGone, writesAfterReturn>>

\* The plugin finishes its response.
PluginClose ==
    /\ streamer /= "none" /\ ~pluginClosed
    /\ pluginClosed' = TRUE
    /\ UNCHANGED <<handler, streamer, sessionOpen, buf, produced, respClosed,
                   closedFlag, doneCloses, clientGone, writesAfterReturn>>

\* The HTTP client goes away.
ClientClose ==
    /\ ~clientGone
    /\ clientGone' = TRUE
    /\ UNCHANGED <<handler, streamer, sessionOpen, buf, produced,
                   pluginClosed, respClosed, closedFlag, doneCloses,
                   writesAfterReturn>>

-----------------------------------------------------------------------------

Handler == Prepare \/ SelectDone \/ SelectClientGone \/ SelectTimeout
Streamer == StreamerNext \/ StreamerWrite

\* The handler has returned and the goroutine has exited (or never ran).
Quiescent ==
    /\ handler = "returned" /\ streamer \in {"none", "exited"}
    /\ UNCHANGED vars

Next == Handler \/ Streamer \/ PluginChunk \/ PluginClose \/ ClientClose
        \/ Quiescent

\* The handler and the goroutine are scheduled, and the 240 s timer always
\* fires in the end, so the handler's select is weakly fair as a whole;
\* the plugin and the client get no fairness.
Spec == Init /\ [][Next]_vars /\ WF_vars(Handler) /\ WF_vars(Streamer)

-----------------------------------------------------------------------------
(* Properties                                                              *)

\* Every session the handler opens is closed (spec: closed on the first of
\* stream end, upstream cancel and the 240 s timeout).
SessionEventuallyClosed == sessionOpen ~> ~sessionOpen

\* Once the handler has returned, the copying goroutine ends even if the
\* plugin never finishes its stream: no goroutine is left blocked in Next.
StreamerEventuallyExits == handler = "returned" ~> streamer \in {"none", "exited"}

\* The goroutine writes to ctx.Writer only while the handler that owns the
\* gin context is still running.
NoWriteAfterReturn == writesAfterReturn = 0

=============================================================================
