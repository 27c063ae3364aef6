----------------------------- MODULE HttpServer -----------------------------
(***************************************************************************)
(* The HTTP server of internal/httpserver/server.go: ListenAndServe, its   *)
(* Serve goroutine, graceful shutdown, and the mux that wraps REST, and    *)
(* only REST, in http.TimeoutHandler.  net/http is external: a Serve       *)
(* returns once its server is closing, Shutdown waits for active           *)
(* connections until its context ends, Close cuts them.                    *)
(***************************************************************************)
EXTENDS Integers, Sequences

CONSTANTS
    Requests,
    HasTimeout    \* APITimeout > 0

ASSUME ServerConstantsOK == HasTimeout \in BOOLEAN

VARIABLES
    ctx,      \* the context of ListenAndServe: "live" or "cancelled"
    main,     \* where ListenAndServe is
    result,   \* what it returned
    server,   \* "open", "closing" (Shutdown was called) or "closed" (Close)
    serve,    \* the goroutine of srv.Serve
    errCh,    \* the channel it reports on, of capacity 1
    req       \* the requests and their handlers

serverVars == <<ctx, main, result, server, serve, errCh, req>>

-----------------------------------------------------------------------------
Kinds == {"rest", "mcp", "sse"}

\* conn: the connection; handler: the goroutine of the (inner) handler; reply:
\* who answered; gone: the client went away.
Request == [kind : Kinds \cup {"none"}, conn : {"none", "active", "idle", "cut"},
            handler : {"none", "running", "returned"},
            cancelled : BOOLEAN, reply : {"none", "handler", "timeout"}, gone : BOOLEAN]

NoRequest == [kind |-> "none", conn |-> "none", handler |-> "none",
              cancelled |-> FALSE, reply |-> "none", gone |-> FALSE]

Init ==
    /\ ctx = "live" /\ main = "select" /\ result = "none"
    /\ server = "open" /\ serve = "accepting" /\ errCh = <<>>
    /\ req = [r \in Requests |-> NoRequest]

Active == {r \in Requests : req[r].conn = "active"}

-----------------------------------------------------------------------------
(* Requests. *)

Accept(r, kind) ==
    /\ serve = "accepting"
    /\ server = "open"
    /\ req[r].conn = "none"
    /\ req' = [req EXCEPT ![r] = [NoRequest EXCEPT !.kind = kind, !.conn = "active",
                                                   !.handler = "running"]]
    /\ UNCHANGED <<ctx, main, result, server, serve, errCh>>

\* A stream is served until its context is cancelled, other handlers return
\* when they like.  The reply of a REST handler that was timed out is dropped.
HandlerReturns(r) ==
    /\ req[r].handler = "running"
    /\ req[r].kind = "sse" => req[r].cancelled
    /\ req' = [req EXCEPT ![r] = IF @.conn = "active"
                 THEN [@ EXCEPT !.handler = "returned", !.conn = "idle", !.reply = "handler"]
                 ELSE [@ EXCEPT !.handler = "returned"]]
    /\ UNCHANGED <<ctx, main, result, server, serve, errCh>>

ClientLeaves(r) ==
    /\ req[r].conn = "active"
    /\ req' = [req EXCEPT ![r] = [@ EXCEPT !.conn = "cut", !.cancelled = TRUE, !.gone = TRUE]]
    /\ UNCHANGED <<ctx, main, result, server, serve, errCh>>

\* What is wrapped in http.TimeoutHandler.  Mutants: the whole mux; the MCP
\* handler.
TimedAll == Kinds
TimedMCP == {"mcp"}

Timed == {"rest"}

\* http.TimeoutHandler answers 503, cancels the request's context, and does not
\* wait for the handler.
TimeoutFires(r) ==
    /\ HasTimeout
    /\ req[r].kind \in Timed
    /\ req[r].conn = "active"
    /\ req' = [req EXCEPT ![r] = [@ EXCEPT !.conn = "idle", !.cancelled = TRUE,
                                           !.reply = "timeout"]]
    /\ UNCHANGED <<ctx, main, result, server, serve, errCh>>

-----------------------------------------------------------------------------
(* The goroutine errCh <- srv.Serve(ln). *)

ListenerFails ==
    /\ serve = "accepting"
    /\ server = "open"
    /\ serve' = "failed"
    /\ UNCHANGED <<ctx, main, result, server, errCh, req>>

ServeStops ==
    /\ serve = "accepting"
    /\ server # "open"
    /\ serve' = "ErrServerClosed"
    /\ UNCHANGED <<ctx, main, result, server, errCh, req>>

Receiving == main \in {"select", "await"}

\* Mutant of ServeReports: errCh has no buffer.
ServeReportsUnbuffered ==
    /\ serve \in {"failed", "ErrServerClosed"}
    /\ Receiving
    /\ errCh = <<>>
    /\ errCh' = <<serve>>
    /\ serve' = "ended"
    /\ UNCHANGED <<ctx, main, result, server, req>>

ServeReports ==
    /\ serve \in {"failed", "ErrServerClosed"}
    /\ errCh = <<>>
    /\ errCh' = <<serve>>
    /\ serve' = "ended"
    /\ UNCHANGED <<ctx, main, result, server, req>>

-----------------------------------------------------------------------------
(* ListenAndServe. *)

Cancel ==
    /\ ctx = "live"
    /\ ctx' = "cancelled"
    /\ UNCHANGED <<main, result, server, serve, errCh, req>>

\* <-errCh, in the select and after Shutdown.
ServeResult ==
    /\ Receiving
    /\ errCh # <<>>
    /\ errCh' = <<>>
    /\ result' = IF errCh[1] = "ErrServerClosed" THEN "nil" ELSE errCh[1]
    /\ main' = "returned"
    /\ UNCHANGED <<ctx, server, serve, req>>

BeginShutdown ==
    /\ main = "select"
    /\ ctx = "cancelled"
    /\ server' = "closing"
    /\ main' = "shutdown"
    /\ UNCHANGED <<ctx, result, serve, errCh, req>>

\* Mutant of Drained: Shutdown does not wait for streams.
DrainedButStreams == \A r \in Active : req[r].kind = "sse"

Drained == Active = {}

ShutdownReturns ==
    /\ main = "shutdown"
    /\ Drained
    /\ main' = "await"
    /\ UNCHANGED <<ctx, result, server, serve, errCh, req>>

\* Mutant of ShutdownExpires: Shutdown without a deadline.
ShutdownUnbounded == FALSE

\* Ten seconds are over.
ShutdownExpires ==
    /\ main = "shutdown"
    /\ ~Drained
    /\ server' = "closed"
    /\ req' = [r \in Requests |->
                 IF r \in Active THEN [req[r] EXCEPT !.conn = "cut", !.cancelled = TRUE]
                                 ELSE req[r]]
    /\ result' = "deadline exceeded"
    /\ main' = "returned"
    /\ UNCHANGED <<ctx, serve, errCh>>

-----------------------------------------------------------------------------
Goroutines ==
    \/ ServeStops \/ ServeReports \/ ServeResult
    \/ BeginShutdown \/ ShutdownReturns \/ ShutdownExpires

Next ==
    \/ Goroutines
    \/ Cancel \/ ListenerFails
    \/ \E r \in Requests :
         \/ \E kind \in Kinds : Accept(r, kind)
         \/ HandlerReturns(r) \/ ClientLeaves(r) \/ TimeoutFires(r)

Spec == Init /\ [][Next]_serverVars

\* Goroutines run and timers fire; a stream's handler notices that its context
\* is cancelled.  Nobody promises that other handlers return, that clients
\* leave, or that the context is cancelled.
FairSpec ==
    /\ Spec
    /\ WF_serverVars(ServeStops) /\ WF_serverVars(ServeReports)
    /\ WF_serverVars(ServeResult \/ BeginShutdown)
    /\ WF_serverVars(ShutdownReturns \/ ShutdownExpires)
    /\ \A r \in Requests :
         /\ WF_serverVars(TimeoutFires(r))
         /\ WF_serverVars(req[r].kind = "sse" /\ HandlerReturns(r))

-----------------------------------------------------------------------------
ServerTypeOK ==
    /\ ctx \in {"live", "cancelled"}
    /\ main \in {"select", "shutdown", "await", "returned"}
    /\ result \in {"none", "nil", "failed", "deadline exceeded"}
    /\ serve \in {"accepting", "failed", "ErrServerClosed", "ended"}
    /\ Len(errCh) <= 1
    /\ req \in [Requests -> Request]

\* A ListenAndServe that returns nil has cut nobody off: every request was
\* answered by its handler or by the REST timeout, unless its client left, and
\* none is still being served (server.go:80-91).
NilMeansDrained ==
    result = "nil" =>
        \A r \in Requests : /\ req[r].conn # "active"
                            /\ req[r].conn = "cut" => req[r].gone

\* "WriteTimeout is left unset so GET SSE can hang" (server.go:56) and the
\* timeout wraps REST only (server.go:26-28): a stream ends because its client
\* left, or because the server has given up waiting for it.
StreamsLast ==
    [][\A r \in Requests :
         req[r].kind = "sse" /\ req[r].conn = "active" /\ req'[r].conn # "active" =>
            \/ req'[r].gone
            \/ server' = "closed"]_serverVars

\* Cancelling the context ends ListenAndServe whatever the handlers do, even
\* with streams that nobody closes (server.go:80-91).
CancelEnds == ctx = "cancelled" ~> main = "returned"

\* Nothing is left running in the server afterwards: the Serve goroutine can
\* always report (server.go:69-72) although nobody receives after a failed
\* Shutdown, and streams see their context cancelled, except when the listener
\* failed and ListenAndServe returned at once (server.go:75-79).
NothingLeaks ==
    /\ main = "returned" ~> serve = "ended"
    /\ \A r \in Requests :
         result = "deadline exceeded" /\ req[r].kind = "sse" ~> req[r].handler = "returned"

\* A REST client does not wait for ever, even if the workflow does
\* (server.go:46-48): it gets a reply or is told that the server goes away.
RESTAnswered ==
    HasTimeout =>
        \A r \in Requests :
            req[r].kind = "rest" /\ req[r].conn = "active" ~> req[r].conn # "active"
=============================================================================
