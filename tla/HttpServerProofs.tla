-------------------------- MODULE HttpServerProofs --------------------------
(* Proofs about HttpServer for every set of requests. *)
EXTENDS HttpServer, TLAPS

\* The channel holds at most one of the two reports of Serve.
Reports == {<<>>, <<"failed">>, <<"ErrServerClosed">>}

ServerTypes ==
    /\ ctx \in {"live", "cancelled"}
    /\ main \in {"select", "shutdown", "await", "returned"}
    /\ result \in {"none", "nil", "failed", "deadline exceeded"}
    /\ server \in {"open", "closing", "closed"}
    /\ serve \in {"accepting", "failed", "ErrServerClosed", "ended"}
    /\ errCh \in Reports
    /\ req \in [Requests -> Request]

\* ErrServerClosed is reported only after Shutdown was called, and Shutdown
\* only from the select.
ClosedInOrder ==
    /\ main = "select" => server = "open"
    /\ main = "shutdown" => server = "closing"
    /\ serve = "ErrServerClosed" \/ errCh = <<"ErrServerClosed">> => server # "open"

\* Once Shutdown has returned there is nothing active, and no new request.
DrainedStays ==
    main = "await" \/ result = "nil" => server = "closing" /\ Active = {}

\* Only clients cut connections, until the server gives up.
CutByClients ==
    server # "closed" => \A r \in Requests : req[r].conn = "cut" => req[r].gone

ServerInv == ServerTypes /\ ClosedInOrder /\ DrainedStays /\ CutByClients

LEMMA ServerInit == Init => ServerInv
  BY DEF Init, ServerInv, ServerTypes, Reports, ClosedInOrder, DrainedStays, CutByClients,
     Request, NoRequest, Kinds

\* What a step of a request may do: start it while the server is open, or end
\* its activity without cutting it off, unless its client does.
LEMMA RequestStep ==
  ASSUME ServerInv, NEW r \in Requests, NEW new \in Request,
         req' = [req EXCEPT ![r] = new],
         UNCHANGED <<ctx, main, result, server, serve, errCh>>,
         new.conn = "active" => server = "open" \/ req[r].conn = "active",
         new.conn = "cut" => new.gone \/ (req[r].conn = "cut" /\ new.gone = req[r].gone)
  PROVE  ServerInv'
<1>1. ServerTypes'
  BY DEF ServerInv, ServerTypes
<1>2. ClosedInOrder'
  BY DEF ServerInv, ClosedInOrder
<1>3. DrainedStays'
  BY DEF ServerInv, ServerTypes, DrainedStays, Active
<1>4. CutByClients'
  BY DEF ServerInv, ServerTypes, CutByClients
<1>5. QED
  BY <1>1, <1>2, <1>3, <1>4 DEF ServerInv

LEMMA RequestSteps ==
  ASSUME ServerInv, NEW r \in Requests,
         \/ \E kind \in Kinds : Accept(r, kind)
         \/ HandlerReturns(r) \/ ClientLeaves(r) \/ TimeoutFires(r)
  PROVE  ServerInv'
<1>1. req[r] \in Request
  BY DEF ServerInv, ServerTypes
<1>2. ASSUME NEW kind \in Kinds, Accept(r, kind)
      PROVE  ServerInv'
  <2> DEFINE new == [NoRequest EXCEPT !.kind = kind, !.conn = "active", !.handler = "running"]
  <2>1. new \in Request /\ new.conn = "active"
    BY DEF Request, NoRequest
  <2>2. req' = [req EXCEPT ![r] = new] /\ server = "open"
    BY <1>2 DEF Accept
  <2>3. UNCHANGED <<ctx, main, result, server, serve, errCh>>
    BY <1>2 DEF Accept
  <2> HIDE DEF new
  <2>4. QED
    BY <2>1, <2>2, <2>3, RequestStep
<1>3. CASE HandlerReturns(r)
  <2> DEFINE new == IF req[r].conn = "active"
                    THEN [req[r] EXCEPT !.handler = "returned", !.conn = "idle",
                                        !.reply = "handler"]
                    ELSE [req[r] EXCEPT !.handler = "returned"]
  <2>1. /\ new \in Request /\ new.conn # "active" /\ new.gone = req[r].gone
        /\ new.conn = "cut" => req[r].conn = "cut"
    BY <1>1 DEF Request
  <2>2. req' = [req EXCEPT ![r] = new]
    BY <1>3 DEF HandlerReturns
  <2>3. UNCHANGED <<ctx, main, result, server, serve, errCh>>
    BY <1>3 DEF HandlerReturns
  <2> HIDE DEF new
  <2>4. QED
    BY <2>1, <2>2, <2>3, RequestStep
<1>4. CASE ClientLeaves(r)
  <2> DEFINE new == [req[r] EXCEPT !.conn = "cut", !.cancelled = TRUE, !.gone = TRUE]
  <2>1. new \in Request /\ new.conn = "cut" /\ new.gone
    BY <1>1 DEF Request
  <2>2. req' = [req EXCEPT ![r] = new]
    BY <1>4 DEF ClientLeaves
  <2>3. UNCHANGED <<ctx, main, result, server, serve, errCh>>
    BY <1>4 DEF ClientLeaves
  <2> HIDE DEF new
  <2>4. QED
    BY <2>1, <2>2, <2>3, RequestStep
<1>5. CASE TimeoutFires(r)
  <2> DEFINE new == [req[r] EXCEPT !.conn = "idle", !.cancelled = TRUE, !.reply = "timeout"]
  <2>1. new \in Request /\ new.conn = "idle"
    BY <1>1 DEF Request
  <2>2. req' = [req EXCEPT ![r] = new]
    BY <1>5 DEF TimeoutFires
  <2>3. UNCHANGED <<ctx, main, result, server, serve, errCh>>
    BY <1>5 DEF TimeoutFires
  <2> HIDE DEF new
  <2>4. QED
    BY <2>1, <2>2, <2>3, RequestStep
<1>6. QED
  BY <1>2, <1>3, <1>4, <1>5

LEMMA ServerStep == ServerInv /\ [Next]_serverVars => ServerInv'
<1> SUFFICES ASSUME ServerInv, [Next]_serverVars PROVE ServerInv'
  OBVIOUS
<1> USE DEF ServerInv, ServerTypes, Reports, ClosedInOrder, DrainedStays, CutByClients, Active
<1>1. CASE Cancel
  BY <1>1 DEF Cancel
<1>2. CASE ListenerFails
  BY <1>2 DEF ListenerFails
<1>3. CASE ServeStops
  BY <1>3 DEF ServeStops
<1>4. CASE ServeReports
  BY <1>4 DEF ServeReports
<1>5. CASE ServeResult
  <2>1. /\ main \in {"select", "await"} /\ main' = "returned"
        /\ errCh' = <<>> /\ UNCHANGED <<server, serve, req>> /\ UNCHANGED ctx
    BY <1>5 DEF ServeResult, Receiving
  <2>2. /\ errCh[1] = "ErrServerClosed" => errCh = <<"ErrServerClosed">>
        /\ errCh[1] # "ErrServerClosed" => errCh[1] = "failed"
    <3>1. errCh = <<"failed">> \/ errCh = <<"ErrServerClosed">>
      BY <1>5 DEF ServeResult
    <3>2. CASE errCh = <<"failed">>
      BY <3>2
    <3>3. CASE errCh = <<"ErrServerClosed">>
      BY <3>3
    <3>4. QED
      BY <3>1, <3>2, <3>3
  <2>3. /\ result' \in {"nil", "failed"}
        /\ result' = "nil" => errCh = <<"ErrServerClosed">>
    BY <1>5, <2>2 DEF ServeResult
  <2>4. result' = "nil" => server = "closing" /\ Active = {}
    BY <2>1, <2>3
  <2>5. ServerTypes' /\ ClosedInOrder'
    BY <2>1, <2>3
  <2>6. DrainedStays' /\ CutByClients'
    BY <2>1, <2>4
  <2>7. QED
    BY <2>5, <2>6
<1>6. CASE BeginShutdown
  BY <1>6 DEF BeginShutdown
<1>7. CASE ShutdownReturns
  BY <1>7 DEF ShutdownReturns, Drained
<1>8. CASE ShutdownExpires
  <2>1. req' \in [Requests -> Request]
    <3>1. ASSUME NEW r \in Requests
          PROVE  [req[r] EXCEPT !.conn = "cut", !.cancelled = TRUE] \in Request
      BY DEF Request
    <3>2. QED
      BY <1>8, <3>1 DEF ShutdownExpires
  <2>2. /\ server' = "closed" /\ main' = "returned" /\ result' = "deadline exceeded"
        /\ UNCHANGED <<ctx, serve, errCh>>
    BY <1>8 DEF ShutdownExpires
  <2>3. QED
    BY <2>1, <2>2
<1>9. CASE \E r \in Requests :
             \/ \E kind \in Kinds : Accept(r, kind)
             \/ HandlerReturns(r) \/ ClientLeaves(r) \/ TimeoutFires(r)
  BY <1>9, RequestSteps
<1>10. CASE UNCHANGED serverVars
  BY <1>10 DEF serverVars
<1>11. QED
  BY <1>1, <1>2, <1>3, <1>4, <1>5, <1>6, <1>7, <1>8, <1>9, <1>10 DEF Next, Goroutines

\* The inductive invariant holds in every state of the server.
THEOREM ServerInvHolds == Spec => []ServerInv
  BY ServerInit, ServerStep, PTL DEF Spec

\* Types; the channel of capacity 1 never holds more than Serve's one report
\* (server.go:69-72).
THEOREM ServerTypeCorrect == Spec => []ServerTypeOK
<1>1. errCh \in Reports => Len(errCh) <= 1
  <2>1. Len(<<>>) = 0 /\ Len(<<"failed">>) = 1 /\ Len(<<"ErrServerClosed">>) = 1
    OBVIOUS
  <2>2. errCh \in Reports => Len(errCh) = 0 \/ Len(errCh) = 1
    BY <2>1 DEF Reports
  <2>3. QED
    BY <2>2, 0 <= 1, 1 <= 1
<1>2. ServerInv => ServerTypeOK
  BY <1>1 DEF ServerInv, ServerTypes, ServerTypeOK
<1>3. QED
  BY <1>2, ServerInvHolds, PTL

\* For any number of requests, ListenAndServe returns nil only if no request
\* was cut off by the server and none is being served (server.go:80-91): the
\* report ErrServerClosed cannot be received before Shutdown has drained.
THEOREM NilMeansDrainedHolds == Spec => []NilMeansDrained
<1>1. ServerInv => NilMeansDrained
  BY DEF ServerInv, DrainedStays, CutByClients, Active, NilMeansDrained
<1>2. QED
  BY <1>1, ServerInvHolds, PTL

-----------------------------------------------------------------------------
\* Whoever cancels a request's context ends its activity in the same step.
ActiveLives == \A r \in Requests : req[r].conn = "active" => ~req[r].cancelled

LEMMA ActiveLivesStep == ServerInv /\ ActiveLives /\ [Next]_serverVars => ActiveLives'
<1> SUFFICES ASSUME ServerInv, ActiveLives, [Next]_serverVars PROVE ActiveLives'
  OBVIOUS
<1>1. req \in [Requests -> Request]
  BY DEF ServerInv, ServerTypes
<1>2. CASE UNCHANGED req
  BY <1>2 DEF ActiveLives
<1>3. ASSUME NEW q \in Requests, NEW new, req' = [req EXCEPT ![q] = new],
             new.conn = "active" => ~new.cancelled
      PROVE  ActiveLives'
  BY <1>1, <1>3 DEF ActiveLives
<1>4. ASSUME NEW q \in Requests, NEW kind \in Kinds, Accept(q, kind)
      PROVE  ActiveLives'
  <2> DEFINE new == [NoRequest EXCEPT !.kind = kind, !.conn = "active", !.handler = "running"]
  <2>1. ~new.cancelled
    BY DEF NoRequest
  <2>2. req' = [req EXCEPT ![q] = new]
    BY <1>4 DEF Accept
  <2> HIDE DEF new
  <2>3. QED
    BY <1>3, <2>1, <2>2
<1>5. ASSUME NEW q \in Requests, HandlerReturns(q)
      PROVE  ActiveLives'
  <2> DEFINE new == IF req[q].conn = "active"
                    THEN [req[q] EXCEPT !.handler = "returned", !.conn = "idle",
                                        !.reply = "handler"]
                    ELSE [req[q] EXCEPT !.handler = "returned"]
  <2>1. new.conn # "active"
    BY <1>1 DEF Request
  <2>2. req' = [req EXCEPT ![q] = new]
    BY <1>5 DEF HandlerReturns
  <2> HIDE DEF new
  <2>3. QED
    BY <1>3, <2>1, <2>2
<1>6. ASSUME NEW q \in Requests, ClientLeaves(q) \/ TimeoutFires(q)
      PROVE  ActiveLives'
  <2>1. \E new : req' = [req EXCEPT ![q] = new] /\ new.conn # "active"
    <3>1. CASE ClientLeaves(q)
      <4>1. req' = [req EXCEPT ![q] = [req[q] EXCEPT !.conn = "cut", !.cancelled = TRUE,
                                                     !.gone = TRUE]]
        BY <3>1 DEF ClientLeaves
      <4>2. [req[q] EXCEPT !.conn = "cut", !.cancelled = TRUE, !.gone = TRUE].conn = "cut"
        BY <1>1 DEF Request
      <4>3. QED
        BY <4>1, <4>2
    <3>2. CASE TimeoutFires(q)
      <4>1. req' = [req EXCEPT ![q] = [req[q] EXCEPT !.conn = "idle", !.cancelled = TRUE,
                                                     !.reply = "timeout"]]
        BY <3>2 DEF TimeoutFires
      <4>2. [req[q] EXCEPT !.conn = "idle", !.cancelled = TRUE, !.reply = "timeout"].conn
              = "idle"
        BY <1>1 DEF Request
      <4>3. QED
        BY <4>1, <4>2
    <3>3. QED
      BY <1>6, <3>1, <3>2
  <2>2. QED
    BY <1>3, <2>1
<1>7. CASE ShutdownExpires
  <2>1. \A r \in Requests : req'[r].conn # "active" \/ req'[r] = req[r]
    BY <1>1, <1>7 DEF ShutdownExpires, Active, Request
  <2>2. QED
    BY <2>1 DEF ActiveLives
<1>8. QED
  BY <1>2, <1>4, <1>5, <1>6, <1>7 DEF Next, Goroutines, serverVars, Cancel, ListenerFails,
     ServeStops, ServeReports, ServeResult, BeginShutdown, ShutdownReturns

\* Which request a step touches, and what that means for a stream.
LEMMA StreamStep ==
  ASSUME ServerInv, ActiveLives, Next, NEW r \in Requests,
         req[r].kind = "sse", req[r].conn = "active", req'[r].conn # "active"
  PROVE  req'[r].gone \/ server' = "closed"
<1>1. req \in [Requests -> Request] /\ req'[r] # req[r]
  BY DEF ServerInv, ServerTypes
<1>2. CASE ShutdownExpires
  BY <1>2 DEF ShutdownExpires
<1>3. ASSUME NEW q \in Requests, NEW kind \in Kinds, Accept(q, kind)
      PROVE  FALSE
  BY <1>1, <1>3 DEF Accept
<1>4. ASSUME NEW q \in Requests, HandlerReturns(q)
      PROVE  FALSE
  BY <1>1, <1>4 DEF HandlerReturns, ActiveLives
<1>5. ASSUME NEW q \in Requests, TimeoutFires(q)
      PROVE  FALSE
  BY <1>1, <1>5 DEF TimeoutFires, Timed
<1>6. ASSUME NEW q \in Requests, ClientLeaves(q)
      PROVE  req'[r].gone
  <2>1. q = r
    BY <1>1, <1>6 DEF ClientLeaves
  <2>2. QED
    BY <1>1, <1>6, <2>1 DEF ClientLeaves, Request
<1>7. QED
  BY <1>1, <1>2, <1>3, <1>4, <1>5, <1>6 DEF Next, Goroutines, Cancel, ListenerFails,
     ServeStops, ServeReports, ServeResult, BeginShutdown, ShutdownReturns

\* For any number of requests, a stream ends only with its client or with the
\* server, since nothing else cancels it and the timeout wraps REST only
\* (server.go:26-28, 56).
THEOREM StreamsLastHolds == Spec => StreamsLast
<1>1. Init => ActiveLives
  BY DEF Init, ActiveLives, NoRequest
<1>2. Spec => []ActiveLives
  BY <1>1, ActiveLivesStep, ServerInvHolds, PTL DEF Spec
<1>3. ServerInv /\ ActiveLives /\ [Next]_serverVars =>
        [\A r \in Requests :
           req[r].kind = "sse" /\ req[r].conn = "active" /\ req'[r].conn # "active" =>
              \/ req'[r].gone
              \/ server' = "closed"]_serverVars
  BY StreamStep
<1>4. QED
  BY <1>2, <1>3, ServerInvHolds, PTL DEF Spec, StreamsLast
=============================================================================
